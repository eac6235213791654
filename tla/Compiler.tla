------------------------------ MODULE Compiler ------------------------------
(***************************************************************************)
(* The built-in C compiler and the commands gcc, g++, tcc and make          *)
(* (kernel/toolchain/compiler.cpp).                                        *)
(*                                                                         *)
(* The compiler looks for loops, prints and returns wherever they appear.   *)
(* A source is a sequence of tokens; a character of a string is one token,  *)
(* whatever its escape.  Loop headers give both bounds, which have one      *)
(* digit.  Options that only print a version are left out.  A command is    *)
(* able to go on if its files can be opened and the heap has room; a write *)
(* to a file that was opened succeeds.                                     *)
(***************************************************************************)
EXTENDS Integers, Sequences, FiniteSets, FiniteSetsExt, SequencesExt

CONSTANTS
  Programs,      \* programs, as sequences of statements
  Edits,         \* the programs the source is changed to
  MaxPrints,     \* 256
  BufCapacity,   \* 65536: of the code, and of the strings
  LineRoom,      \* 512: what a string may need
  MaxBin,        \* 131072
  Makefiles      \* commands of makefiles

\* What a token is: braces, the names that print, a quote, and the characters
\* of strings, with those that stand for the counter, a number or an end of line.
Kinds ==
  {"for", "lbrace", "rbrace", "printf", "puts", "cout", "quote", "chr", "fmt", "num", "newline",
   "endl", "semicolon", "return"}

\* Bounds of a loop, a number or what is returned.
Token == [t : Kinds, n : Nat, m : Nat]

\* A statement that prints a text, alone or in a loop from one number to another.
Statement ==
  [loop : BOOLEAN, from : Nat, to : Nat, strict : BOOLEAN, braces : BOOLEAN,
   call : {"printf", "puts", "cout"}, text : Seq(Token), endl : BOOLEAN]

\* A longer string is cut by the code; an escape takes two characters.
ASSUME CompilerAssumption ==
  /\ MaxPrints \in Nat /\ BufCapacity \in Nat /\ LineRoom \in Nat /\ MaxBin \in Nat
  /\ Programs \cup Edits \subseteq Seq(Statement)
  /\ \A p \in Programs \cup Edits : \A k \in DOMAIN p : 2 * Len(p[k].text) + 2 < LineRoom
  /\ Makefiles \subseteq Seq({"gcc", "rm"})

VARIABLES
  source,    \* the statements in the source file
  output,    \* the program in the output file, at most one
  result     \* what the last command has returned, and which it was

compilerVars == <<source, output, result>>

WriteLen == 30      \* bytes of the code of one print
LeaEnd == 21        \* where its lea ends
CodeRoom == 64
ExitLen == 16
TextOffset == 128   \* of the code in the file

Tok(t) == [t |-> t, n |-> 0, m |-> 0]
Newline == Tok("newline")
Num(n) == [t |-> "num", n |-> n, m |-> 0]

----------------------------------------------------------------------------
(* Parsing.                                                                *)

\* The next token of a kind, or the end.
NextOf(src, i, kinds) == Min({Len(src) + 1} \cup {j \in i..Len(src) : src[j].t \in kinds})

\* Faulty variant: a loop without braces goes on after its print.
LoopAfterPrint_open(st) == st.in_loop

LoopAfterPrint(st) == st.in_loop /\ st.loop_depth > 0

AddPrint(st, text) ==
  IF Len(st.prints) >= MaxPrints THEN st
  ELSE [st EXCEPT
          !.prints = Append(@, [text |-> text, has_counter |-> st.in_loop,
                                start_val |-> st.start, end_val |-> st.end]),
          !.in_loop = LoopAfterPrint(st)]

\* endl ends a line that is not empty and not ended yet.
WithEndl(src, from, text) ==
  LET ends == NextOf(src, from, {"semicolon"})
      has == NextOf(src, from, {"endl"}) < ends
  IN  IF has /\ text # <<>> /\ Last(text) # Newline THEN Append(text, Newline) ELSE text

ParsePrint(st, src, i) ==
  LET open == IF src[i].t = "cout" THEN NextOf(src, i, {"quote", "semicolon"})
              ELSE NextOf(src, i, {"quote"})
      close == NextOf(src, open + 1, {"quote"})
      text == SubSeq(src, open + 1, close - 1)
  IN  IF open > Len(src) \/ src[open].t = "semicolon" \/ close > Len(src) THEN st
      ELSE AddPrint(st, IF src[i].t = "cout" THEN WithEndl(src, close + 1, text) ELSE text)

\* One position; strings are gone through like the rest.
ParseStep(st, src, i) ==
  LET t == src[i].t
      looped == IF t = "for" THEN [st EXCEPT !.in_loop = TRUE, !.loop_depth = 0,
                                             !.start = src[i].n, !.end = src[i].m]
                ELSE IF ~st.in_loop THEN st
                ELSE IF t = "lbrace" THEN [st EXCEPT !.loop_depth = @ + 1]
                ELSE IF t = "rbrace" THEN [st EXCEPT !.loop_depth = IF @ > 0 THEN @ - 1 ELSE 0,
                                                !.in_loop = st.loop_depth > 1]
                ELSE st
  IN  CASE t \in {"printf", "puts", "cout"} -> ParsePrint(looped, src, i)
        [] t = "return" -> [looped EXCEPT !.ret_code = src[i].n]
        [] OTHER -> looped

ParseStart ==
  [prints |-> <<>>, in_loop |-> FALSE, loop_depth |-> 0, start |-> 1, end |-> 5, ret_code |-> 0]

parse_c_statements(src) ==
  LET st[i \in 0..Len(src)] == IF i = 0 THEN ParseStart ELSE ParseStep(st[i - 1], src, i)
  IN  st[Len(src)]

----------------------------------------------------------------------------
(* Code.                                                                   *)

Bytes(text) == Len(text) + Cardinality({k \in DOMAIN text : text[k].t = "fmt"})

\* Without a %d the counter is put at the end of the line.
Line(text, val) ==
  LET filled == [k \in DOMAIN text |-> IF text[k].t = "fmt" THEN Num(val) ELSE text[k]]
      bare == IF text # <<>> /\ Last(text) = Newline THEN Front(text) ELSE text
  IN  IF \E k \in DOMAIN text : text[k].t = "fmt" THEN filled
      ELSE bare \o <<Num(val), Newline>>

Lines(print) ==
  IF print.has_counter
  THEN [k \in 1..(print.end_val - print.start_val + 1) |-> Line(print.text, print.start_val + k - 1)]
  ELSE <<print.text>>

\* The code of one print: disp is taken from the end of all of it.
EmitLine(e, line) ==
  IF e.code_pos + CodeRoom >= BufCapacity \/ e.rodata_pos + LineRoom >= BufCapacity THEN e
  ELSE [code_pos |-> e.code_pos + WriteLen,
        rodata_pos |-> e.rodata_pos + Bytes(line) + 1,
        writes |-> Append(e.writes, [line |-> line, code |-> e.code_pos, str_off |-> e.rodata_pos,
                                     disp |-> e.rodata_pos - (e.code_pos + WriteLen)])]

EmitStart == [code_pos |-> 0, rodata_pos |-> 0, writes |-> <<>>]

Emitted(lines) ==
  LET e[k \in 0..Len(lines)] == IF k = 0 THEN EmitStart ELSE EmitLine(e[k - 1], lines[k])
  IN  e[Len(lines)]

Padded(n) == ((n + 15) \div 16) * 16

StringsAt(code_pos) == Padded(code_pos + ExitLen)

\* The writes with the addresses their lea computes, from the start of the code.
emit_elf64_binary(prints, ret_code) ==
  LET e == Emitted(FlattenSeq([k \in DOMAIN prints |-> Lines(prints[k])]))
      code == Padded(e.code_pos + ExitLen)
  IN  [writes |-> [k \in DOMAIN e.writes |->
                     [line |-> e.writes[k].line, str |-> code + e.writes[k].str_off,
                      reads |-> e.writes[k].code + LeaEnd + e.writes[k].disp + StringsAt(e.code_pos)]],
       ret_code |-> ret_code, size |-> TextOffset + code + e.rodata_pos]

----------------------------------------------------------------------------
(* C programs, and what they print.                                        *)

Quote == Tok("quote")

Opening(s) ==
  LET for == [t |-> "for", n |-> s.from, m |-> s.to]
  IN  IF ~s.loop THEN <<>> ELSE IF s.braces THEN <<for, Tok("lbrace")>> ELSE <<for>>

Closing(s) ==
  (IF s.endl THEN <<Tok("endl")>> ELSE <<>>)
    \o (IF s.loop /\ s.braces THEN <<Tok("semicolon"), Tok("rbrace")>> ELSE <<Tok("semicolon")>>)

Rendered(s) == Opening(s) \o <<Tok(s.call), Quote>> \o s.text \o <<Quote>> \o Closing(s)

Tokens(program) ==
  FlattenSeq([k \in DOMAIN program |-> Rendered(program[k])]) \o <<[t |-> "return", n |-> 3, m |-> 0]>>

Meaning(s) ==
  LET text == IF s.endl THEN Append(s.text, Newline) ELSE s.text
      last == IF s.strict THEN s.to - 1 ELSE s.to
  IN  IF ~s.loop THEN <<text>>
      ELSE [k \in 1..(last - s.from + 1) |->
              [j \in DOMAIN text |-> IF text[j].t = "fmt" THEN Num(s.from + k - 1) ELSE text[j]]]

\* What the compiler is made for: loops up to and including a bound, whose
\* print has the counter in it, and strings without a brace that opens.  puts ends no line.
Supported(s) ==
  /\ s.call # "puts"
  /\ s.loop => ~s.strict /\ \E k \in DOMAIN s.text : s.text[k].t = "fmt"
  /\ \A k \in DOMAIN s.text : s.text[k].t \in {"chr", "fmt", "num", "newline", "rbrace"}
  /\ s.endl => s.call = "cout" /\ s.text # <<>> /\ Last(s.text) # Newline

----------------------------------------------------------------------------
(* Commands.                                                               *)

compile_c(program) ==
  LET parsed == parse_c_statements(Tokens(program))
  IN  emit_elf64_binary(parsed.prints, parsed.ret_code)

Built(program) == [from |-> program, by |-> "gcc", image |-> compile_c(program)]
External(program) ==
  [from |-> program, by |-> "external", image |-> [writes |-> <<>>, ret_code |-> 0, size |-> 0]]

ReturnOf(ok) == IF ok THEN 0 ELSE 1

\* The output is opened, and emptied, only once there is a program for it.
compile_file(program, out, able) ==
  LET ok == able /\ program # <<>> /\ compile_c(program).size <= MaxBin
  IN  [output |-> IF ok THEN {Built(program)} ELSE out, ret |-> ReturnOf(ok)]

\* An external compiler runs first; what it has written is kept, and so is any
\* output that was there before.
gcc_outcome(program, out, external, able) ==
  LET after == IF external THEN {External(program)} ELSE out
  IN  IF after # {} THEN [output |-> after, ret |-> 0] ELSE compile_file(program, after, able)

\* g++ and, without an external tcc, tcc do the same.
cmd_gcc(external, able) ==
  LET r == gcc_outcome(source, output, external, able)
  IN  output' = r.output /\ result' = [cmd |-> "gcc", ret |-> r.ret] /\ UNCHANGED source

\* Every command runs, whatever the ones before have returned.
build_make(commands, able) ==
  LET out[k \in 0..Len(commands)] ==
        IF k = 0 THEN output
        ELSE IF commands[k] = "rm" THEN {} ELSE gcc_outcome(source, out[k - 1], FALSE, TRUE).output
  IN  /\ output' = IF able THEN out[Len(commands)] ELSE output
      /\ result' = [cmd |-> "make", ret |-> ReturnOf(able)]
      /\ UNCHANGED source

\* The user edits the source.
edit(program) ==
  /\ source' = program
  /\ result' = [cmd |-> "edit", ret |-> 0]
  /\ UNCHANGED output

----------------------------------------------------------------------------
CompilerInit == source \in Programs /\ output = {} /\ result = [cmd |-> "none", ret |-> 0]

CompilerNext ==
  \/ \E external, able \in BOOLEAN : cmd_gcc(external, able)
  \/ \E c \in Makefiles, able \in BOOLEAN : build_make(c, able)
  \/ \E p \in Edits : edit(p)

CompilerSpec == CompilerInit /\ [][CompilerNext]_compilerVars

----------------------------------------------------------------------------
(* Properties.                                                             *)

\* A compiled program prints what its source says, in order, and ends with its
\* exit code, if the source keeps to what the compiler is made for; at most the
\* end is missing, when a buffer or the list of prints is full.
PrintsTheSource ==
  \A o \in output :
    o.by = "gcc" /\ (\A k \in DOMAIN o.from : Supported(o.from[k])) =>
      LET meant == FlattenSeq([k \in DOMAIN o.from |-> Meaning(o.from[k])])
          made == [k \in DOMAIN o.image.writes |-> o.image.writes[k].line]
      IN  /\ o.image.ret_code = 3
          /\ IsPrefix(made, meant)
          /\ Bytes(FlattenSeq(meant)) + Len(meant) + LineRoom < BufCapacity
               /\ Len(meant) * WriteLen + CodeRoom < BufCapacity /\ Len(o.from) <= MaxPrints
             => made = meant

\* Every write of a compiled program reads at the place of its own string, less
\* the nine bytes between its lea and the end of its code; strings lie apart.
StringsPlaced ==
  \A o \in output :
    LET w == o.image.writes
    IN  /\ \A k \in DOMAIN w : w[k].reads = w[k].str - (WriteLen - LeaEnd)
        /\ \A j, k \in DOMAIN w : j < k => w[j].str + Bytes(w[j].line) < w[k].str
        /\ \A k \in DOMAIN w : TextOffset + w[k].str + Bytes(w[k].line) < o.image.size

\* When gcc returns 0 there is a program, which is the source's unless one was
\* there already; when it fails, what was there is still there.
GccHonest ==
  [][result'.cmd = "gcc" =>
       IF result'.ret = 0
       THEN output' # {} /\ (output' = output \/ \A o \in output' : o.from = source)
       ELSE output' = output]_compilerVars

\* What gcc and make leave behind is the program of the source, and what they
\* return says whether it is there (compile_file, cmd_gcc, emit_elf64_binary).
CompilerHonest == [](PrintsTheSource /\ StringsPlaced) /\ GccHonest

=============================================================================
