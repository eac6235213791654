------------------------------ MODULE Loading ------------------------------
(***************************************************************************)
(* Loading and running programs (kernel/loader/elf.cpp, pe.cpp, loader.cpp, *)
(* stack.cpp, exec_stub.S, and the imports of win32/win32.cpp).            *)
(*                                                                         *)
(* All programs share one memory, whose pages are mapped where they are.    *)
(* A running program may start another with execve or CreateProcessA; that *)
(* one is loaded and run to its end inside the call.  A cell of `memory`    *)
(* says where what it holds comes from.  Programs do not write, so what is *)
(* left in memory are earlier images.                                      *)
(***************************************************************************)
EXTENDS Integers, Sequences, FiniteSets, FiniteSetsExt, SequencesExt

CONSTANTS
  Images,               \* the files that are run
  Addr,                 \* addresses of memory
  UserStack,            \* 0x510000..0x51ffff: where an ELF program has its stack
  MAX_BINARY_SEGMENTS,
  HeaderSize,           \* 64: of an ELF file
  Exports,              \* for every DLL, the names it has
  MaxDepth,             \* bound on programs started by programs
  StackTop, Word,       \* of the strings and vectors of a stack; 8
  Env,                  \* lengths of the strings of default_envp
  ArgLists              \* lengths of the strings of argv

\* A program header of an ELF file or a section of a PE file.
Header == [type : STRING, vaddr : Nat, offset : Nat, filesz : Nat, memsz : Nat]

ASSUME LoadingAssumption ==
  /\ MAX_BINARY_SEGMENTS \in Nat /\ StackTop \in Nat /\ Word \in Nat \ {0}
  /\ Env \in Seq(Nat) /\ ArgLists \subseteq Seq(Nat)
  /\ \A image \in Images : image.headers \in Seq(Header) /\ image.phoff \in Nat

VARIABLES
  memory,
  frames,             \* the running programs, each inside a call of the one before
  buffers,            \* files' copies on the heap
  user_stack,         \* depth of the program that was given the user stack last
  execution_stack,    \* the same for execution_stack
  saved_kernel_rsp,   \* g_win32_saved_kernel_rsp, as the depth of its frame
  lost,               \* a program has gone on in a frame that is not there any more
  argv

loadingVars == <<memory, frames, buffers, user_stack, execution_stack, saved_kernel_rsp, lost,
                 argv>>

None == "none"
FileByte(image, offset) == <<"file", image.name, offset>>
Zero == <<"zero">>
Bound(i) == <<"import", i.dll, i.func>>
StackByte == <<"stack">>

----------------------------------------------------------------------------
(* Parsing.                                                                *)


\* Faulty variant: no segment is checked against the size of the file.
InFile_never(image, s) == TRUE

InFile(image, s) == s.offset + s.filesz <= image.size

WithSegment(segments, h) ==
  IF h.type = "LOAD" /\ Len(segments) < MAX_BINARY_SEGMENTS THEN Append(segments, h) ELSE segments

\* Segments after the last there is room for are left out.
Segments(image) ==
  LET segments[k \in 0..Len(image.headers)] ==
        IF k = 0 THEN <<>> ELSE WithSegment(segments[k - 1], image.headers[k])
  IN  segments[Len(image.headers)]

elf_parse(image) == image.table_fits /\ \A s \in Range(Segments(image)) : InFile(image, s)

\* What sections hold is checked when they are loaded.
pe_parse(image) == image.table_fits

loader_inspect(image) ==
  CASE image.format = "ELF" -> elf_parse(image)
    [] image.format = "PE" -> pe_parse(image)
    [] OTHER -> FALSE

ImageBase(image) == Min({s.vaddr : s \in Range(Segments(image))})

\* Headers after a segment there is no room for are not read.
HeadersRead(image) ==
  {k \in DOMAIN image.headers :
     Cardinality({j \in 1..k : image.headers[j].type = "LOAD"}) <= MAX_BINARY_SEGMENTS}

FromStart(image, s) == s.vaddr + image.phoff

\* Segments that begin with the file.
AtStart(image) == {k \in DOMAIN Segments(image) : Segments(image)[k].offset = 0}

\* AT_PHDR: where the program finds its own headers.
PhdrAddress(image) ==
  LET given == {k \in HeadersRead(image) : image.headers[k].type = "PHDR"}
      stated == IF given = {} THEN 0 ELSE image.headers[Max(given)].vaddr
      found == IF stated # 0 THEN stated
               ELSE IF AtStart(image) = {} THEN 0
               ELSE FromStart(image, Segments(image)[Min(AtStart(image))])
  IN  IF found # 0 THEN found ELSE ImageBase(image) + HeaderSize

----------------------------------------------------------------------------
(* Loading.                                                                *)

\* The file's part, also if it is longer than the segment, then zeros.
Cell(image, s, a, old) ==
  IF a - s.vaddr < s.filesz THEN FileByte(image, s.offset + a - s.vaddr) ELSE Zero

Extent(s) == s.vaddr..(s.vaddr + (IF s.memsz > s.filesz THEN s.memsz ELSE s.filesz) - 1)

Placed(m, image, s) ==
  [a \in Addr |-> IF a \in Extent(s) THEN Cell(image, s, a, m[a]) ELSE m[a]]

\* The segments before the first that is not in the file.
Good(image) ==
  LET all == Segments(image)
      bad == {k \in DOMAIN all : ~(all[k].offset + all[k].filesz <= image.size)}
  IN  IF bad = {} THEN all ELSE SubSeq(all, 1, Min(bad) - 1)

\* Imports by ordinal have no name, and are never found.
win32_resolve_symbol(i) ==
  i.func # None /\ i.dll \in DOMAIN Exports /\ i.func \in Exports[i.dll]

\* Slots whose symbol is not found keep what the file has there.
BoundAt(image, a) == {i \in image.imports : i.slot = a /\ win32_resolve_symbol(i)}

pe_resolve_imports(m, image) ==
  [a \in Addr |-> IF BoundAt(image, a) = {} THEN m[a]
                  ELSE Bound(CHOOSE i \in BoundAt(image, a) : TRUE)]

PlacedAll(m, image) ==
  LET mm[k \in 0..Len(Good(image))] ==
        IF k = 0 THEN m ELSE Placed(mm[k - 1], image, Good(image)[k])
  IN  mm[Len(Good(image))]

loader_load(image) == Len(Good(image)) = Len(Segments(image))

\* What the load of a file leaves in memory, and the places it has written to.
Loaded(m, image) ==
  IF loader_load(image) /\ image.format = "PE" THEN pe_resolve_imports(PlacedAll(m, image), image)
  ELSE PlacedAll(m, image)

Covered(image) == UNION {Extent(s) : s \in Range(Good(image))}

Written(image) ==
  Covered(image) \cup
    {a \in Addr : loader_load(image) /\ image.format = "PE" /\ BoundAt(image, a) # {}}

----------------------------------------------------------------------------
(* Running.                                                                *)

\* What happens to the programs that wait for the new one.
Disturbed(image, cells) ==
  [k \in DOMAIN frames |-> [frames[k] EXCEPT !.overlaid = @ \cup cells, !.ran = @ \cup {image.format}]]

\* Faulty variant: the place ExitProcess leads to is kept from the first time.
SavedAt_first(depth) == IF saved_kernel_rsp = 0 THEN depth ELSE saved_kernel_rsp

SavedAt(depth) == depth

Started(image) ==
  LET stack == IF image.format = "ELF" THEN UserStack ELSE {}
      whole == Loaded(memory, image)
      depth == Len(frames) + 1
  IN  /\ memory' = [a \in Addr |-> IF a \in stack THEN StackByte ELSE whole[a]]
      /\ frames' = Append(Disturbed(image, Written(image) \cup stack),
                          [image |-> image, overlaid |-> stack, ran |-> {}])
      /\ buffers' = buffers + 1
      /\ IF image.format = "ELF"
         THEN user_stack' = depth /\ UNCHANGED <<execution_stack, saved_kernel_rsp>>
         ELSE execution_stack' = depth /\ saved_kernel_rsp' = SavedAt(depth) /\ UNCHANGED user_stack

\* A PE file that ends too early has its first sections loaded all the same, and
\* a file without an entry point all of them.
Refused(image) ==
  LET tried == loader_inspect(image)
  IN  /\ memory' = IF tried THEN Loaded(memory, image) ELSE memory
      /\ frames' = IF tried
                   THEN [k \in DOMAIN frames |-> [frames[k] EXCEPT !.overlaid = @ \cup Written(image)]]
                   ELSE frames
      /\ buffers' = buffers
      /\ UNCHANGED <<user_stack, execution_stack, saved_kernel_rsp>>

loader_execute_path(image) ==
  /\ ~lost /\ Len(frames) < MaxDepth
  /\ IF loader_inspect(image) /\ loader_load(image) /\ image.entry # 0
     THEN Started(image) ELSE Refused(image)
  /\ UNCHANGED <<lost, argv>>

Ends ==
  /\ frames' = Front(frames) /\ buffers' = buffers - 1
  /\ UNCHANGED <<memory, user_stack, execution_stack, saved_kernel_rsp, lost, argv>>

\* Control goes back through the registers kept in the program's frame.
program_returns == ~lost /\ frames # <<>> /\ Ends

ExitProcess ==
  /\ ~lost /\ frames # <<>> /\ Last(frames).image.format = "PE"
  /\ IF saved_kernel_rsp = Len(frames) THEN Ends
     ELSE lost' = TRUE /\ UNCHANGED <<memory, frames, buffers, user_stack, execution_stack,
                                      saved_kernel_rsp, argv>>

----------------------------------------------------------------------------
(* The stack of an ELF program.                                            *)

StringRoom(length) == length + 1

\* Where sp is after each of the strings, the last of which is copied first.
Pushed(lengths, from) ==
  LET sp[n \in 0..Len(lengths)] ==
        IF n = 0 THEN from ELSE sp[n - 1] - StringRoom(lengths[Len(lengths) + 1 - n])
  IN  sp

Pointers(lengths, from) ==
  [k \in DOMAIN lengths |-> Pushed(lengths, from)[Len(lengths) + 1 - k]]

SpAfter(lengths, from) == Pushed(lengths, from)[Len(lengths)]

AuxCount == 15
RoundDown(n, unit) == (n \div unit) * unit

\* The pointers to the strings, and the stack pointer, which points to argc.
setup_system_v_stack(args) ==
  LET random == StackTop - 2 * Word
      envp == Pointers(Env, random)
      argp == Pointers(args, SpAfter(Env, random))
      sp == RoundDown(SpAfter(args, SpAfter(Env, random)), Word)
      words == 1 + (Len(args) + 1) + (Len(Env) + 1) + 2 * AuxCount
  IN  [envp |-> envp, argp |-> argp, random |-> random, words |-> words,
       sp |-> RoundDown(sp - words * Word, 2 * Word)]

----------------------------------------------------------------------------
LoadingInit ==
  /\ memory = [a \in Addr |-> Zero]
  /\ frames = <<>> /\ buffers = 0
  /\ user_stack = 0 /\ execution_stack = 0 /\ saved_kernel_rsp = 0
  /\ lost = FALSE
  /\ argv \in ArgLists

LoadingNext ==
  \/ \E i \in Images : loader_execute_path(i)
  \/ program_returns
  \/ ExitProcess

LoadingSpec == LoadingInit /\ [][LoadingNext]_loadingVars

----------------------------------------------------------------------------
(* Properties.                                                             *)

\* The segments over an address.
Over(image, a) == {k \in DOMAIN Segments(image) : a \in Extent(Segments(image)[k])}

\* What the cell should hold: the last segment over it decides.
Wanted(image, a) ==
  LET s == Segments(image)[Max(Over(image, a))]
  IN  IF image.format = "PE" /\ BoundAt(image, a) # {}
      THEN Bound(CHOOSE i \in BoundAt(image, a) : TRUE)
      ELSE IF a < s.vaddr + s.filesz THEN FileByte(image, s.offset + a - s.vaddr) ELSE Zero

\* The program that runs has its image in memory as its file says, zeros and
\* imports included, whatever was in memory before; except where its own stack
\* lies over it, or a program or a failed load has since come over it.
ImageIntact ==
  frames # <<>> =>
    LET f == Last(frames)
    IN  \A a \in (Covered(f.image) \cap Addr) \ f.overlaid : memory[a] = Wanted(f.image, a)

\* Linked so that the first segment of the file has the program headers in it,
\* no other lies over them, and a PHDR header names their place.
HeadersPlaced(image) ==
  \E k \in DOMAIN Segments(image) :
    LET s == Segments(image)[k]
        a == s.vaddr + image.phoff
    IN  /\ AtStart(image) # {} /\ k = Min(AtStart(image))
        /\ 0 < image.phoff /\ image.phoff < s.filesz /\ a \in Addr
        /\ Over(image, a) = {k}
        /\ \A h \in Range(image.headers) : h.type = "PHDR" => h.vaddr = a

\* An ELF program finds its program headers at AT_PHDR if they were linked there.
HeadersFound ==
  frames # <<>> =>
    LET f == Last(frames)
        a == PhdrAddress(f.image)
    IN  f.image.format = "ELF" /\ HeadersPlaced(f.image) /\ a \notin f.overlaid =>
          memory[a] = FileByte(f.image, f.image.phoff)

\* An ELF file that is refused leaves memory as it was, and the program that
\* asked for it goes on unharmed, unless all it lacks is an entry point.
RefusedUnharmed ==
  [][Len(frames') = Len(frames) /\ memory' # memory =>
       \E i \in Images : (i.format = "PE" \/ i.entry = 0) /\ loader_execute_path(i)]_loadingVars

\* The program that runs has the stack it was given, and ExitProcess leads back
\* to its caller, unless it has run a program of the same kind: there is one
\* stack and one place for ExitProcess.
ResumesWhole ==
  ~lost /\ frames # <<>> /\ Last(frames).image.format \notin Last(frames).ran =>
    IF Last(frames).image.format = "ELF" THEN user_stack = Len(frames)
    ELSE execution_stack = Len(frames) /\ saved_kernel_rsp = Len(frames)

\* Every program has the copy of its file until it ends, and a load that fails
\* leaves none.
BuffersHeld == buffers = Len(frames)

\* The stack pointer is aligned, and strings and vectors lie apart, the strings
\* with their zeros.
StackWellFormed ==
  LET s == setup_system_v_stack(argv)
      areas == {[at |-> s.envp[k], len |-> Env[k] + 1] : k \in DOMAIN Env}
                 \cup {[at |-> s.argp[k], len |-> argv[k] + 1] : k \in DOMAIN argv}
                 \cup {[at |-> s.random, len |-> 2 * Word], [at |-> s.sp, len |-> s.words * Word]}
  IN  /\ s.sp % (2 * Word) = 0
      /\ \A x, y \in areas : x # y => x.at + x.len <= y.at \/ y.at + y.len <= x.at
      /\ \A x \in areas : x.at + x.len <= StackTop
      /\ Cardinality(areas) = Len(Env) + Len(argv) + 2

\* The program that runs has its image, headers and stack, its caller has the
\* place to go on at, and the copies of files are those of running programs
\* (loader.cpp, stack.cpp, exec_stub.S).
ProgramsWhole ==
  ImageIntact /\ HeadersFound /\ ResumesWhole /\ BuffersHeld /\ StackWellFormed

=============================================================================
