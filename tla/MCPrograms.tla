----------------------------- MODULE MCPrograms -----------------------------
(***************************************************************************)
(* Instances of Volumes, Memory, Loading, Calls and Compiler for TLC.  The  *)
(* modules share nothing, so each behaviour is one of one part.            *)
(***************************************************************************)
EXTENDS Volumes, Memory, Loading, Compiler, Calls

----------------------------------------------------------------------------
(* Volumes: paths that begin alike, disks with and without a GPT, with more *)
(* partitions than digits and more volumes than instances.                 *)

MCCharacters == {"none", "C", "D", "E", "F", "/", "backslash", "0", "1", "a", "b", ".", " "}
MCDriveLetters == <<"D", "E", "F">>
MCPath(d, t) == [drive |-> d, text |-> t]
MCMountPaths ==
  {MCPath("none", <<"/">>), MCPath("none", <<"/", "0">>), MCPath("none", <<"/", "0", "/", "1">>),
   MCPath("none", <<"backslash", "0", "1", "/", "/">>), MCPath("none", <<"0">>), MCPath("D", <<>>)}

MCPart(f) == [usable |-> TRUE, fs |-> f]
MCGpt ==
  {<<>>,
   <<[usable |-> FALSE, fs |-> "FAT32"], MCPart("FAT32"), MCPart("FAT32"), MCPart("FAT32")>>,
   <<MCPart("FAT32"), MCPart("EXT2"), MCPart("FAT32"), MCPart("FAT32"), MCPart("FAT32")>>}
MCDiskOf(s, h, g, m, r) == [signature |-> s, gpt_header |-> h, gpt |-> g, mbr |-> m, raw |-> r]
MCDisk ==
  {MCDiskOf(TRUE, TRUE, g, <<MCPart("EXT2")>>, "UNKNOWN") : g \in MCGpt}
    \cup {MCDiskOf(TRUE, FALSE, <<MCPart("EXT2")>>, <<MCPart("FAT32")>>, "UNKNOWN"),
          MCDiskOf(TRUE, FALSE, <<>>, <<>>, "FAT32"), MCDiskOf(FALSE, FALSE, <<>>, <<>>, "FAT32")}

MCFileNames == UNION {[1..n -> {"a", "b", "."}] : n \in 1..4} \cup {<<"a", " ">>, <<"a", " ", "b">>}

----------------------------------------------------------------------------
(* Loading: ELF files with zeros to fill in, with headers away from the     *)
(* start, cut short, with too many segments, without an entry or a table;   *)
(* PE files with imports and cut short; a file of neither format.          *)

MCSeg(t, v, o, f, m) == [type |-> t, vaddr |-> v, offset |-> o, filesz |-> f, memsz |-> m]
MCImage(n, fmt, size, hs) ==
  [name |-> n, format |-> fmt, size |-> size, headers |-> hs, table_fits |-> TRUE, phoff |-> 1,
   entry |-> 2, imports |-> {}]
MCImport(slot, dll, func) == [slot |-> slot, dll |-> dll, func |-> func]
MCImages ==
  {MCImage("hello", "ELF", 4, <<MCSeg("PHDR", 3, 1, 1, 1), MCSeg("LOAD", 2, 0, 3, 3),
                                MCSeg("LOAD", 6, 3, 1, 3)>>),
   MCImage("moved", "ELF", 3, <<MCSeg("LOAD", 1, 2, 1, 2), MCSeg("LOAD", 5, 0, 2, 4)>>),
   MCImage("short", "ELF", 3, <<MCSeg("LOAD", 2, 0, 2, 2), MCSeg("LOAD", 5, 2, 2, 2)>>),
   MCImage("many", "ELF", 3, <<MCSeg("NOTE", 1, 0, 1, 1), MCSeg("LOAD", 7, 0, 1, 4),
                               MCSeg("LOAD", 2, 1, 1, 2), MCSeg("LOAD", 4, 2, 1, 1)>>),
   [MCImage("library", "ELF", 3, <<MCSeg("LOAD", 1, 0, 3, 3)>>) EXCEPT !.entry = 0],
   [MCImage("broken", "ELF", 3, <<>>) EXCEPT !.table_fits = FALSE],
   [MCImage("window", "PE", 4, <<MCSeg("LOAD", 2, 0, 3, 2), MCSeg("LOAD", 4, 3, 1, 3)>>) EXCEPT
      !.imports = {MCImport(5, "KERNEL32", "ExitProcess"), MCImport(2, "USER32", "ExitProcess"),
                   MCImport(6, "WS2_32", "none")}],
   MCImage("cut", "PE", 3, <<MCSeg("LOAD", 1, 0, 2, 2), MCSeg("LOAD", 4, 2, 2, 2)>>),
   MCImage("text", "none", 1, <<>>)}
MCExports ==
  [d \in {"KERNEL32", "USER32", "WS2_32"} |->
     IF d = "KERNEL32" THEN {"ExitProcess", "WriteFile"} ELSE {}]
MCAddr == 1..10
MCUserStack == {9, 10}

\* The lengths of the four default environment strings; arguments around a word.
MCEnv == <<18, 19, 9, 6>>
MCArgLists == UNION {[1..n -> {0, 1, 6, 7, 8}] : n \in 1..3}

----------------------------------------------------------------------------
(* Compiler: programs of up to two statements, with and without loops, with *)
(* braces and words of the language in strings.                            *)

MCChr == Tok("chr")
MCFmt == Tok("fmt")
MCPlain(call, text) ==
  [loop |-> FALSE, from |-> 0, to |-> 0, strict |-> FALSE, braces |-> FALSE, call |-> call,
   text |-> text, endl |-> FALSE]
MCLoop(call, text, b) ==
  [MCPlain(call, text) EXCEPT !.loop = TRUE, !.from = 1, !.to = 2, !.braces = b]
MCStatements ==
  {MCPlain("printf", <<MCChr, Newline>>), MCPlain("puts", <<MCChr>>),
   MCPlain("printf", <<Tok("return")>>), MCPlain("printf", <<Tok("lbrace"), MCFmt>>),
   [MCPlain("cout", <<MCChr>>) EXCEPT !.endl = TRUE],
   MCLoop("printf", <<MCFmt, Newline>>, TRUE), MCLoop("printf", <<MCChr, MCFmt>>, FALSE),
   MCLoop("printf", <<MCChr, Newline>>, TRUE), MCLoop("cout", <<MCFmt, Tok("rbrace")>>, TRUE),
   MCLoop("printf", <<Tok("lbrace"), MCFmt>>, TRUE),
   [MCLoop("printf", <<MCFmt>>, TRUE) EXCEPT !.strict = TRUE, !.from = 0]}
MCSources == UNION {[1..n -> MCStatements] : n \in 0..2}
MCEdits == {<<>>, <<MCPlain("printf", <<MCChr, Newline>>)>>}
MCMakefiles == {<<"gcc">>, <<"rm", "gcc">>}

----------------------------------------------------------------------------
VARIABLE part

allVars == <<part, volumeVars, memoryVars, loadingVars, compilerVars, callVars>>

MCInit ==
  /\ part \in {"volumes", "names", "frames", "heap", "memory", "loading", "stack", "compiler", "calls"}
  /\ VolumesInit
  /\ part # "names" => file_name = <<"a">>
  /\ part # "volumes" => disk = CHOOSE d \in MCDisk : TRUE
  /\ MemoryInit
  /\ LoadingInit
  /\ part # "stack" => argv = <<0>>
  /\ CallsInit
  /\ CompilerInit
  /\ part # "compiler" => source = <<>>

MCNext ==
  /\ part' = part
  /\ \/ /\ part = "volumes" /\ VolumesNext
        /\ UNCHANGED <<memoryVars, loadingVars, compilerVars, callVars>>
     \/ /\ \/ part = "frames" /\ FramesNext
           \/ part = "heap" /\ HeapNext
           \/ part = "memory" /\ ProgramsNext
        /\ UNCHANGED <<volumeVars, loadingVars, compilerVars, callVars>>
     \/ /\ part = "loading" /\ LoadingNext
        /\ UNCHANGED <<volumeVars, memoryVars, compilerVars, callVars>>
     \/ /\ part = "compiler" /\ CompilerNext
        /\ UNCHANGED <<volumeVars, memoryVars, loadingVars, callVars>>
     \/ /\ part = "calls" /\ CallsNext
        /\ UNCHANGED <<volumeVars, memoryVars, loadingVars, compilerVars>>

MCSpec == MCInit /\ [][MCNext]_allVars

=============================================================================
