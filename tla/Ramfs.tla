------------------------------- MODULE Ramfs -------------------------------
(***************************************************************************)
(* Files and directories in memory: kernel/fs/ramfs.cpp, and the calls of  *)
(* kernel/fs/vfs.cpp on paths and on descriptors of files.                 *)
(*                                                                         *)
(* Every call is a system call, made with interrupts masked, and one step. *)
(* A path is one or two names from the root: resolution of normalised      *)
(* paths is a walk of lookups and nothing more.  The order of a directory's*)
(* children, which only listings show, is left out.  Pipes and duplicates  *)
(* of descriptors are in FdTable.                                          *)
(*                                                                         *)
(* The kernel heap never hands out memory twice (kmalloc only advances     *)
(* dynamic_offset): a new object has memory of its own, filled with zeroes, *)
(* and an object that was freed keeps its contents.                        *)
(***************************************************************************)
EXTENDS Integers, Sequences, FiniteSets

CONSTANTS
  Name,                \* names in a directory
  Paths,               \* the paths callers use
  MaxNodes,            \* vnodes the heap has room for
  RAMFS_MAX_CHILDREN,  \* entries a directory has room for
  MIN_CAPACITY,        \* 64: bytes of the smallest file buffer
  MAX_OPEN_FILES,      \* descriptors, the console streams not counted
  Byte,                \* byte values, 0 among them
  Payloads,            \* the byte sequences callers write
  OpenFlags,           \* the flag sets callers pass to open
  Deltas,              \* the offsets callers pass to lseek
  MaxRead,             \* the largest count callers pass to read
  MaxSize              \* bound on offsets and file sizes

Flag == {"O_CREAT", "O_TRUNC", "O_APPEND"}
Node == 0..(MaxNodes - 1)
Root == 0
NoNode == -1
Fd == 0..(MAX_OPEN_FILES - 1)

ASSUME SizesAssumption ==
  /\ MaxNodes \in Nat \ {0} /\ MAX_OPEN_FILES \in Nat /\ RAMFS_MAX_CHILDREN \in Nat
  /\ MIN_CAPACITY \in Nat \ {0} /\ MaxRead \in Nat /\ MaxSize \in Nat
\* rename copies 512 bytes at a time: the files modelled fit in one go.
ASSUME InputsAssumption ==
  /\ Name # {} /\ 0 \in Byte /\ Payloads \subseteq Seq(Byte)
  /\ Paths \subseteq Seq(Name) /\ \A p \in Paths : Len(p) \in {1, 2}
  /\ OpenFlags \subseteq SUBSET Flag /\ Deltas \subseteq Int
  /\ MaxSize <= 512

VARIABLES
  vnode,       \* vnode -> what its VNode, RamfsFile or RamfsDir hold
  g_fd_table,  \* descriptor -> vnode and offset
  got          \* the bytes the call just made has read

vars == <<vnode, g_fd_table, got>>

\* "UNKNOWN": memory not allocated yet.  size is VNode's, file_size RamfsFile's;
\* the length of data is the buffer's capacity.
VNodeType == {"UNKNOWN", "FILE", "DIRECTORY"}
VNode == [name : Name, type : VNodeType, size : Nat, file_size : Nat,
          data : Seq(Byte), children : SUBSET Node, freed : BOOLEAN]
FileDescriptor == [is_open : BOOLEAN, node : Node, offset : Nat]

ClosedFd == [is_open |-> FALSE, node |-> Root, offset |-> 0]

-----------------------------------------------------------------------------
(* Names.  v is the state of all vnodes.                                   *)

Named(v, d, name) == {c \in v[d].children : v[c].name = name}

ramfs_dir_lookup(v, d, name) ==
  IF v[d].type = "DIRECTORY" /\ Named(v, d, name) # {}
  THEN CHOOSE c \in Named(v, d, name) : TRUE
  ELSE NoNode

Walk(v, d, name) == IF d = NoNode THEN NoNode ELSE ramfs_dir_lookup(v, d, name)

\* split_parent_and_name and vfs_resolve_path.
Parent(v, path) == IF Len(path) = 1 THEN Root ELSE Walk(v, Root, path[1])
Base(path) == path[Len(path)]
Resolve(v, path) == Walk(v, Parent(v, path), Base(path))

Lowest(S) == CHOOSE n \in S : \A m \in S : n <= m
Unallocated(v) == {n \in Node : v[n].type = "UNKNOWN"}

\* Faulty variant: freed memory is used again.
FreshReuse(v) ==
  CHOOSE n \in Node : v[n].type = "UNKNOWN" \/ v[n].freed

Fresh(v) == Lowest(Unallocated(v))

\* Faulty variant: an existing entry is not looked for.
CreatableUnchecked(v, path) ==
  LET d == Parent(v, path)
  IN  /\ d # NoNode /\ v[d].type = "DIRECTORY"
      /\ Cardinality(v[d].children) < RAMFS_MAX_CHILDREN
      /\ Unallocated(v) # {}

\* What vfs_open or vfs_mkdir and then ramfs_dir_create test, memory included.
Creatable(v, path) ==
  LET d == Parent(v, path)
  IN  /\ d # NoNode /\ v[d].type = "DIRECTORY"
      /\ Cardinality(v[d].children) < RAMFS_MAX_CHILDREN
      /\ ramfs_dir_lookup(v, d, Base(path)) = NoNode
      /\ Unallocated(v) # {}

Created(v, path, type) ==
  LET d == Parent(v, path)
      n == Fresh(v)
  IN  [m \in Node |->
        IF m = n THEN [name |-> Base(path), type |-> type, size |-> 0, file_size |-> 0,
                       data |-> <<>>, children |-> {}, freed |-> FALSE]
        ELSE IF m = d THEN [v[m] EXCEPT !.children = @ \cup {n}]
        ELSE v[m]]

\* Faulty variant: the bytes go with the name, whoever has the file open.
RemovedErased(v, path) ==
  LET d == Parent(v, path)
      c == Resolve(v, path)
  IN  IF c = NoNode THEN v
      ELSE [m \in Node |->
             IF m = c THEN [v[m] EXCEPT !.freed = TRUE, !.file_size = 0, !.size = 0]
             ELSE IF m = d THEN [v[m] EXCEPT !.children = @ \ {c}]
             ELSE v[m]]

\* ramfs_dir_remove.
Removed(v, path) ==
  LET d == Parent(v, path)
      c == Resolve(v, path)
  IN  IF c = NoNode THEN v
      ELSE [m \in Node |->
             IF m = c THEN [v[m] EXCEPT !.freed = TRUE]
             ELSE IF m = d THEN [v[m] EXCEPT !.children = @ \ {c}]
             ELSE v[m]]

-----------------------------------------------------------------------------
(* Contents.                                                               *)

Contents(f) == SubSeq(f.data, 1, f.file_size)

\* The buffer ramfs_file_write copies a file to when it outgrows its own.
\* Faulty variant: the old bytes stay behind.
GrownEmpty(f, required) ==
  [i \in 1..(IF required < MIN_CAPACITY THEN MIN_CAPACITY ELSE 2 * required) |-> 0]

Grown(f, required) ==
  [i \in 1..(IF required < MIN_CAPACITY THEN MIN_CAPACITY ELSE 2 * required) |->
     IF i <= f.file_size THEN f.data[i] ELSE 0]

Buffer(f, required) == IF required > Len(f.data) THEN Grown(f, required) ELSE f.data

Larger(a, b) == IF a > b THEN a ELSE b

\* Faulty variant: the size in the vnode is not kept.
WrittenUnsized(f, offset, bs) ==
  LET required == offset + Len(bs)
      buffer == Buffer(f, required)
  IN  [f EXCEPT
        !.data = [i \in 1..Len(buffer) |-> IF i > offset /\ i <= required THEN bs[i - offset]
                                           ELSE buffer[i]],
        !.file_size = Larger(@, required)]

\* ramfs_file_write when it succeeds, and when it is asked to truncate.
Written(f, offset, bs) ==
  LET required == offset + Len(bs)
      buffer == Buffer(f, required)
  IN  [f EXCEPT
        !.data = [i \in 1..Len(buffer) |-> IF i > offset /\ i <= required THEN bs[i - offset]
                                           ELSE buffer[i]],
        !.file_size = Larger(@, required),
        !.size = IF required > f.file_size THEN required ELSE @]

Truncated(f) ==
  IF f.type = "FILE" THEN [f EXCEPT !.file_size = 0, !.size = 0] ELSE f

\* Room in the buffer, or in the heap for a larger one.
Writable(f, required, heap) == f.type = "FILE" /\ (required <= Len(f.data) \/ heap)

-----------------------------------------------------------------------------
(* Calls.  heap: whether kmalloc finds room for what the call needs.       *)

NoData == got' = <<>>
FreeFds == {d \in Fd : ~g_fd_table[d].is_open}
LowestFree == Lowest(FreeFds)

\* The vnode vfs_open finds, or makes with O_CREAT.
Found(path, creat, heap) ==
  IF Resolve(vnode, path) = NoNode /\ creat /\ heap /\ Creatable(vnode, path)
  THEN [v |-> Created(vnode, path, "FILE"), node |-> Fresh(vnode)]
  ELSE [v |-> vnode, node |-> Resolve(vnode, path)]

\* Without a free descriptor the file was made all the same.
vfs_open(path, flags, heap) ==
  LET found == Found(path, "O_CREAT" \in flags, heap)
      n == found.node
  IN  /\ \/ /\ n = NoNode \/ FreeFds = {}
            /\ vnode' = found.v
            /\ UNCHANGED g_fd_table
         \/ /\ n # NoNode /\ FreeFds # {}
            /\ g_fd_table' = [g_fd_table EXCEPT ![LowestFree] =
                 [is_open |-> TRUE, node |-> n,
                  offset |-> IF "O_APPEND" \in flags THEN found.v[n].size ELSE 0]]
            /\ vnode' = IF "O_TRUNC" \in flags THEN [found.v EXCEPT ![n] = Truncated(@)] ELSE found.v
      /\ NoData

\* vfs_open and vfs_close at once.
vfs_touch(path, heap) ==
  /\ vnode' = Found(path, TRUE, heap).v
  /\ NoData /\ UNCHANGED g_fd_table

vfs_close(d) ==
  /\ g_fd_table[d].is_open
  /\ g_fd_table' = [g_fd_table EXCEPT ![d] = ClosedFd]
  /\ NoData /\ UNCHANGED vnode

vfs_read(d, k) ==
  LET f == vnode[g_fd_table[d].node]
      o == g_fd_table[d].offset
      n == IF o >= f.file_size THEN 0 ELSE IF k < f.file_size - o THEN k ELSE f.file_size - o
  IN  /\ g_fd_table[d].is_open
      /\ \/ /\ f.type = "FILE"
            /\ got' = SubSeq(f.data, o + 1, o + n)
            /\ g_fd_table' = [g_fd_table EXCEPT ![d].offset = o + n]
         \/ /\ f.type # "FILE"
            /\ NoData /\ UNCHANGED g_fd_table
      /\ UNCHANGED vnode

vfs_write(d, bs, heap) ==
  LET n == g_fd_table[d].node
      o == g_fd_table[d].offset
  IN  /\ g_fd_table[d].is_open /\ o + Len(bs) <= MaxSize
      /\ \/ /\ Writable(vnode[n], o + Len(bs), heap)
            /\ vnode' = [vnode EXCEPT ![n] = Written(@, o, bs)]
            /\ g_fd_table' = [g_fd_table EXCEPT ![d].offset = o + Len(bs)]
         \/ /\ ~Writable(vnode[n], o + Len(bs), heap)
            /\ UNCHANGED <<vnode, g_fd_table>>
      /\ NoData

SeekBase(d, whence) ==
  CASE whence = "SEEK_SET" -> 0
    [] whence = "SEEK_CUR" -> g_fd_table[d].offset
    [] OTHER               -> vnode[g_fd_table[d].node].size

\* Faulty variant: a negative result is not refused.
vfs_lseek_signed(d, delta, whence) ==
  /\ g_fd_table[d].is_open
  /\ g_fd_table' = [g_fd_table EXCEPT ![d].offset = SeekBase(d, whence) + delta]
  /\ NoData /\ UNCHANGED vnode

vfs_lseek(d, delta, whence) ==
  /\ g_fd_table[d].is_open
  /\ SeekBase(d, whence) + delta \in 0..MaxSize
  /\ g_fd_table' = [g_fd_table EXCEPT ![d].offset = SeekBase(d, whence) + delta]
  /\ NoData /\ UNCHANGED vnode

vfs_mkdir(path) ==
  /\ Creatable(vnode, path)
  /\ vnode' = Created(vnode, path, "DIRECTORY")
  /\ NoData /\ UNCHANGED g_fd_table

\* A directory goes with everything below it.
vfs_remove(path) ==
  /\ Resolve(vnode, path) # NoNode
  /\ vnode' = Removed(vnode, path)
  /\ NoData /\ UNCHANGED g_fd_table

\* Copy, then remove.  The copy needs two descriptors for a moment; whether its
\* write succeeds (room) makes no difference to what follows.
vfs_rename(old, new, heap, room) ==
  LET n == Resolve(vnode, old)
      found == Found(new, TRUE, heap)
      m == found.node
      opened == [found.v EXCEPT ![m] = Truncated(@)]
      bytes == Contents(opened[n])
      copied == IF bytes # <<>> /\ Writable(opened[m], Len(bytes), room)
                THEN [opened EXCEPT ![m] = Written(@, 0, bytes)] ELSE opened
  IN  /\ n # NoNode /\ vnode[n].type = "FILE" /\ FreeFds # {}
      /\ \/ /\ m = NoNode \/ Cardinality(FreeFds) = 1
            /\ vnode' = found.v
         \/ /\ m # NoNode /\ Cardinality(FreeFds) > 1
            /\ vnode' = Removed(copied, old)
      /\ NoData /\ UNCHANGED g_fd_table

-----------------------------------------------------------------------------
Blank == [name |-> CHOOSE x \in Name : TRUE, type |-> "UNKNOWN", size |-> 0, file_size |-> 0,
          data |-> <<>>, children |-> {}, freed |-> FALSE]

\* ramfs_init, once the files and directories it makes have been removed.
Init ==
  /\ vnode = [n \in Node |-> IF n = Root THEN [Blank EXCEPT !.type = "DIRECTORY"] ELSE Blank]
  /\ g_fd_table = [d \in Fd |-> ClosedFd]
  /\ got = <<>>

Next ==
  \/ \E p \in Paths, flags \in OpenFlags, heap \in BOOLEAN : vfs_open(p, flags, heap)
  \/ \E p \in Paths, heap \in BOOLEAN : vfs_touch(p, heap)
  \/ \E d \in Fd : vfs_close(d)
  \/ \E d \in Fd, k \in 0..MaxRead : vfs_read(d, k)
  \/ \E d \in Fd, bs \in Payloads, heap \in BOOLEAN : vfs_write(d, bs, heap)
  \/ \E d \in Fd, delta \in Deltas, whence \in {"SEEK_SET", "SEEK_CUR", "SEEK_END"} :
       vfs_lseek(d, delta, whence)
  \/ \E p \in Paths : vfs_mkdir(p)
  \/ \E p \in Paths : vfs_remove(p)
  \/ \E p, q \in Paths, heap, room \in BOOLEAN : vfs_rename(p, q, heap, room)

Spec == Init /\ [][Next]_vars

-----------------------------------------------------------------------------
(* Properties.                                                             *)

\* Every field stays in its range; offsets in particular never go below 0.
TypeOK ==
  /\ vnode \in [Node -> VNode]
  /\ g_fd_table \in [Fd -> FileDescriptor]
  /\ got \in Seq(Byte)

\* A file has two size fields, kept in different places (ramfs.cpp 43-44,
\* 67-68, vfs.cpp 399): seeks and append use one, reads and writes the other.
\* They are equal, and neither passes the end of the buffer.
SizesAgree ==
  \A n \in Node : vnode[n].type = "FILE" =>
    vnode[n].size = vnode[n].file_size /\ vnode[n].file_size <= Len(vnode[n].data)

\* Directories are a forest without dead leaves: no name occurs twice in one,
\* no entry was freed, and no vnode is in two of them, whatever sequence of
\* create, rename and remove led here.
TreeSound ==
  \A d, e \in Node : \A a \in vnode[d].children, b \in vnode[e].children :
    /\ vnode[a].type # "UNKNOWN" /\ ~vnode[a].freed
    /\ a = b => d = e
    /\ d = e /\ a # b => vnode[a].name # vnode[b].name

StaysStep ==
  \A d \in Fd : g_fd_table[d].is_open /\ g_fd_table'[d].is_open =>
    LET n == g_fd_table[d].node
    IN  /\ g_fd_table'[d].node = n
        /\ vnode'[n].name = vnode[n].name /\ vnode'[n].type = vnode[n].type
        /\ vnode[n].freed => vnode'[n].freed

\* vfs_remove frees the vnode below open descriptors.  What such a descriptor
\* reads and writes is never taken over by another file.
OpenNodesStay == [][StaysStep]_vars

FS == INSTANCE FileSpec WITH
        file <- [n \in Node |-> Contents(vnode[n])],
        place <- g_fd_table

\* Buffers, capacities and directories implement files: a read returns what was
\* last written there, whichever descriptor wrote it and however often the
\* buffer moved, and a write, a rename or a failure touches no other file.
ImplementsFiles == FS!Spec

=============================================================================
