------------------------------ MODULE FdTable ------------------------------
(***************************************************************************)
(* The descriptor table of the virtual file system (kernel/fs/vfs.cpp) and *)
(* the pipe channels behind it (kernel/fs/pipe.cpp).                       *)
(*                                                                         *)
(* There is one table for the whole system: descriptors are not per        *)
(* process.  Every operation below is a system call, which the processor   *)
(* enters with interrupts masked (IA32_FMASK in syscall_init), so each one *)
(* is a single step.  The one loop of several closes, execve's             *)
(* close-on-exec sweep, is one step per descriptor with every other        *)
(* operation locked out.  The calls that shell commands make themselves,   *)
(* with interrupts enabled, are not modelled.                              *)
(*                                                                         *)
(* A descriptor's offset and the data of regular files play no part in     *)
(* what is modelled here: pipe reads and writes ignore the offset.         *)
(***************************************************************************)
EXTENDS Integers, Sequences, FiniteSets

CONSTANTS
  MAX_OPEN_FILES,  \* size of g_fd_table
  FirstFd,         \* 3: the descriptors below it are the console streams
  MAX_PIPES,       \* size of g_pipes
  PIPE_CAPACITY,   \* bytes a channel holds
  Files,           \* vnodes that are not pipes (files, directories)
  Byte,            \* byte values
  Payloads,        \* the byte sequences callers pass to write
  MaxRead,         \* the largest count callers pass to read
  OpenFlags,       \* the flag sets callers pass to open
  PipeFlags,       \* the flag sets callers pass to pipe2
  SetfdArgs,       \* whether callers of fcntl(F_SETFD) pass FD_CLOEXEC
  SetflArgs,       \* the flag sets callers pass to fcntl(F_SETFL)
  NoNode           \* the null vnode pointer (a console stream)

Flag == {"O_WRONLY", "O_CLOEXEC", "O_NONBLOCK", "O_APPEND"}
Settable == {"O_NONBLOCK", "O_APPEND"}

Fd == 0..(MAX_OPEN_FILES - 1)
Pipe == 0..(MAX_PIPES - 1)
Slot == 0..(PIPE_CAPACITY - 1)

\* The two vnodes embedded in a PipeChannel.
ReadVNode(p)  == <<"pipe:[r]", p>>
WriteVNode(p) == <<"pipe:[w]", p>>
PipeNode == {"pipe:[r]", "pipe:[w]"} \X Pipe
Node == Files \cup PipeNode \cup {NoNode}

ASSUME SizesAssumption ==
  /\ FirstFd \in Nat \ {0}
  /\ MAX_OPEN_FILES \in Nat /\ MAX_OPEN_FILES > FirstFd
  /\ MAX_PIPES \in Nat \ {0}
  /\ PIPE_CAPACITY \in Nat \ {0}
  /\ MaxRead \in Nat

ASSUME InputsAssumption ==
  /\ Payloads \subseteq Seq(Byte) \ {<<>>}
  /\ OpenFlags \subseteq SUBSET Flag
  /\ SetfdArgs \subseteq BOOLEAN
  /\ SetflArgs \subseteq SUBSET Flag

\* pipe2 ors its flags into both ends; its callers pass O_CLOEXEC and
\* O_NONBLOCK, never an access mode.
ASSUME PipeFlagsAssumption ==
  PipeFlags \subseteq SUBSET (Flag \ {"O_WRONLY"})

ASSUME NodesAssumption ==
  /\ Files \cap PipeNode = {}
  /\ NoNode \notin Files \cup PipeNode

VARIABLES
  g_fd_table,  \* descriptor -> [is_open, node, flags]
  g_pipes,     \* channel -> ring buffer, open flags and reference counts
  sweep,       \* 0, or the next descriptor execve's sweep looks at
  ret          \* what the call just made transferred: result and bytes read

vars == <<g_fd_table, g_pipes, sweep, ret>>

FileDescriptor == [is_open : BOOLEAN, node : Node, flags : SUBSET Flag]

PipeChannel ==
  [buffer : [Slot -> Byte], head : Slot, tail : Slot, count : 0..PIPE_CAPACITY,
   read_open : BOOLEAN, write_open : BOOLEAN,
   ref_read : Nat, ref_write : Nat, in_use : BOOLEAN]

Result(code, data) == [code |-> code, data |-> data]

ClosedFd == [is_open |-> FALSE, node |-> NoNode, flags |-> {}]
OpenFd(node, flags) == [is_open |-> TRUE, node |-> node, flags |-> flags]

-----------------------------------------------------------------------------
(* Pipe channels.                                                          *)

\* A write end is told from a read end by the descriptor's access mode.
IsWrite(f) == "O_WRONLY" \in f.flags

MinOf(a, b) == IF a < b THEN a ELSE b
Decr(n) == IF n > 0 THEN n - 1 ELSE n

\* Faulty variant: the last writer leaves and write_open stays set.
DropWriterStaysOpen(ch) == [ch EXCEPT !.ref_write = Decr(@)]

DropWriter(ch) ==
  [ch EXCEPT !.ref_write = Decr(@), !.write_open = @ /\ Decr(ch.ref_write) # 0]

DropReader(ch) ==
  [ch EXCEPT !.ref_read = Decr(@), !.read_open = @ /\ Decr(ch.ref_read) # 0]

Reclaim(ch) ==
  IF ch.ref_read = 0 /\ ch.ref_write = 0
  THEN [ch EXCEPT !.in_use = FALSE, !.count = 0, !.head = 0, !.tail = 0]
  ELSE ch

pipe_vnode_close(ch, is_write) ==
  IF ~ch.in_use THEN ch
  ELSE Reclaim(IF is_write THEN DropWriter(ch) ELSE DropReader(ch))

\* The channel as pipe_create sets it up.
FreshChannel(ch) ==
  [ch EXCEPT !.head = 0, !.tail = 0, !.count = 0, !.read_open = TRUE,
             !.write_open = TRUE, !.ref_read = 1, !.ref_write = 1, !.in_use = TRUE]

\* Moving n bytes out of, or the bytes bs into, the ring.
Taken(ch, n) == [i \in 1..n |-> ch.buffer[(ch.tail + i - 1) % PIPE_CAPACITY]]

AfterTake(ch, n) ==
  [ch EXCEPT !.tail = (@ + n) % PIPE_CAPACITY, !.count = @ - n]

\* Faulty variant: head does not wrap at the end of the ring.
AfterPutNoWrap(ch, bs, n) ==
  [ch EXCEPT
    !.buffer = [s \in Slot |->
                 LET i == (s + PIPE_CAPACITY - ch.head) % PIPE_CAPACITY
                 IN  IF i < n THEN bs[i + 1] ELSE ch.buffer[s]],
    !.head = @ + n,
    !.count = @ + n]

AfterPut(ch, bs, n) ==
  [ch EXCEPT
    !.buffer = [s \in Slot |->
                 LET i == (s + PIPE_CAPACITY - ch.head) % PIPE_CAPACITY
                 IN  IF i < n THEN bs[i + 1] ELSE ch.buffer[s]],
    !.head = (@ + n) % PIPE_CAPACITY,
    !.count = @ + n]

\* pipe_vnode_read: end of file once no writer is left, -11 while one is,
\* -1 on a channel that was given up.  (Faulty variant: no end of file.)
EmptyCodeNeverEof(ch) == IF ~ch.in_use THEN -1 ELSE -11
EmptyCode(ch) == IF ~ch.in_use THEN -1 ELSE IF ch.write_open THEN -11 ELSE 0

pipe_vnode_read(p, n) ==
  LET ch == g_pipes[p]
      k  == MinOf(n, ch.count)
  IN  \/ /\ ~ch.in_use \/ ch.count = 0
         /\ ret' = Result(EmptyCode(ch), <<>>)
         /\ UNCHANGED g_pipes
      \/ /\ ch.in_use /\ ch.count > 0
         /\ ret' = Result(k, Taken(ch, k))
         /\ g_pipes' = [g_pipes EXCEPT ![p] = AfterTake(ch, k)]

\* pipe_vnode_write: -32 once no reader is left, else as much as fits.
pipe_vnode_write(p, bs) ==
  LET ch == g_pipes[p]
      k  == MinOf(Len(bs), PIPE_CAPACITY - ch.count)
  IN  \/ /\ ~ch.in_use \/ ~ch.read_open
         /\ ret' = Result(IF ch.in_use THEN -32 ELSE -1, <<>>)
         /\ UNCHANGED g_pipes
      \/ /\ ch.in_use /\ ch.read_open
         /\ ret' = Result(k, <<>>)
         /\ g_pipes' = [g_pipes EXCEPT ![p] = AfterPut(ch, bs, k)]

-----------------------------------------------------------------------------
(* Descriptors.                                                            *)

IsOpen(d) == g_fd_table[d].is_open
FreeFrom(start) == {d \in Fd : d >= start /\ ~IsOpen(d)}
Lowest(S) == CHOOSE d \in S : \A e \in S : d <= e

\* The channel table after vfs_close of a descriptor with contents f.
ReleasePipe(pipes, f) ==
  IF f.node \in PipeNode
  THEN [pipes EXCEPT ![f.node[2]] = pipe_vnode_close(@, IsWrite(f))]
  ELSE pipes

\* Faulty variant: a duplicate takes no reference.
RetainPipeForgotten(pipes, f) == pipes

\* The channel table after a duplicate of f was stored.
RetainPipe(pipes, f) ==
  IF f.node \in PipeNode
  THEN IF IsWrite(f)
       THEN [pipes EXCEPT ![f.node[2]].ref_write = @ + 1]
       ELSE [pipes EXCEPT ![f.node[2]].ref_read = @ + 1]
  ELSE pipes

Idle == sweep = 0
NoTransfer == ret' = Result(0, <<>>)

\* vfs_open of an existing vnode (resolution and creation are the file
\* system's); a full table changes nothing.
vfs_open(f, flags) ==
  /\ Idle /\ FreeFrom(FirstFd) # {}
  /\ g_fd_table' = [g_fd_table EXCEPT ![Lowest(FreeFrom(FirstFd))] = OpenFd(f, flags)]
  /\ NoTransfer
  /\ UNCHANGED <<g_pipes, sweep>>

CloseFd(d) ==
  /\ g_fd_table' = [g_fd_table EXCEPT ![d] = ClosedFd]
  /\ g_pipes' = ReleasePipe(g_pipes, g_fd_table[d])

vfs_close(d) ==
  /\ Idle /\ IsOpen(d)
  /\ CloseFd(d)
  /\ NoTransfer
  /\ UNCHANGED sweep

\* vfs_dup2 closes the target first, then copies the descriptor onto it.
Dup2Onto(d, e) ==
  LET closed == IF IsOpen(e) THEN ReleasePipe(g_pipes, g_fd_table[e]) ELSE g_pipes
  IN  /\ g_fd_table' = [g_fd_table EXCEPT ![e] = g_fd_table[d]]
      /\ g_pipes' = RetainPipe(closed, g_fd_table[d])
      /\ NoTransfer
      /\ UNCHANGED sweep

vfs_dup2(d, e) ==
  /\ Idle /\ IsOpen(d) /\ d # e
  /\ Dup2Onto(d, e)

\* vfs_dup may land on 0, 1 or 2, which vfs_alloc_fd never hands out.
vfs_dup(d) ==
  /\ Idle /\ IsOpen(d) /\ FreeFrom(0) # {}
  /\ LET e == Lowest(FreeFrom(0))
     IN  /\ g_fd_table' = [g_fd_table EXCEPT ![e] = g_fd_table[d]]
         /\ g_pipes' = RetainPipe(g_pipes, g_fd_table[d])
  /\ NoTransfer
  /\ UNCHANGED sweep

fcntl_dupfd(d, start) ==
  /\ Idle /\ IsOpen(d) /\ FreeFrom(start) # {}
  /\ Dup2Onto(d, Lowest(FreeFrom(start)))

SetFlags(d, flags) ==
  /\ Idle /\ IsOpen(d)
  /\ g_fd_table' = [g_fd_table EXCEPT ![d].flags = flags]
  /\ NoTransfer
  /\ UNCHANGED <<g_pipes, sweep>>

fcntl_setfd(d, cloexec) ==
  SetFlags(d, IF cloexec THEN g_fd_table[d].flags \cup {"O_CLOEXEC"}
                         ELSE g_fd_table[d].flags \ {"O_CLOEXEC"})

\* Faulty variant: F_SETFL stores its argument whole.
fcntl_setfl_unmasked(d, arg) == SetFlags(d, arg)

fcntl_setfl(d, arg) ==
  SetFlags(d, (g_fd_table[d].flags \ Settable) \cup (arg \cap Settable))

\* pipe_create on the lowest unused channel.  With one free descriptor the
\* read end is opened and closed again; either failure clears in_use last.
pipe_create(flags) ==
  LET unused == {p \in Pipe : ~g_pipes[p].in_use}
      p      == Lowest(unused)
      fresh  == FreshChannel(g_pipes[p])
      free   == FreeFrom(FirstFd)
      rfd    == Lowest(free)
      wfd    == Lowest(free \ {rfd})
  IN  /\ Idle /\ unused # {}
      /\ \/ /\ free = {}
            /\ g_pipes' = [g_pipes EXCEPT ![p] = [fresh EXCEPT !.in_use = FALSE]]
            /\ UNCHANGED g_fd_table
         \/ /\ free # {} /\ free \ {rfd} = {}
            /\ g_pipes' = [g_pipes EXCEPT ![p] =
                            [pipe_vnode_close(fresh, FALSE) EXCEPT !.in_use = FALSE]]
            /\ g_fd_table' = [g_fd_table EXCEPT ![rfd] = ClosedFd]
         \/ /\ free # {} /\ free \ {rfd} # {}
            /\ g_pipes' = [g_pipes EXCEPT ![p] = fresh]
            /\ g_fd_table' = [g_fd_table EXCEPT
                               ![rfd] = OpenFd(ReadVNode(p), flags),
                               ![wfd] = OpenFd(WriteVNode(p), {"O_WRONLY"} \cup flags)]
      /\ NoTransfer
      /\ UNCHANGED sweep

\* vfs_read and vfs_write on a pipe vnode.  The read vnode has no write
\* operation and the write vnode no read operation: -1.
vfs_read(d, n) ==
  /\ Idle /\ IsOpen(d) /\ g_fd_table[d].node \in PipeNode
  /\ LET p == g_fd_table[d].node[2]
     IN  \/ /\ g_fd_table[d].node = ReadVNode(p)
            /\ pipe_vnode_read(p, n)
         \/ /\ g_fd_table[d].node = WriteVNode(p)
            /\ ret' = Result(-1, <<>>)
            /\ UNCHANGED g_pipes
  /\ UNCHANGED <<g_fd_table, sweep>>

vfs_write(d, bs) ==
  /\ Idle /\ IsOpen(d) /\ g_fd_table[d].node \in PipeNode
  /\ LET p == g_fd_table[d].node[2]
     IN  \/ /\ g_fd_table[d].node = WriteVNode(p)
            /\ pipe_vnode_write(p, bs)
         \/ /\ g_fd_table[d].node = ReadVNode(p)
            /\ ret' = Result(-1, <<>>)
            /\ UNCHANGED g_pipes
  /\ UNCHANGED <<g_fd_table, sweep>>

\* process_execve closes the descriptors marked close-on-exec, from 3 up,
\* before it runs the new image.
execve_begin ==
  /\ Idle /\ sweep' = FirstFd
  /\ NoTransfer
  /\ UNCHANGED <<g_fd_table, g_pipes>>

\* Faulty variant: the sweep starts one too far.
execve_sweep_skips ==
  /\ sweep \in FirstFd..(MAX_OPEN_FILES - 1)
  /\ IF sweep # FirstFd /\ IsOpen(sweep) /\ "O_CLOEXEC" \in g_fd_table[sweep].flags
     THEN CloseFd(sweep)
     ELSE UNCHANGED <<g_fd_table, g_pipes>>
  /\ sweep' = sweep + 1
  /\ NoTransfer

execve_sweep ==
  /\ sweep \in FirstFd..(MAX_OPEN_FILES - 1)
  /\ IF IsOpen(sweep) /\ "O_CLOEXEC" \in g_fd_table[sweep].flags
     THEN CloseFd(sweep)
     ELSE UNCHANGED <<g_fd_table, g_pipes>>
  /\ sweep' = sweep + 1
  /\ NoTransfer

execve_run ==
  /\ sweep = MAX_OPEN_FILES
  /\ sweep' = 0
  /\ NoTransfer
  /\ UNCHANGED <<g_fd_table, g_pipes>>

-----------------------------------------------------------------------------
\* vfs_init and pipe_init: the console streams, no channel in use.
Init ==
  /\ g_fd_table = [d \in Fd |->
                    IF d = 0 THEN OpenFd(NoNode, {})
                    ELSE IF d < FirstFd THEN OpenFd(NoNode, {"O_WRONLY"})
                    ELSE ClosedFd]
  /\ \E b \in Byte :
       g_pipes = [p \in Pipe |->
                   [buffer |-> [s \in Slot |-> b], head |-> 0, tail |-> 0, count |-> 0,
                    read_open |-> FALSE, write_open |-> FALSE,
                    ref_read |-> 0, ref_write |-> 0, in_use |-> FALSE]]
  /\ sweep = 0
  /\ ret = Result(0, <<>>)

Next ==
  \/ \E f \in Files, flags \in OpenFlags : vfs_open(f, flags)
  \/ \E d \in Fd : vfs_close(d)
  \/ \E d \in Fd : vfs_dup(d)
  \/ \E d, e \in Fd : vfs_dup2(d, e)
  \/ \E d, start \in Fd : fcntl_dupfd(d, start)
  \/ \E d \in Fd, on \in SetfdArgs : fcntl_setfd(d, on)
  \/ \E d \in Fd, arg \in SetflArgs : fcntl_setfl(d, arg)
  \/ \E flags \in PipeFlags : pipe_create(flags)
  \/ \E d \in Fd, n \in 1..MaxRead : vfs_read(d, n)
  \/ \E d \in Fd, bs \in Payloads : vfs_write(d, bs)
  \/ execve_begin
  \/ execve_sweep
  \/ execve_run

Spec == Init /\ [][Next]_vars

-----------------------------------------------------------------------------
(* Properties.                                                             *)

\* Every descriptor and every channel has its C++ type.
TypeOK ==
  /\ g_fd_table \in [Fd -> FileDescriptor]
  /\ g_pipes \in [Pipe -> PipeChannel]
  /\ sweep \in {0} \cup (FirstFd..MAX_OPEN_FILES)

\* The open descriptors of a table that refer to vnode v.
Holders(table, v) == {d \in Fd : table[d].is_open /\ table[d].node = v}
Readers(p) == Holders(g_fd_table, ReadVNode(p))
Writers(p) == Holders(g_fd_table, WriteVNode(p))

\* The reference counts that decide when a channel is given up (pipe.cpp
\* 66-87) are the numbers of open descriptors on each end, through every
\* close, dup, dup2 over a live descriptor, F_DUPFD, failed pipe and execve:
\* a channel is in use exactly while some descriptor refers to it.
RefCounts ==
  \A p \in Pipe :
    /\ g_pipes[p].in_use <=> Readers(p) \cup Writers(p) # {}
    /\ g_pipes[p].in_use =>
         /\ g_pipes[p].ref_read = Cardinality(Readers(p))
         /\ g_pipes[p].ref_write = Cardinality(Writers(p))

\* The flags that transfers test (read_open, write_open) say whether the other
\* end is still held by somebody.
OpenEnds ==
  \A p \in Pipe : g_pipes[p].in_use =>
    /\ g_pipes[p].read_open <=> Readers(p) # {}
    /\ g_pipes[p].write_open <=> Writers(p) # {}

\* vfs_close and vfs_dup tell a write end by O_WRONLY, not by the vnode: no
\* fcntl may ever make the two disagree.
AccessModes ==
  \A d \in Fd : IsOpen(d) /\ g_fd_table[d].node \in PipeNode =>
    (IsWrite(g_fd_table[d]) <=> g_fd_table[d].node[1] = "pipe:[w]")

\* When execve runs the new image, no descriptor from 3 up marked
\* close-on-exec is open, whatever dup and fcntl did to the marks before.
CloexecClosed ==
  \A d \in Fd : d >= FirstFd /\ d < sweep =>
    ~(IsOpen(d) /\ "O_CLOEXEC" \in g_fd_table[d].flags)

\* The sweep closes nothing else: a descriptor that changes during execve was
\* open and marked close-on-exec.
CloexecOnly ==
  sweep # 0 => \A d \in Fd : g_fd_table'[d] # g_fd_table[d] =>
    d >= FirstFd /\ IsOpen(d) /\ "O_CLOEXEC" \in g_fd_table[d].flags

\* execve (process.cpp 272) closes exactly the descriptors that are marked,
\* while the pipes behind them are given up one by one.
CloexecExact == [][CloexecClosed' /\ CloexecOnly]_vars

\* The bytes in a channel, oldest first.
Contents(p) == Taken(g_pipes[p], g_pipes[p].count)

PS == INSTANCE PipeSpec WITH
        Capacity <- PIPE_CAPACITY,
        readers <- [p \in Pipe |-> Readers(p)],
        writers <- [p \in Pipe |-> Writers(p)],
        queue <- [p \in Pipe |-> Contents(p)]

\* The table and the channels implement pipes: first-in first-out, nothing
\* lost while a descriptor is left, and end of file, try-again and broken pipe
\* reported exactly when the descriptors of the other end say so.
ImplementsPipes == PS!Spec

=============================================================================
