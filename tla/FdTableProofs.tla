-------------------------- MODULE FdTableProofs --------------------------
(***************************************************************************)
(* Proofs about FdTable for every table size, channel count, ring size and *)
(* set of inputs, and that it implements PipeSpec.                         *)
(*                                                                         *)
(* The argument is about a table t and channels P as values: closing a     *)
(* descriptor and copying one onto a closed descriptor each preserve       *)
(* Sound(t, P), and every action is a composition of those two, of opening *)
(* descriptors, and of changes that touch neither.                         *)
(***************************************************************************)
EXTENDS FdTable, FiniteSetTheorems, SequenceTheorems, TLAPS

\* Reference counts and open flags of channel ch, held by the descriptors R on
\* its read end and W on its write end.
ChannelOK(R, W, ch) ==
  /\ ch.in_use <=> R \cup W # {}
  /\ ch.in_use => /\ ch.ref_read = Cardinality(R)
                  /\ ch.ref_write = Cardinality(W)
                  /\ ch.read_open <=> R # {}
                  /\ ch.write_open <=> W # {}

\* An open descriptor's access mode agrees with the pipe end it refers to.
ModeOK(f) ==
  f.is_open /\ f.node \in PipeNode => (IsWrite(f) <=> f.node[1] = "pipe:[w]")

Sound(t, P) ==
  /\ t \in [Fd -> FileDescriptor]
  /\ P \in [Pipe -> PipeChannel]
  /\ \A d \in Fd : ModeOK(t[d])
  /\ \A p \in Pipe :
       ChannelOK(Holders(t, ReadVNode(p)), Holders(t, WriteVNode(p)), P[p])

IInv == Sound(g_fd_table, g_pipes) /\ sweep \in {0} \cup (FirstFd..MAX_OPEN_FILES)

-----------------------------------------------------------------------------
(* Facts about the sets of descriptors on an end.                          *)

\* There are finitely many descriptors on any vnode.
LEMMA HoldersFinite ==
  ASSUME NEW t, NEW v
  PROVE  IsFiniteSet(Holders(t, v)) /\ Cardinality(Holders(t, v)) \in Nat
<1>1. IsFiniteSet(Fd)
  BY FS_Interval, SizesAssumption DEF Fd
<1>2. Holders(t, v) \in SUBSET Fd
  BY DEF Holders
<1>. QED
  BY <1>1, <1>2, FS_Subset, FS_CardinalityType

\* pipe_vnode_close on a read end drops exactly the reader that closes.
LEMMA CloseReader ==
  ASSUME NEW R, NEW W, NEW d \in R, IsFiniteSet(R), IsFiniteSet(W),
         NEW ch \in PipeChannel, ChannelOK(R, W, ch)
  PROVE  /\ pipe_vnode_close(ch, FALSE) \in PipeChannel
         /\ ChannelOK(R \ {d}, W, pipe_vnode_close(ch, FALSE))
<1>. DEFINE n == Cardinality(R)
            m == Cardinality(W)
            c1 == DropReader(ch)
            c2 == Reclaim(c1)
<1>1. /\ n \in Nat \ {0}
      /\ m \in Nat
      /\ Cardinality(R \ {d}) = n - 1
      /\ n - 1 = 0 <=> R \ {d} = {}
      /\ m = 0 <=> W = {}
  BY FS_RemoveElement, FS_EmptySet, FS_CardinalityType
<1>2. /\ ch.in_use /\ ch.ref_read = n /\ ch.ref_write = m
      /\ ch.read_open /\ (ch.write_open <=> W # {})
  BY DEF ChannelOK
<1>. HIDE DEF n, m
<1>3. /\ c1 \in PipeChannel
      /\ c1.in_use /\ c1.ref_read = n - 1 /\ c1.ref_write = m
      /\ c1.read_open <=> n - 1 # 0
      /\ c1.write_open <=> W # {}
  <2>1. Decr(ch.ref_read) = n - 1 /\ n - 1 \in Nat
    BY <1>1, <1>2 DEF Decr
  <2>2. c1 = [ch EXCEPT !.ref_read = n - 1, !.read_open = (n - 1 # 0)]
    BY <2>1, <1>2 DEF DropReader, PipeChannel
  <2>. QED
    BY <2>1, <2>2, <1>2 DEF PipeChannel
<1>4. pipe_vnode_close(ch, FALSE) = c2
  BY <1>2 DEF pipe_vnode_close
<1>. HIDE DEF c1
<1>5. CASE n - 1 = 0 /\ m = 0
  <2>1. c2 = [c1 EXCEPT !.in_use = FALSE, !.count = 0, !.head = 0, !.tail = 0]
    BY <1>3, <1>5 DEF Reclaim
  <2>2. 0 \in Slot /\ 0 \in 0..PIPE_CAPACITY
    BY SizesAssumption DEF Slot
  <2>3. c2 \in PipeChannel /\ ~c2.in_use
    BY <1>3, <2>1, <2>2 DEF PipeChannel
  <2>. QED
    BY <2>3, <1>4, <1>5, <1>1 DEF ChannelOK
<1>6. CASE ~(n - 1 = 0 /\ m = 0)
  <2>1. c2 = c1
    BY <1>3, <1>6 DEF Reclaim
  <2>. QED
    BY <2>1, <1>4, <1>6, <1>1, <1>3 DEF ChannelOK, n, m
<1>. QED
  BY <1>5, <1>6

\* pipe_vnode_close on a write end drops exactly the writer that closes.
LEMMA CloseWriter ==
  ASSUME NEW R, NEW W, NEW d \in W, IsFiniteSet(R), IsFiniteSet(W),
         NEW ch \in PipeChannel, ChannelOK(R, W, ch)
  PROVE  /\ pipe_vnode_close(ch, TRUE) \in PipeChannel
         /\ ChannelOK(R, W \ {d}, pipe_vnode_close(ch, TRUE))
<1>. DEFINE n == Cardinality(W)
            m == Cardinality(R)
            c1 == DropWriter(ch)
            c2 == Reclaim(c1)
<1>1. /\ n \in Nat \ {0}
      /\ m \in Nat
      /\ Cardinality(W \ {d}) = n - 1
      /\ n - 1 = 0 <=> W \ {d} = {}
      /\ m = 0 <=> R = {}
  BY FS_RemoveElement, FS_EmptySet, FS_CardinalityType
<1>2. /\ ch.in_use /\ ch.ref_write = n /\ ch.ref_read = m
      /\ ch.write_open /\ (ch.read_open <=> R # {})
  BY DEF ChannelOK
<1>. HIDE DEF n, m
<1>3. /\ c1 \in PipeChannel
      /\ c1.in_use /\ c1.ref_write = n - 1 /\ c1.ref_read = m
      /\ c1.write_open <=> n - 1 # 0
      /\ c1.read_open <=> R # {}
  <2>1. Decr(ch.ref_write) = n - 1 /\ n - 1 \in Nat
    BY <1>1, <1>2 DEF Decr
  <2>2. c1 = [ch EXCEPT !.ref_write = n - 1, !.write_open = (n - 1 # 0)]
    BY <2>1, <1>2 DEF DropWriter, PipeChannel
  <2>. QED
    BY <2>1, <2>2, <1>2 DEF PipeChannel
<1>4. pipe_vnode_close(ch, TRUE) = c2
  BY <1>2 DEF pipe_vnode_close
<1>. HIDE DEF c1
<1>5. CASE n - 1 = 0 /\ m = 0
  <2>1. c2 = [c1 EXCEPT !.in_use = FALSE, !.count = 0, !.head = 0, !.tail = 0]
    BY <1>3, <1>5 DEF Reclaim
  <2>2. 0 \in Slot /\ 0 \in 0..PIPE_CAPACITY
    BY SizesAssumption DEF Slot
  <2>3. c2 \in PipeChannel /\ ~c2.in_use
    BY <1>3, <2>1, <2>2 DEF PipeChannel
  <2>. QED
    BY <2>3, <1>4, <1>5, <1>1 DEF ChannelOK
<1>6. CASE ~(n - 1 = 0 /\ m = 0)
  <2>1. c2 = c1
    BY <1>3, <1>6 DEF Reclaim
  <2>. QED
    BY <2>1, <1>4, <1>6, <1>1, <1>3 DEF ChannelOK, n, m
<1>. QED
  BY <1>5, <1>6

\* A duplicate of a held end adds one holder and one reference.
LEMMA DupReader ==
  ASSUME NEW R, NEW W, NEW e, e \notin R, R # {}, IsFiniteSet(R),
         NEW ch \in PipeChannel, ChannelOK(R, W, ch)
  PROVE  /\ [ch EXCEPT !.ref_read = @ + 1] \in PipeChannel
         /\ ChannelOK(R \cup {e}, W, [ch EXCEPT !.ref_read = @ + 1])
<1>1. Cardinality(R \cup {e}) = Cardinality(R) + 1
  BY FS_AddElement
<1>2. ch.in_use /\ ch.ref_read = Cardinality(R) /\ ch.ref_write = Cardinality(W)
      /\ ch.read_open /\ (ch.write_open <=> W # {})
  BY DEF ChannelOK
<1>. DEFINE c == [ch EXCEPT !.ref_read = @ + 1]
<1>3. /\ c \in PipeChannel
      /\ c.ref_read = ch.ref_read + 1 /\ c.ref_write = ch.ref_write
      /\ c.in_use = ch.in_use /\ c.read_open = ch.read_open
      /\ c.write_open = ch.write_open
  BY DEF PipeChannel
<1>. HIDE DEF c
<1>. QED
  BY <1>1, <1>2, <1>3 DEF ChannelOK, c

\* A further descriptor for the write end, and one more in ref_write.
LEMMA DupWriter ==
  ASSUME NEW R, NEW W, NEW e, e \notin W, W # {}, IsFiniteSet(W),
         NEW ch \in PipeChannel, ChannelOK(R, W, ch)
  PROVE  /\ [ch EXCEPT !.ref_write = @ + 1] \in PipeChannel
         /\ ChannelOK(R, W \cup {e}, [ch EXCEPT !.ref_write = @ + 1])
<1>1. Cardinality(W \cup {e}) = Cardinality(W) + 1
  BY FS_AddElement
<1>2. ch.in_use /\ ch.ref_read = Cardinality(R) /\ ch.ref_write = Cardinality(W)
      /\ ch.write_open /\ (ch.read_open <=> R # {})
  BY DEF ChannelOK
<1>. DEFINE c == [ch EXCEPT !.ref_write = @ + 1]
<1>3. /\ c \in PipeChannel
      /\ c.ref_write = ch.ref_write + 1 /\ c.ref_read = ch.ref_read
      /\ c.in_use = ch.in_use /\ c.read_open = ch.read_open
      /\ c.write_open = ch.write_open
  BY DEF PipeChannel
<1>. HIDE DEF c
<1>. QED
  BY <1>1, <1>2, <1>3 DEF ChannelOK, c

-----------------------------------------------------------------------------
(* Closing and copying descriptors.                                        *)

\* Which end an open pipe descriptor holds follows from its access mode.
LEMMA EndOfMode ==
  ASSUME NEW f \in FileDescriptor, f.is_open, f.node \in PipeNode, ModeOK(f)
  PROVE  /\ f.node[2] \in Pipe
         /\ IsWrite(f) => f.node = WriteVNode(f.node[2])
         /\ ~IsWrite(f) => f.node = ReadVNode(f.node[2])
  BY DEF ModeOK, PipeNode, WriteVNode, ReadVNode

\* The two vnodes of all channels are pairwise different.
LEMMA VNodesDiffer ==
  ASSUME NEW p \in Pipe, NEW q \in Pipe
  PROVE  /\ ReadVNode(p) # WriteVNode(q)
         /\ ReadVNode(p) = ReadVNode(q) => p = q
         /\ WriteVNode(p) = WriteVNode(q) => p = q
         /\ ReadVNode(p) \in PipeNode /\ WriteVNode(p) \in PipeNode
  BY DEF ReadVNode, WriteVNode, PipeNode

\* vfs_close of an open descriptor.
LEMMA CloseSound ==
  ASSUME NEW t, NEW P, Sound(t, P), NEW e \in Fd, t[e].is_open
  PROVE  Sound([t EXCEPT ![e] = ClosedFd], ReleasePipe(P, t[e]))
<1>. DEFINE f  == t[e]
            t2 == [t EXCEPT ![e] = ClosedFd]
            P2 == ReleasePipe(P, f)
            q  == f.node[2]
<1>1. /\ t \in [Fd -> FileDescriptor] /\ P \in [Pipe -> PipeChannel]
      /\ \A d \in Fd : ModeOK(t[d])
      /\ \A p \in Pipe :
           ChannelOK(Holders(t, ReadVNode(p)), Holders(t, WriteVNode(p)), P[p])
  BY DEF Sound
<1>2. ClosedFd \in FileDescriptor /\ ~ClosedFd.is_open
  BY DEF ClosedFd, FileDescriptor, Node
<1>3. t2 \in [Fd -> FileDescriptor] /\ f \in FileDescriptor
  BY <1>1, <1>2
<1>4. \A d \in Fd : ModeOK(t2[d])
  BY <1>1, <1>2 DEF ModeOK
<1>5. \A v : Holders(t2, v) = Holders(t, v) \ {e}
  <2>. TAKE v
  <2>1. \A d \in Fd : t2[d] = IF d = e THEN ClosedFd ELSE t[d]
    BY <1>1
  <2>. QED
    BY <2>1, <1>2 DEF Holders
<1>6. \A v : IsFiniteSet(Holders(t, v))
  BY HoldersFinite
<1>7. \A v : v # f.node => Holders(t2, v) = Holders(t, v)
  BY <1>5 DEF Holders
<1>8. e \in Holders(t, f.node)
  BY DEF Holders
<1>. HIDE DEF t2
<1>9. CASE f.node \notin PipeNode
  <2>1. P2 = P
    BY <1>9 DEF ReleasePipe
  <2>2. \A p \in Pipe : ReadVNode(p) # f.node /\ WriteVNode(p) # f.node
    BY <1>9, VNodesDiffer
  <2>3. \A p \in Pipe : /\ Holders(t2, ReadVNode(p)) = Holders(t, ReadVNode(p))
                        /\ Holders(t2, WriteVNode(p)) = Holders(t, WriteVNode(p))
    BY <1>7, <2>2
  <2>4. Sound(t2, P)
    BY <1>1, <1>3, <1>4, <2>3 DEF Sound
  <2>. QED
    BY <2>1, <2>4 DEF t2
<1>10. CASE f.node \in PipeNode
  <2>1. q \in Pipe /\ P2 = [P EXCEPT ![q] = pipe_vnode_close(P[q], IsWrite(f))]
    BY <1>10, <1>1, <1>3, EndOfMode DEF ReleasePipe
  <2>2. ChannelOK(Holders(t, ReadVNode(q)), Holders(t, WriteVNode(q)), P[q])
        /\ P[q] \in PipeChannel
    BY <1>1, <2>1
  <2>3. /\ pipe_vnode_close(P[q], IsWrite(f)) \in PipeChannel
        /\ ChannelOK(Holders(t2, ReadVNode(q)), Holders(t2, WriteVNode(q)),
                     pipe_vnode_close(P[q], IsWrite(f)))
    <3>1. CASE IsWrite(f)
      <4>1. f.node = WriteVNode(q) /\ ReadVNode(q) # f.node
        BY <3>1, <1>10, <1>1, <1>3, <2>1, EndOfMode, VNodesDiffer
      <4>2. /\ Holders(t2, ReadVNode(q)) = Holders(t, ReadVNode(q))
            /\ Holders(t2, WriteVNode(q)) = Holders(t, WriteVNode(q)) \ {e}
            /\ e \in Holders(t, WriteVNode(q))
        BY <4>1, <1>5, <1>7, <1>8
      <4>3. IsWrite(f) = TRUE
        BY <3>1 DEF IsWrite
      <4>4. /\ pipe_vnode_close(P[q], TRUE) \in PipeChannel
            /\ ChannelOK(Holders(t, ReadVNode(q)), Holders(t, WriteVNode(q)) \ {e},
                         pipe_vnode_close(P[q], TRUE))
        BY <4>2, <2>2, <1>6, CloseWriter
      <4>. QED
        BY <4>2, <4>3, <4>4
    <3>2. CASE ~IsWrite(f)
      <4>1. f.node = ReadVNode(q) /\ WriteVNode(q) # f.node
        BY <3>2, <1>10, <1>1, <1>3, <2>1, EndOfMode, VNodesDiffer
      <4>2. /\ Holders(t2, WriteVNode(q)) = Holders(t, WriteVNode(q))
            /\ Holders(t2, ReadVNode(q)) = Holders(t, ReadVNode(q)) \ {e}
            /\ e \in Holders(t, ReadVNode(q))
        BY <4>1, <1>5, <1>7, <1>8
      <4>3. IsWrite(f) = FALSE
        BY <3>2 DEF IsWrite
      <4>4. /\ pipe_vnode_close(P[q], FALSE) \in PipeChannel
            /\ ChannelOK(Holders(t, ReadVNode(q)) \ {e}, Holders(t, WriteVNode(q)),
                         pipe_vnode_close(P[q], FALSE))
        BY <4>2, <2>2, <1>6, CloseReader
      <4>. QED
        BY <4>2, <4>3, <4>4
    <3>. QED
      BY <3>1, <3>2
  <2>4. \A p \in Pipe : p # q =>
          ChannelOK(Holders(t2, ReadVNode(p)), Holders(t2, WriteVNode(p)), P2[p])
    <3>1. \A p \in Pipe : p # q => ReadVNode(p) # f.node /\ WriteVNode(p) # f.node
      BY <1>10, <1>1, <1>3, <2>1, EndOfMode, VNodesDiffer
    <3>2. \A p \in Pipe : p # q => P2[p] = P[p]
      BY <1>1, <2>1
    <3>3. \A p \in Pipe : p # q =>
            /\ Holders(t2, ReadVNode(p)) = Holders(t, ReadVNode(p))
            /\ Holders(t2, WriteVNode(p)) = Holders(t, WriteVNode(p))
      BY <3>1, <1>7
    <3>. QED
      BY <3>2, <3>3, <1>1
  <2>. HIDE DEF q
  <2>5. P2 \in [Pipe -> PipeChannel] /\ P2[q] = pipe_vnode_close(P[q], IsWrite(f))
    BY <1>1, <2>1, <2>3
  <2>6. Sound(t2, P2)
    BY <1>3, <1>4, <2>1, <2>3, <2>4, <2>5 DEF Sound
  <2>. QED
    BY <2>6 DEF t2
<1>. QED
  BY <1>9, <1>10

\* Copying an open descriptor onto a closed one.
LEMMA DupSound ==
  ASSUME NEW t, NEW P, Sound(t, P), NEW d \in Fd, NEW e \in Fd,
         t[d].is_open, ~t[e].is_open
  PROVE  Sound([t EXCEPT ![e] = t[d]], RetainPipe(P, t[d]))
<1>. DEFINE f  == t[d]
            t2 == [t EXCEPT ![e] = f]
            P2 == RetainPipe(P, f)
            q  == f.node[2]
<1>1. /\ t \in [Fd -> FileDescriptor] /\ P \in [Pipe -> PipeChannel]
      /\ \A c \in Fd : ModeOK(t[c])
      /\ \A p \in Pipe :
           ChannelOK(Holders(t, ReadVNode(p)), Holders(t, WriteVNode(p)), P[p])
  BY DEF Sound
<1>2. t2 \in [Fd -> FileDescriptor] /\ f \in FileDescriptor /\ f.is_open /\ ModeOK(f)
  BY <1>1
<1>3. \A c \in Fd : ModeOK(t2[c])
  BY <1>1, <1>2
<1>4. \A c \in Fd : t2[c] = IF c = e THEN f ELSE t[c]
  BY <1>1
<1>5. \A v : v # f.node => Holders(t2, v) = Holders(t, v)
  BY <1>4 DEF Holders
<1>6. Holders(t2, f.node) = Holders(t, f.node) \cup {e}
  BY <1>4, <1>2 DEF Holders
<1>7. d \in Holders(t, f.node) /\ e \notin Holders(t, f.node)
  BY DEF Holders
<1>8. \A v : IsFiniteSet(Holders(t, v))
  BY HoldersFinite
<1>. HIDE DEF t2
<1>9. CASE f.node \notin PipeNode
  <2>1. P2 = P
    BY <1>9 DEF RetainPipe
  <2>2. \A p \in Pipe : ReadVNode(p) # f.node /\ WriteVNode(p) # f.node
    BY <1>9, VNodesDiffer
  <2>3. \A p \in Pipe : /\ Holders(t2, ReadVNode(p)) = Holders(t, ReadVNode(p))
                        /\ Holders(t2, WriteVNode(p)) = Holders(t, WriteVNode(p))
    BY <1>5, <2>2
  <2>4. Sound(t2, P)
    BY <1>1, <1>2, <1>3, <2>3 DEF Sound
  <2>. QED
    BY <2>1, <2>4 DEF t2
<1>10. CASE f.node \in PipeNode
  <2>. DEFINE c == IF IsWrite(f) THEN [P[q] EXCEPT !.ref_write = @ + 1]
                                 ELSE [P[q] EXCEPT !.ref_read = @ + 1]
  <2>1. q \in Pipe /\ P2 = [P EXCEPT ![q] = c]
    BY <1>10, <1>1, <1>2, EndOfMode DEF RetainPipe
  <2>2. ChannelOK(Holders(t, ReadVNode(q)), Holders(t, WriteVNode(q)), P[q])
        /\ P[q] \in PipeChannel
    BY <1>1, <2>1
  <2>3. /\ c \in PipeChannel
        /\ ChannelOK(Holders(t2, ReadVNode(q)), Holders(t2, WriteVNode(q)), c)
    <3>1. CASE IsWrite(f)
      <4>1. f.node = WriteVNode(q) /\ ReadVNode(q) # f.node
        BY <3>1, <1>10, <1>2, <2>1, EndOfMode, VNodesDiffer
      <4>2. /\ Holders(t2, ReadVNode(q)) = Holders(t, ReadVNode(q))
            /\ Holders(t2, WriteVNode(q)) = Holders(t, WriteVNode(q)) \cup {e}
            /\ e \notin Holders(t, WriteVNode(q)) /\ Holders(t, WriteVNode(q)) # {}
        BY <4>1, <1>5, <1>6, <1>7
      <4>3. c = [P[q] EXCEPT !.ref_write = @ + 1]
        BY <3>1
      <4>4. /\ [P[q] EXCEPT !.ref_write = @ + 1] \in PipeChannel
            /\ ChannelOK(Holders(t, ReadVNode(q)), Holders(t, WriteVNode(q)) \cup {e},
                         [P[q] EXCEPT !.ref_write = @ + 1])
        BY <4>2, <2>2, <1>8, DupWriter
      <4>. QED
        BY <4>2, <4>3, <4>4
    <3>2. CASE ~IsWrite(f)
      <4>1. f.node = ReadVNode(q) /\ WriteVNode(q) # f.node
        BY <3>2, <1>10, <1>2, <2>1, EndOfMode, VNodesDiffer
      <4>2. /\ Holders(t2, WriteVNode(q)) = Holders(t, WriteVNode(q))
            /\ Holders(t2, ReadVNode(q)) = Holders(t, ReadVNode(q)) \cup {e}
            /\ e \notin Holders(t, ReadVNode(q)) /\ Holders(t, ReadVNode(q)) # {}
        BY <4>1, <1>5, <1>6, <1>7
      <4>3. c = [P[q] EXCEPT !.ref_read = @ + 1]
        BY <3>2
      <4>4. /\ [P[q] EXCEPT !.ref_read = @ + 1] \in PipeChannel
            /\ ChannelOK(Holders(t, ReadVNode(q)) \cup {e}, Holders(t, WriteVNode(q)),
                         [P[q] EXCEPT !.ref_read = @ + 1])
        BY <4>2, <2>2, <1>8, DupReader
      <4>. QED
        BY <4>2, <4>3, <4>4
    <3>. QED
      BY <3>1, <3>2
  <2>. HIDE DEF c
  <2>4. \A p \in Pipe : p # q =>
          ChannelOK(Holders(t2, ReadVNode(p)), Holders(t2, WriteVNode(p)), P2[p])
    <3>1. \A p \in Pipe : p # q => ReadVNode(p) # f.node /\ WriteVNode(p) # f.node
      BY <1>10, <1>2, <2>1, EndOfMode, VNodesDiffer
    <3>2. \A p \in Pipe : p # q => P2[p] = P[p]
      BY <1>1, <2>1
    <3>3. \A p \in Pipe : p # q =>
            /\ Holders(t2, ReadVNode(p)) = Holders(t, ReadVNode(p))
            /\ Holders(t2, WriteVNode(p)) = Holders(t, WriteVNode(p))
      BY <3>1, <1>5
    <3>. QED
      BY <3>2, <3>3, <1>1
  <2>. HIDE DEF q
  <2>5. P2 \in [Pipe -> PipeChannel] /\ P2[q] = c
    BY <1>1, <2>1, <2>3
  <2>6. Sound(t2, P2)
    BY <1>2, <1>3, <2>1, <2>3, <2>4, <2>5 DEF Sound
  <2>. QED
    BY <2>6 DEF t2
<1>. QED
  BY <1>9, <1>10

\* Changing a descriptor's flags, or moving bytes through a channel, leaves who
\* holds what alone.
LEMMA FlagsSound ==
  ASSUME NEW t, NEW P, Sound(t, P), NEW d \in Fd, NEW flags \in SUBSET Flag,
         "O_WRONLY" \in flags <=> "O_WRONLY" \in t[d].flags
  PROVE  Sound([t EXCEPT ![d].flags = flags], P)
<1>. DEFINE t2 == [t EXCEPT ![d].flags = flags]
<1>1. t \in [Fd -> FileDescriptor]
  BY DEF Sound
<1>2. t2 \in [Fd -> FileDescriptor]
  BY <1>1 DEF FileDescriptor
<1>3. \A c \in Fd : /\ t2[c].is_open <=> t[c].is_open
                    /\ t2[c].node = t[c].node
                    /\ IsWrite(t2[c]) <=> IsWrite(t[c])
  BY <1>1 DEF FileDescriptor, IsWrite
<1>. HIDE DEF t2
<1>4. \A v : Holders(t2, v) = Holders(t, v)
  <2>. TAKE v
  <2>1. \A c \in Fd : (t2[c].is_open /\ t2[c].node = v) <=> (t[c].is_open /\ t[c].node = v)
    BY <1>3
  <2>. QED
    BY <2>1, Zenon DEF Holders
<1>5. \A c \in Fd : ModeOK(t2[c])
  <2>. TAKE c \in Fd
  <2>1. ModeOK(t[c])
    BY DEF Sound
  <2>. QED
    BY <1>3, <2>1, Zenon DEF ModeOK
<1>6. Sound(t2, P)
  BY <1>2, <1>4, <1>5 DEF Sound
<1>. QED
  BY <1>6 DEF t2

\* Moving bytes touches neither the counts nor the open flags.
LEMMA TransferSound ==
  ASSUME NEW t, NEW P, Sound(t, P), NEW q \in Pipe, NEW ch \in PipeChannel,
         ch.in_use = P[q].in_use, ch.ref_read = P[q].ref_read,
         ch.ref_write = P[q].ref_write, ch.read_open = P[q].read_open,
         ch.write_open = P[q].write_open
  PROVE  Sound(t, [P EXCEPT ![q] = ch])
<1>1. P \in [Pipe -> PipeChannel] /\ [P EXCEPT ![q] = ch] \in [Pipe -> PipeChannel]
  BY DEF Sound
<1>2. \A p \in Pipe : [P EXCEPT ![q] = ch][p] = IF p = q THEN ch ELSE P[p]
  BY <1>1
<1>3. ChannelOK(Holders(t, ReadVNode(q)), Holders(t, WriteVNode(q)), ch)
  BY DEF Sound, ChannelOK
<1>. QED
  BY <1>1, <1>2, <1>3 DEF Sound

\* Ring indices stay in the ring.
LEMMA ModSlot == \A a \in Nat : a % PIPE_CAPACITY \in Slot
  BY SizesAssumption DEF Slot

\* Taking out bytes keeps a channel a channel.
LEMMA AfterTakeType ==
  ASSUME NEW ch \in PipeChannel, NEW n \in 0..ch.count
  PROVE  AfterTake(ch, n) \in PipeChannel
<1>1. ch.tail \in Nat /\ ch.count - n \in 0..PIPE_CAPACITY
  BY SizesAssumption DEF PipeChannel, Slot
<1>2. (ch.tail + n) % PIPE_CAPACITY \in Slot
  BY <1>1, ModSlot
<1>. QED
  BY <1>1, <1>2 DEF AfterTake, PipeChannel

\* Putting in bytes keeps a channel a channel.
LEMMA AfterPutType ==
  ASSUME NEW ch \in PipeChannel, NEW bs \in Seq(Byte), NEW n \in 0..Len(bs),
         n <= PIPE_CAPACITY - ch.count
  PROVE  AfterPut(ch, bs, n) \in PipeChannel
<1>1. /\ ch.head \in Slot /\ ch.head \in Nat /\ PIPE_CAPACITY \in Nat
      /\ ch.count + n \in 0..PIPE_CAPACITY
  BY SizesAssumption DEF PipeChannel, Slot
<1>2. (ch.head + n) % PIPE_CAPACITY \in Slot
  BY <1>1, ModSlot
<1>. DEFINE i(s) == (s + PIPE_CAPACITY - ch.head) % PIPE_CAPACITY
            b == [s \in Slot |-> IF i(s) < n THEN bs[i(s) + 1] ELSE ch.buffer[s]]
<1>3. b \in [Slot -> Byte]
  <2>. SUFFICES ASSUME NEW s \in Slot PROVE b[s] \in Byte
    OBVIOUS
  <2>1. s + PIPE_CAPACITY - ch.head \in Nat
    BY <1>1 DEF Slot
  <2>2. i(s) \in Slot
    BY <2>1, ModSlot
  <2>. HIDE DEF i
  <2>3. i(s) < n => bs[i(s) + 1] \in Byte
    BY <2>2 DEF Slot
  <2>4. ch.buffer[s] \in Byte
    BY DEF PipeChannel
  <2>. QED
    BY <2>3, <2>4
<1>4. AfterPut(ch, bs, n) = [ch EXCEPT !.buffer = b,
                               !.head = (ch.head + n) % PIPE_CAPACITY,
                               !.count = ch.count + n]
  BY DEF AfterPut
<1>. HIDE DEF b
<1>. QED
  BY <1>1, <1>2, <1>3, <1>4 DEF PipeChannel

-----------------------------------------------------------------------------
(* The inductive invariant.                                                *)

\* vfs_init and pipe_init establish it.
LEMMA InitSound == Init => IInv
<1>. SUFFICES ASSUME Init PROVE IInv
  OBVIOUS
<1>1. PICK b \in Byte :
        g_pipes = [p \in Pipe |->
                    [buffer |-> [s \in Slot |-> b], head |-> 0, tail |-> 0, count |-> 0,
                     read_open |-> FALSE, write_open |-> FALSE,
                     ref_read |-> 0, ref_write |-> 0, in_use |-> FALSE]]
  BY DEF Init
<1>2. 0 \in Slot /\ 0 \in 0..PIPE_CAPACITY /\ [s \in Slot |-> b] \in [Slot -> Byte]
  BY SizesAssumption DEF Slot
<1>3. g_pipes \in [Pipe -> PipeChannel] /\ \A p \in Pipe : ~g_pipes[p].in_use
  BY <1>1, <1>2 DEF PipeChannel
<1>4. \A d \in Fd : /\ g_fd_table[d] \in FileDescriptor
                   /\ g_fd_table[d].node = NoNode
  BY DEF Init, OpenFd, ClosedFd, FileDescriptor, Node, Flag
<1>5. g_fd_table \in [Fd -> FileDescriptor]
  BY <1>4 DEF Init
<1>6. \A p \in Pipe : ReadVNode(p) # NoNode /\ WriteVNode(p) # NoNode
  BY NodesAssumption, VNodesDiffer
<1>7. \A p \in Pipe : /\ Holders(g_fd_table, ReadVNode(p)) = {}
                     /\ Holders(g_fd_table, WriteVNode(p)) = {}
  BY <1>4, <1>6 DEF Holders
<1>8. \A d \in Fd : ModeOK(g_fd_table[d])
  BY <1>4, NodesAssumption DEF ModeOK
<1>9. Sound(g_fd_table, g_pipes)
  BY <1>3, <1>5, <1>7, <1>8 DEF Sound, ChannelOK
<1>. QED
  BY <1>9 DEF IInv, Init

\* The lowest member of a non-empty set of descriptors is one of them.
LEMMA LowestIn ==
  ASSUME NEW S \in SUBSET Nat, S # {}
  PROVE  Lowest(S) \in S
<1>. DEFINE R == {ss \in Nat \X Nat : ss[1] < ss[2]}
<1>1. IsWellFoundedOn(R, Nat)
  BY NatLessThanWellFounded, Zenon DEF OpToRel
<1>2. PICK x \in S : \A y \in S : <<y, x>> \notin R
  <2>. HIDE DEF R
  <2>. QED
    BY <1>1, WFMin
<1>3. \A y \in S : x <= y
  <2>. TAKE y \in S
  <2>1. <<y, x>> \in Nat \X Nat /\ ~(y < x)
    BY <1>2
  <2>. QED
    BY <2>1
<1>. QED
  BY <1>3 DEF Lowest

\* Opening a file on a closed descriptor.
LEMMA OpenSound ==
  ASSUME NEW t, NEW P, Sound(t, P), NEW e \in Fd, ~t[e].is_open,
         NEW f \in Files, NEW flags \in SUBSET Flag
  PROVE  Sound([t EXCEPT ![e] = OpenFd(f, flags)], P)
<1>. DEFINE g == OpenFd(f, flags)
            t2 == [t EXCEPT ![e] = g]
<1>1. t \in [Fd -> FileDescriptor] /\ \A d \in Fd : ModeOK(t[d])
  BY DEF Sound
<1>2. g \in FileDescriptor /\ g.node \notin PipeNode /\ g.node = f
  BY NodesAssumption DEF OpenFd, FileDescriptor, Node
<1>. HIDE DEF g
<1>3. t2 \in [Fd -> FileDescriptor] /\ \A d \in Fd : t2[d] = IF d = e THEN g ELSE t[d]
  BY <1>1, <1>2
<1>. HIDE DEF t2
<1>4. \A d \in Fd : ModeOK(t2[d])
  BY <1>1, <1>2, <1>3 DEF ModeOK
<1>5. \A v \in PipeNode : Holders(t2, v) = Holders(t, v)
  BY <1>2, <1>3 DEF Holders
<1>6. \A p \in Pipe : /\ Holders(t2, ReadVNode(p)) = Holders(t, ReadVNode(p))
                     /\ Holders(t2, WriteVNode(p)) = Holders(t, WriteVNode(p))
  BY <1>5, VNodesDiffer
<1>7. Sound(t2, P)
  BY <1>3, <1>4, <1>6 DEF Sound
<1>. QED
  BY <1>7 DEF t2, g

\* A fresh channel with one descriptor on each end.
LEMMA CreateSound ==
  ASSUME NEW t, NEW P, Sound(t, P), NEW q \in Pipe, ~P[q].in_use,
         NEW r \in Fd, NEW w \in Fd, r # w, ~t[r].is_open, ~t[w].is_open,
         NEW flags \in PipeFlags
  PROVE  Sound([t EXCEPT ![r] = OpenFd(ReadVNode(q), flags),
                         ![w] = OpenFd(WriteVNode(q), {"O_WRONLY"} \cup flags)],
               [P EXCEPT ![q] = FreshChannel(P[q])])
<1>. DEFINE a  == OpenFd(ReadVNode(q), flags)
            b  == OpenFd(WriteVNode(q), {"O_WRONLY"} \cup flags)
            t2 == [t EXCEPT ![r] = a, ![w] = b]
            ch == FreshChannel(P[q])
            P2 == [P EXCEPT ![q] = ch]
<1>1. /\ t \in [Fd -> FileDescriptor] /\ P \in [Pipe -> PipeChannel]
      /\ \A d \in Fd : ModeOK(t[d])
      /\ \A p \in Pipe :
           ChannelOK(Holders(t, ReadVNode(p)), Holders(t, WriteVNode(p)), P[p])
  BY DEF Sound
<1>2. flags \in SUBSET Flag /\ "O_WRONLY" \notin flags
  BY PipeFlagsAssumption
<1>3. /\ a \in FileDescriptor /\ a.is_open /\ a.node = ReadVNode(q) /\ ~IsWrite(a)
      /\ b \in FileDescriptor /\ b.is_open /\ b.node = WriteVNode(q) /\ IsWrite(b)
  <2>1. ReadVNode(q) \in Node /\ WriteVNode(q) \in Node
    BY VNodesDiffer DEF Node
  <2>. QED
    BY <1>2, <2>1 DEF OpenFd, FileDescriptor, IsWrite, Flag
<1>. HIDE DEF a, b
<1>4. ModeOK(a) /\ ModeOK(b)
  <2>1. ReadVNode(q)[1] # "pipe:[w]" /\ WriteVNode(q)[1] = "pipe:[w]"
    BY DEF ReadVNode, WriteVNode
  <2>. QED
    BY <1>3, <2>1 DEF ModeOK
<1>5. /\ t2 \in [Fd -> FileDescriptor]
      /\ \A d \in Fd : t2[d] = IF d = w THEN b ELSE IF d = r THEN a ELSE t[d]
  BY <1>1, <1>3
<1>6. /\ ch \in PipeChannel /\ ch.in_use /\ ch.read_open /\ ch.write_open
      /\ ch.ref_read = 1 /\ ch.ref_write = 1
  <2>1. 0 \in Slot /\ 0 \in 0..PIPE_CAPACITY /\ P[q] \in PipeChannel
    BY SizesAssumption, <1>1 DEF Slot
  <2>. QED
    BY <2>1 DEF FreshChannel, PipeChannel
<1>. HIDE DEF t2, ch
<1>7. \A d \in Fd : ModeOK(t2[d])
  BY <1>1, <1>4, <1>5
<1>8. Holders(t, ReadVNode(q)) = {} /\ Holders(t, WriteVNode(q)) = {}
  BY <1>1 DEF ChannelOK
<1>9. ReadVNode(q) # WriteVNode(q)
  BY VNodesDiffer
<1>10. Holders(t2, ReadVNode(q)) = {r} /\ Holders(t2, WriteVNode(q)) = {w}
  BY <1>3, <1>5, <1>8, <1>9 DEF Holders
<1>11. ChannelOK(Holders(t2, ReadVNode(q)), Holders(t2, WriteVNode(q)), ch)
  BY <1>6, <1>10, FS_Singleton DEF ChannelOK
<1>12. \A p \in Pipe : p # q => /\ Holders(t2, ReadVNode(p)) = Holders(t, ReadVNode(p))
                                /\ Holders(t2, WriteVNode(p)) = Holders(t, WriteVNode(p))
  <2>. SUFFICES ASSUME NEW p \in Pipe, p # q
                PROVE  /\ Holders(t2, ReadVNode(p)) = Holders(t, ReadVNode(p))
                       /\ Holders(t2, WriteVNode(p)) = Holders(t, WriteVNode(p))
    OBVIOUS
  <2>1. /\ ReadVNode(p) # ReadVNode(q) /\ ReadVNode(p) # WriteVNode(q)
        /\ WriteVNode(p) # ReadVNode(q) /\ WriteVNode(p) # WriteVNode(q)
    BY VNodesDiffer
  <2>. QED
    BY <1>3, <1>5, <2>1 DEF Holders
<1>13. P2 \in [Pipe -> PipeChannel] /\ \A p \in Pipe : P2[p] = IF p = q THEN ch ELSE P[p]
  BY <1>1, <1>6
<1>. HIDE DEF P2
<1>14. Sound(t2, P2)
  BY <1>1, <1>5, <1>7, <1>11, <1>12, <1>13 DEF Sound
<1>. QED
  BY <1>14 DEF t2, P2, a, b, ch

\* An unused channel that stays unused, whatever its other fields.
LEMMA UnusedSound ==
  ASSUME NEW t, NEW P, Sound(t, P), NEW q \in Pipe, ~P[q].in_use,
         NEW ch \in PipeChannel, ~ch.in_use
  PROVE  Sound(t, [P EXCEPT ![q] = ch])
<1>1. /\ P \in [Pipe -> PipeChannel]
      /\ [P EXCEPT ![q] = ch] \in [Pipe -> PipeChannel]
      /\ \A p \in Pipe : [P EXCEPT ![q] = ch][p] = IF p = q THEN ch ELSE P[p]
  BY DEF Sound
<1>2. ChannelOK(Holders(t, ReadVNode(q)), Holders(t, WriteVNode(q)), ch)
  BY DEF Sound, ChannelOK
<1>. QED
  BY <1>1, <1>2 DEF Sound

\* Clearing a descriptor that is not open.
LEMMA ClearSound ==
  ASSUME NEW t, NEW P, Sound(t, P), NEW e \in Fd, ~t[e].is_open
  PROVE  Sound([t EXCEPT ![e] = ClosedFd], P)
<1>. DEFINE t2 == [t EXCEPT ![e] = ClosedFd]
<1>1. t \in [Fd -> FileDescriptor] /\ \A d \in Fd : ModeOK(t[d])
  BY DEF Sound
<1>2. ClosedFd \in FileDescriptor /\ ~ClosedFd.is_open
  BY DEF ClosedFd, FileDescriptor, Node
<1>3. t2 \in [Fd -> FileDescriptor] /\ \A d \in Fd : t2[d] = IF d = e THEN ClosedFd ELSE t[d]
  BY <1>1, <1>2
<1>. HIDE DEF t2
<1>4. \A d \in Fd : ModeOK(t2[d])
  BY <1>1, <1>2, <1>3 DEF ModeOK
<1>5. \A v : Holders(t2, v) = Holders(t, v)
  BY <1>2, <1>3 DEF Holders
<1>6. Sound(t2, P)
  BY <1>3, <1>4, <1>5 DEF Sound
<1>. QED
  BY <1>6 DEF t2

\* Every step of the system preserves it.
LEMMA StepSound == IInv /\ [Next]_vars => IInv'
<1>. SUFFICES ASSUME IInv, [Next]_vars PROVE IInv'
  OBVIOUS
<1>. USE DEF IInv
<1>1. Sound(g_fd_table, g_pipes) /\ sweep \in {0} \cup (FirstFd..MAX_OPEN_FILES)
  OBVIOUS
<1>2. /\ g_fd_table \in [Fd -> FileDescriptor]
      /\ g_pipes \in [Pipe -> PipeChannel]
      /\ \A p \in Pipe : ChannelOK(Readers(p), Writers(p), g_pipes[p])
  BY <1>1 DEF Sound, Readers, Writers
<1>3. \A start : FreeFrom(start) \in SUBSET Nat /\ FreeFrom(start) \subseteq Fd
                /\ \A d \in FreeFrom(start) : ~g_fd_table[d].is_open
  BY SizesAssumption DEF FreeFrom, Fd, IsOpen
<1>4. ASSUME NEW f \in Files, NEW flags \in OpenFlags, vfs_open(f, flags)
      PROVE  IInv'
  <2>. DEFINE e == Lowest(FreeFrom(FirstFd))
  <2>1. e \in Fd /\ ~g_fd_table[e].is_open
    BY <1>3, <1>4, LowestIn DEF vfs_open
  <2>. HIDE DEF e
  <2>2. Sound([g_fd_table EXCEPT ![e] = OpenFd(f, flags)], g_pipes)
    BY <1>1, <2>1, OpenSound, InputsAssumption
  <2>. QED
    BY <2>2, <1>1, <1>4 DEF vfs_open, e
<1>5. ASSUME NEW d \in Fd, vfs_close(d)
      PROVE  IInv'
  <2>1. Sound([g_fd_table EXCEPT ![d] = ClosedFd], ReleasePipe(g_pipes, g_fd_table[d]))
    BY <1>1, <1>5, CloseSound DEF vfs_close, IsOpen
  <2>. QED
    BY <2>1, <1>1, <1>5 DEF vfs_close, CloseFd
<1>6. ASSUME NEW d \in Fd, vfs_dup(d)
      PROVE  IInv'
  <2>. DEFINE e == Lowest(FreeFrom(0))
  <2>1. e \in Fd /\ ~g_fd_table[e].is_open
    BY <1>3, <1>6, LowestIn DEF vfs_dup
  <2>. HIDE DEF e
  <2>2. Sound([g_fd_table EXCEPT ![e] = g_fd_table[d]], RetainPipe(g_pipes, g_fd_table[d]))
    BY <1>1, <1>6, <2>1, DupSound DEF vfs_dup, IsOpen
  <2>. QED
    BY <2>2, <1>1, <1>6 DEF vfs_dup, e
<1>7. ASSUME NEW d \in Fd, NEW e \in Fd, d # e, IsOpen(d), Dup2Onto(d, e)
      PROVE  IInv'
  <2>1. CASE IsOpen(e)
    <3>. DEFINE t1 == [g_fd_table EXCEPT ![e] = ClosedFd]
                P1 == ReleasePipe(g_pipes, g_fd_table[e])
    <3>1. Sound(t1, P1)
      BY <1>1, <2>1, CloseSound DEF IsOpen
    <3>2. t1[d] = g_fd_table[d] /\ t1[d].is_open /\ ~t1[e].is_open
      BY <1>2, <1>7 DEF IsOpen, ClosedFd
    <3>3. [t1 EXCEPT ![e] = t1[d]] = [g_fd_table EXCEPT ![e] = g_fd_table[d]]
      BY <1>2, <3>2
    <3>4. g_fd_table' = [t1 EXCEPT ![e] = t1[d]] /\ g_pipes' = RetainPipe(P1, t1[d])
          /\ sweep' = sweep
      BY <1>7, <2>1, <3>2, <3>3 DEF Dup2Onto
    <3>. HIDE DEF t1, P1
    <3>5. Sound([t1 EXCEPT ![e] = t1[d]], RetainPipe(P1, t1[d]))
      BY <3>1, <3>2, DupSound
    <3>. QED
      BY <3>4, <3>5, <1>1
  <2>2. CASE ~IsOpen(e)
    <3>1. Sound([g_fd_table EXCEPT ![e] = g_fd_table[d]], RetainPipe(g_pipes, g_fd_table[d]))
      BY <1>1, <1>7, <2>2, DupSound DEF IsOpen
    <3>. QED
      BY <3>1, <2>2, <1>1, <1>7 DEF Dup2Onto
  <2>. QED
    BY <2>1, <2>2
<1>8. ASSUME NEW d \in Fd, NEW e \in Fd, vfs_dup2(d, e)
      PROVE  IInv'
  BY <1>7, <1>8 DEF vfs_dup2
<1>9. ASSUME NEW d \in Fd, NEW start \in Fd, fcntl_dupfd(d, start)
      PROVE  IInv'
  <2>. DEFINE e == Lowest(FreeFrom(start))
  <2>1. e \in Fd /\ ~g_fd_table[e].is_open
    BY <1>3, <1>9, LowestIn DEF fcntl_dupfd
  <2>2. IsOpen(d) /\ Dup2Onto(d, e)
    BY <1>9 DEF fcntl_dupfd
  <2>. HIDE DEF e
  <2>3. d # e
    BY <2>1, <2>2 DEF IsOpen
  <2>. QED
    BY <1>7, <2>1, <2>2, <2>3
<1>10. ASSUME NEW d \in Fd, NEW flags \in SUBSET Flag, SetFlags(d, flags),
              "O_WRONLY" \in flags <=> "O_WRONLY" \in g_fd_table[d].flags
       PROVE  IInv'
  <2>1. Sound([g_fd_table EXCEPT ![d].flags = flags], g_pipes)
    BY <1>1, <1>10, FlagsSound
  <2>. QED
    BY <2>1, <1>1, <1>10 DEF SetFlags
<1>11. \A d \in Fd : g_fd_table[d].flags \in SUBSET Flag
  BY <1>2 DEF FileDescriptor
<1>12. ASSUME NEW d \in Fd, NEW on \in SetfdArgs, fcntl_setfd(d, on)
       PROVE  IInv'
  <2>. DEFINE flags == IF on THEN g_fd_table[d].flags \cup {"O_CLOEXEC"}
                             ELSE g_fd_table[d].flags \ {"O_CLOEXEC"}
  <2>1. flags \in SUBSET Flag
        /\ ("O_WRONLY" \in flags <=> "O_WRONLY" \in g_fd_table[d].flags)
    BY <1>11 DEF Flag
  <2>. QED
    BY <2>1, <1>10, <1>12 DEF fcntl_setfd
<1>13. ASSUME NEW d \in Fd, NEW arg \in SetflArgs, fcntl_setfl(d, arg)
       PROVE  IInv'
  <2>. DEFINE flags == (g_fd_table[d].flags \ Settable) \cup (arg \cap Settable)
  <2>1. flags \in SUBSET Flag
        /\ ("O_WRONLY" \in flags <=> "O_WRONLY" \in g_fd_table[d].flags)
    BY <1>11 DEF Flag, Settable
  <2>. QED
    BY <2>1, <1>10, <1>13 DEF fcntl_setfl
<1>14. ASSUME NEW flags \in PipeFlags, pipe_create(flags)
       PROVE  IInv'
  <2>. DEFINE unused == {p \in Pipe : ~g_pipes[p].in_use}
              p      == Lowest(unused)
              fresh  == FreshChannel(g_pipes[p])
              free   == FreeFrom(FirstFd)
              rfd    == Lowest(free)
              wfd    == Lowest(free \ {rfd})
  <2>1. p \in Pipe /\ ~g_pipes[p].in_use
    BY <1>14, LowestIn, SizesAssumption DEF pipe_create, Pipe
  <2>2. g_pipes[p] \in PipeChannel /\ 0 \in Slot /\ 0 \in 0..PIPE_CAPACITY
    BY <1>2, <2>1, SizesAssumption DEF Slot
  <2>3. fresh \in PipeChannel
    BY <2>2 DEF FreshChannel, PipeChannel
  <2>4. sweep' = sweep
    BY <1>14 DEF pipe_create
  <2>5. free \in SUBSET Nat /\ free \subseteq Fd /\ \A d \in free : ~g_fd_table[d].is_open
    BY <1>3
  <2>6. CASE free = {}
    <3>1. /\ g_pipes' = [g_pipes EXCEPT ![p] = [fresh EXCEPT !.in_use = FALSE]]
          /\ g_fd_table' = g_fd_table
      BY <1>14, <2>6 DEF pipe_create
    <3>. HIDE DEF fresh, p
    <3>2. [fresh EXCEPT !.in_use = FALSE] \in PipeChannel
          /\ ~[fresh EXCEPT !.in_use = FALSE].in_use
      BY <2>3 DEF PipeChannel
    <3>3. Sound(g_fd_table, [g_pipes EXCEPT ![p] = [fresh EXCEPT !.in_use = FALSE]])
      BY <1>1, <2>1, <3>2, UnusedSound
    <3>. QED
      BY <3>1, <3>3, <2>4
  <2>7. CASE free # {} /\ free \ {rfd} = {}
    <3>. DEFINE c == pipe_vnode_close(fresh, FALSE)
    <3>1. /\ g_pipes' = [g_pipes EXCEPT ![p] = [c EXCEPT !.in_use = FALSE]]
          /\ g_fd_table' = [g_fd_table EXCEPT ![rfd] = ClosedFd]
      BY <1>14, <2>7 DEF pipe_create
    <3>2. rfd \in Fd /\ ~g_fd_table[rfd].is_open
      BY <2>5, <2>7, LowestIn
    <3>3. c \in PipeChannel
      <4>1. fresh.in_use /\ fresh.ref_read = 1 /\ fresh.ref_write = 1
        BY <2>2 DEF FreshChannel, PipeChannel
      <4>2. c = [fresh EXCEPT !.ref_read = 0, !.read_open = FALSE]
        <5>. HIDE DEF fresh
        <5>. DEFINE c1 == [fresh EXCEPT !.ref_read = 0, !.read_open = FALSE]
        <5>1. DropReader(fresh) = c1
          <6>1. Decr(fresh.ref_read) = 0 /\ (fresh.read_open /\ 0 # 0) = FALSE
            BY <4>1 DEF Decr
          <6>. QED
            BY <6>1 DEF DropReader
        <5>2. c1.ref_write = 1
          BY <4>1, <2>3 DEF PipeChannel
        <5>. HIDE DEF c1
        <5>3. Reclaim(c1) = c1
          BY <5>2 DEF Reclaim
        <5>. QED
          BY <4>1, <5>1, <5>3 DEF pipe_vnode_close, c1
      <4>. HIDE DEF fresh, c
      <4>. QED
        BY <4>2, <2>3 DEF PipeChannel
    <3>. HIDE DEF fresh, p, c, rfd, free
    <3>4. [c EXCEPT !.in_use = FALSE] \in PipeChannel
          /\ ~[c EXCEPT !.in_use = FALSE].in_use
      BY <3>3 DEF PipeChannel
    <3>5. Sound(g_fd_table, [g_pipes EXCEPT ![p] = [c EXCEPT !.in_use = FALSE]])
      BY <1>1, <2>1, <3>4, UnusedSound
    <3>6. Sound([g_fd_table EXCEPT ![rfd] = ClosedFd],
                [g_pipes EXCEPT ![p] = [c EXCEPT !.in_use = FALSE]])
      BY <3>2, <3>5, ClearSound
    <3>. QED
      BY <3>1, <3>6, <2>4
  <2>8. CASE free # {} /\ free \ {rfd} # {}
    <3>1. /\ g_pipes' = [g_pipes EXCEPT ![p] = fresh]
          /\ g_fd_table' = [g_fd_table EXCEPT
                              ![rfd] = OpenFd(ReadVNode(p), flags),
                              ![wfd] = OpenFd(WriteVNode(p), {"O_WRONLY"} \cup flags)]
      BY <1>14, <2>8 DEF pipe_create
    <3>2. rfd \in free
      BY <2>5, <2>8, LowestIn
    <3>3. wfd \in free \ {rfd}
      BY <2>5, <2>8, LowestIn
    <3>4. rfd \in Fd /\ wfd \in Fd /\ rfd # wfd
          /\ ~g_fd_table[rfd].is_open /\ ~g_fd_table[wfd].is_open
      BY <3>2, <3>3, <2>5
    <3>. HIDE DEF p, rfd, wfd, free
    <3>5. Sound([g_fd_table EXCEPT
                   ![rfd] = OpenFd(ReadVNode(p), flags),
                   ![wfd] = OpenFd(WriteVNode(p), {"O_WRONLY"} \cup flags)],
                [g_pipes EXCEPT ![p] = FreshChannel(g_pipes[p])])
      BY <1>1, <2>1, <3>4, CreateSound
    <3>. QED
      BY <3>1, <3>5, <2>4
  <2>. QED
    BY <2>6, <2>7, <2>8
<1>15. ASSUME NEW d \in Fd, NEW n \in 1..MaxRead, vfs_read(d, n)
       PROVE  IInv'
  <2>1. g_fd_table' = g_fd_table /\ sweep' = sweep
    BY <1>15 DEF vfs_read
  <2>2. CASE g_pipes' = g_pipes
    BY <1>1, <2>1, <2>2
  <2>3. ASSUME NEW p \in Pipe, g_pipes[p].count > 0,
               g_pipes' = [g_pipes EXCEPT ![p] =
                            AfterTake(g_pipes[p], MinOf(n, g_pipes[p].count))]
        PROVE  IInv'
    <3>. DEFINE ch == g_pipes[p]
                k  == MinOf(n, ch.count)
    <3>1. ch \in PipeChannel /\ k \in 0..ch.count
      BY <1>2, SizesAssumption DEF MinOf, PipeChannel
    <3>2. AfterTake(ch, k) \in PipeChannel
      BY <3>1, AfterTakeType
    <3>3. /\ AfterTake(ch, k).in_use = ch.in_use
          /\ AfterTake(ch, k).ref_read = ch.ref_read
          /\ AfterTake(ch, k).ref_write = ch.ref_write
          /\ AfterTake(ch, k).read_open = ch.read_open
          /\ AfterTake(ch, k).write_open = ch.write_open
      BY <3>1 DEF AfterTake, PipeChannel
    <3>4. Sound(g_fd_table, [g_pipes EXCEPT ![p] = AfterTake(ch, k)])
      <4>. DEFINE c == AfterTake(ch, k)
      <4>. HIDE DEF c, k
      <4>. QED
        BY <1>1, <3>2, <3>3, TransferSound DEF c
    <3>. QED
      BY <2>1, <2>3, <3>4
  <2>4. g_fd_table[d].node \in PipeNode => g_fd_table[d].node[2] \in Pipe
    BY DEF PipeNode
  <2>. QED
    BY <2>2, <2>3, <2>4, <1>15 DEF vfs_read, pipe_vnode_read
<1>16. ASSUME NEW d \in Fd, NEW bs \in Payloads, vfs_write(d, bs)
       PROVE  IInv'
  <2>1. g_fd_table' = g_fd_table /\ sweep' = sweep
    BY <1>16 DEF vfs_write
  <2>2. CASE g_pipes' = g_pipes
    BY <1>1, <2>1, <2>2
  <2>3. ASSUME NEW p \in Pipe,
               g_pipes' = [g_pipes EXCEPT ![p] =
                 AfterPut(g_pipes[p], bs, MinOf(Len(bs), PIPE_CAPACITY - g_pipes[p].count))]
        PROVE  IInv'
    <3>. DEFINE ch == g_pipes[p]
                k  == MinOf(Len(bs), PIPE_CAPACITY - ch.count)
    <3>1. /\ ch \in PipeChannel /\ bs \in Seq(Byte)
          /\ k \in 0..Len(bs) /\ k <= PIPE_CAPACITY - ch.count
      BY <1>2, SizesAssumption, InputsAssumption DEF MinOf, PipeChannel
    <3>2. AfterPut(ch, bs, k) \in PipeChannel
      BY <3>1, AfterPutType
    <3>3. /\ AfterPut(ch, bs, k).in_use = ch.in_use
          /\ AfterPut(ch, bs, k).ref_read = ch.ref_read
          /\ AfterPut(ch, bs, k).ref_write = ch.ref_write
          /\ AfterPut(ch, bs, k).read_open = ch.read_open
          /\ AfterPut(ch, bs, k).write_open = ch.write_open
      BY <3>1 DEF AfterPut, PipeChannel
    <3>4. Sound(g_fd_table, [g_pipes EXCEPT ![p] = AfterPut(ch, bs, k)])
      <4>. DEFINE c == AfterPut(ch, bs, k)
      <4>. HIDE DEF c, k
      <4>. QED
        BY <1>1, <3>2, <3>3, TransferSound DEF c
    <3>. QED
      BY <2>1, <2>3, <3>4
  <2>4. g_fd_table[d].node \in PipeNode => g_fd_table[d].node[2] \in Pipe
    BY DEF PipeNode
  <2>. QED
    BY <2>2, <2>3, <2>4, <1>16 DEF vfs_write, pipe_vnode_write
<1>17. CASE execve_begin
  <2>1. FirstFd \in FirstFd..MAX_OPEN_FILES
    BY SizesAssumption
  <2>. QED
    BY <2>1, <1>1, <1>17 DEF execve_begin
<1>18. CASE execve_sweep
  <2>1. sweep' \in FirstFd..MAX_OPEN_FILES /\ sweep \in Fd
    BY <1>18, SizesAssumption DEF execve_sweep, Fd
  <2>2. CASE IsOpen(sweep) /\ "O_CLOEXEC" \in g_fd_table[sweep].flags
    <3>1. Sound([g_fd_table EXCEPT ![sweep] = ClosedFd],
                ReleasePipe(g_pipes, g_fd_table[sweep]))
      BY <1>1, <2>1, <2>2, CloseSound DEF IsOpen
    <3>. QED
      BY <3>1, <2>1, <2>2, <1>18 DEF execve_sweep, CloseFd
  <2>3. CASE ~(IsOpen(sweep) /\ "O_CLOEXEC" \in g_fd_table[sweep].flags)
    BY <1>1, <2>1, <2>3, <1>18 DEF execve_sweep
  <2>. QED
    BY <2>2, <2>3
<1>19. CASE execve_run
  BY <1>1, <1>19 DEF execve_run
<1>20. CASE UNCHANGED vars
  BY <1>1, <1>20 DEF vars
<1>. QED
  BY <1>4, <1>5, <1>6, <1>8, <1>9, <1>12, <1>13, <1>14, <1>15, <1>16, <1>17, <1>18,
     <1>19, <1>20 DEF Next

\* The invariant holds in every reachable state.
THEOREM Invariance == Spec => []IInv
  BY InitSound, StepSound, PTL DEF Spec

\* Every descriptor and channel keeps its type: in particular the ring indices
\* stay inside the ring and the count within its capacity.
THEOREM TypeCorrect == Spec => []TypeOK
<1>1. IInv => TypeOK
  BY DEF IInv, Sound, TypeOK
<1>. QED
  BY <1>1, Invariance, PTL

\* The reference counts of pipe.cpp always equal the numbers of open
\* descriptors, so a channel is given up exactly with its last descriptor.
THEOREM RefCountsHold == Spec => []RefCounts
<1>1. IInv => RefCounts
  BY DEF IInv, Sound, RefCounts, ChannelOK, Readers, Writers
<1>. QED
  BY <1>1, Invariance, PTL

\* The open flags that transfers test always tell whether the other end is held.
THEOREM OpenEndsHold == Spec => []OpenEnds
<1>1. IInv => OpenEnds
  BY DEF IInv, Sound, OpenEnds, ChannelOK, Readers, Writers
<1>. QED
  BY <1>1, Invariance, PTL

\* No sequence of fcntl and dup calls makes a pipe descriptor's access mode
\* disagree with the end it is on.
THEOREM AccessModesHold == Spec => []AccessModes
<1>1. IInv => AccessModes
  BY DEF IInv, Sound, AccessModes, ModeOK, IsOpen
<1>. QED
  BY <1>1, Invariance, PTL

-----------------------------------------------------------------------------
(* execve's sweep.                                                         *)

\* During the sweep nothing else moves, and a step of it closes the descriptor
\* it looks at when that one is marked, and no other.
LEMMA SweepStep ==
  ASSUME IInv, [Next]_vars, sweep # 0
  PROVE  \/ execve_sweep
         \/ sweep' = 0 /\ g_fd_table' = g_fd_table
         \/ UNCHANGED vars
<1>1. ~Idle
  BY DEF Idle
<1>. QED
  BY <1>1 DEF Next, vfs_open, vfs_close, vfs_dup, vfs_dup2, fcntl_dupfd, fcntl_setfd, fcntl_setfl,
              SetFlags, pipe_create, vfs_read, vfs_write, execve_begin, execve_run

\* What a step of the sweep does to the table.
LEMMA SweepTable ==
  ASSUME IInv, execve_sweep
  PROVE  /\ sweep \in Fd /\ sweep >= FirstFd /\ sweep' = sweep + 1
         /\ \A d \in Fd : d # sweep => g_fd_table'[d] = g_fd_table[d]
         /\ g_fd_table'[sweep] # g_fd_table[sweep] =>
              IsOpen(sweep) /\ "O_CLOEXEC" \in g_fd_table[sweep].flags
         /\ ~(g_fd_table'[sweep].is_open /\ "O_CLOEXEC" \in g_fd_table'[sweep].flags)
<1>1. g_fd_table \in [Fd -> FileDescriptor]
  BY DEF IInv, Sound
<1>2. sweep \in Fd /\ sweep >= FirstFd /\ sweep' = sweep + 1
  BY SizesAssumption DEF execve_sweep, Fd
<1>3. CASE IsOpen(sweep) /\ "O_CLOEXEC" \in g_fd_table[sweep].flags
  <2>1. g_fd_table' = [g_fd_table EXCEPT ![sweep] = ClosedFd]
    BY <1>3 DEF execve_sweep, CloseFd
  <2>2. ~ClosedFd.is_open
    BY DEF ClosedFd
  <2>. QED
    BY <1>1, <1>2, <1>3, <2>1, <2>2
<1>4. CASE ~(IsOpen(sweep) /\ "O_CLOEXEC" \in g_fd_table[sweep].flags)
  <2>1. g_fd_table' = g_fd_table
    BY <1>4 DEF execve_sweep
  <2>. QED
    BY <1>2, <1>4, <2>1 DEF IsOpen
<1>. QED
  BY <1>3, <1>4

\* What the sweep has passed stays closed, and it changes marked descriptors only.
LEMMA CloexecStep ==
  ASSUME IInv, CloexecClosed, [Next]_vars
  PROVE  CloexecClosed' /\ CloexecOnly
<1>1. CASE sweep = 0
  <2>1. CloexecOnly
    BY <1>1 DEF CloexecOnly
  <2>2. sweep' = 0 \/ sweep' = FirstFd
    <3>1. ~execve_sweep /\ ~execve_run
      BY <1>1, SizesAssumption DEF execve_sweep, execve_run
    <3>. QED
      BY <1>1, <3>1 DEF Next, vfs_open, vfs_close, vfs_dup, vfs_dup2, Dup2Onto, fcntl_dupfd,
         fcntl_setfd, fcntl_setfl, SetFlags, pipe_create, vfs_read, vfs_write, execve_begin, vars
  <2>3. \A d \in Fd : ~(d >= FirstFd /\ d < sweep')
    BY <2>2, SizesAssumption DEF Fd
  <2>. QED
    BY <2>1, <2>3 DEF CloexecClosed
<1>2. CASE sweep # 0 /\ execve_sweep
  <2>1. CloexecClosed'
    <3>. SUFFICES ASSUME NEW d \in Fd, d >= FirstFd, d < sweep'
                  PROVE  ~(g_fd_table'[d].is_open /\ "O_CLOEXEC" \in g_fd_table'[d].flags)
      BY DEF CloexecClosed, IsOpen
    <3>1. d = sweep \/ d < sweep
      BY <1>2, SweepTable DEF Fd
    <3>. QED
      BY <3>1, <1>2, SweepTable DEF CloexecClosed, IsOpen, Fd
  <2>2. CloexecOnly
    BY <1>2, SweepTable DEF CloexecOnly
  <2>. QED
    BY <2>1, <2>2
<1>3. CASE sweep' = 0 /\ g_fd_table' = g_fd_table
  <2>1. \A d \in Fd : ~(d >= FirstFd /\ d < sweep')
    BY <1>3, SizesAssumption DEF Fd
  <2>. QED
    BY <1>3, <2>1 DEF CloexecClosed, CloexecOnly
<1>4. CASE UNCHANGED vars
  BY <1>4 DEF vars, CloexecClosed, CloexecOnly, IsOpen
<1>. QED
  BY <1>1, <1>2, <1>3, <1>4, SweepStep

\* execve closes exactly the descriptors marked close-on-exec, whatever dup, fcntl
\* and pipe calls marked or unmarked them before.
THEOREM CloexecExactHolds == Spec => CloexecExact
<1>1. Init => CloexecClosed
  BY SizesAssumption DEF Init, CloexecClosed, Fd
<1>2. IInv /\ CloexecClosed /\ [Next]_vars => CloexecClosed'
  BY CloexecStep
<1>3. IInv /\ CloexecClosed /\ [Next]_vars => [CloexecClosed' /\ CloexecOnly]_vars
  BY CloexecStep
<1>4. Spec => []CloexecClosed
  BY <1>1, <1>2, Invariance, PTL DEF Spec
<1>. QED
  BY <1>3, <1>4, Invariance, PTL DEF Spec, CloexecExact

-----------------------------------------------------------------------------
(* FdTable implements PipeSpec.  The queue of a channel is read off its     *)
(* ring, so the invariant is strengthened by RingOK: the write index is     *)
(* where the contents end, and a channel given up holds nothing.  Every     *)
(* operation on descriptors then keeps the contents of each channel that   *)
(* stays in use (Kept), and a transfer moves bytes at one end of the queue. *)

RingOK(ch) ==
  /\ ch.head = (ch.tail + ch.count) % PIPE_CAPACITY
  /\ ~ch.in_use => ch.count = 0

Rings == \A p \in Pipe : RingOK(g_pipes[p])

\* The bytes in a channel, oldest first.
Queue(ch) == Taken(ch, ch.count)

\* From the channels P to the channels P2, contents are lost only with the channel.
Kept(P, P2) ==
  \A p \in Pipe : /\ RingOK(P2[p])
                  /\ Queue(P2[p]) = IF P2[p].in_use THEN Queue(P[p]) ELSE <<>>

-----------------------------------------------------------------------------
(* The ring.                                                               *)

Wrap(a) == IF a < PIPE_CAPACITY THEN a ELSE a - PIPE_CAPACITY

\* An index past the end of the ring wraps around once.
LEMMA WrapOnce ==
  ASSUME NEW a \in Nat, a < 2 * PIPE_CAPACITY
  PROVE  a % PIPE_CAPACITY = Wrap(a)
<1>1. PIPE_CAPACITY \in Nat \ {0}
  BY SizesAssumption
<1>2. CASE a < PIPE_CAPACITY
  BY <1>1, <1>2 DEF Wrap
<1>3. CASE ~(a < PIPE_CAPACITY)
  BY <1>1, <1>3 DEF Wrap
<1>. QED
  BY <1>2, <1>3

\* An empty channel has an empty queue.
LEMMA EmptyQueue ==
  ASSUME NEW ch, ch.count = 0
  PROVE  Queue(ch) = <<>>
  BY DEF Queue, Taken

\* The queue of a channel is a sequence of bytes no longer than the ring.
LEMMA QueueType ==
  ASSUME NEW ch \in PipeChannel
  PROVE  /\ Queue(ch) \in Seq(Byte) /\ Len(Queue(ch)) = ch.count
         /\ \A i \in 1..ch.count : Queue(ch)[i] = ch.buffer[(ch.tail + i - 1) % PIPE_CAPACITY]
<1>1. ch.count \in Nat /\ ch.tail \in Nat /\ ch.buffer \in [Slot -> Byte]
  BY SizesAssumption DEF PipeChannel, Slot
<1>2. \A i \in 1..ch.count : ch.buffer[(ch.tail + i - 1) % PIPE_CAPACITY] \in Byte
  <2>. TAKE i \in 1..ch.count
  <2>1. ch.tail + i - 1 \in Nat
    BY <1>1
  <2>2. (ch.tail + i - 1) % PIPE_CAPACITY \in Slot
    BY <2>1, ModSlot
  <2>. QED
    BY <1>1, <2>2
<1>. QED
  BY <1>1, <1>2 DEF Queue, Taken

\* Fields of the channels after a transfer.
LEMMA TakeFields ==
  ASSUME NEW ch \in PipeChannel, NEW n \in 0..ch.count
  PROVE  LET c == AfterTake(ch, n)
         IN  /\ c \in PipeChannel /\ c.buffer = ch.buffer /\ c.head = ch.head
             /\ c.tail = (ch.tail + n) % PIPE_CAPACITY /\ c.count = ch.count - n
             /\ c.in_use = ch.in_use
<1>1. AfterTake(ch, n) \in PipeChannel
  BY AfterTakeType
<1>. QED
  BY <1>1 DEF AfterTake, PipeChannel

\* Taking n bytes returns the first n of the queue and leaves the others.
LEMMA TakeQueue ==
  ASSUME NEW ch \in PipeChannel, RingOK(ch), ch.in_use, NEW n \in 0..ch.count
  PROVE  /\ RingOK(AfterTake(ch, n))
         /\ Taken(ch, n) = SubSeq(Queue(ch), 1, n)
         /\ Queue(AfterTake(ch, n)) = SubSeq(Queue(ch), n + 1, Len(Queue(ch)))
<1>. DEFINE c == AfterTake(ch, n)
<1>1. /\ c \in PipeChannel /\ c.buffer = ch.buffer /\ c.head = ch.head
      /\ c.tail = (ch.tail + n) % PIPE_CAPACITY /\ c.count = ch.count - n
      /\ c.in_use = ch.in_use
  BY TakeFields
<1>. HIDE DEF c
<1>2. /\ PIPE_CAPACITY \in Nat \ {0} /\ ch.tail \in 0..(PIPE_CAPACITY - 1)
      /\ ch.count \in 0..PIPE_CAPACITY /\ n \in 0..ch.count
      /\ c.count = ch.count - n
  BY <1>1, SizesAssumption DEF PipeChannel, Slot
<1>3. c.tail = Wrap(ch.tail + n) /\ c.tail \in 0..(PIPE_CAPACITY - 1)
  <2>1. ch.tail + n \in Nat /\ ch.tail + n < 2 * PIPE_CAPACITY
    BY <1>2
  <2>2. c.tail = Wrap(ch.tail + n)
    BY <2>1, <1>1, WrapOnce
  <2>. QED
    BY <2>2, <1>2 DEF Wrap
<1>4. RingOK(c)
  <2>1. c.tail + c.count \in Nat /\ c.tail + c.count < 2 * PIPE_CAPACITY
        /\ ch.tail + ch.count \in Nat /\ ch.tail + ch.count < 2 * PIPE_CAPACITY
    BY <1>2, <1>3
  <2>2. (c.tail + c.count) % PIPE_CAPACITY = Wrap(c.tail + c.count)
    BY <2>1, WrapOnce
  <2>3. (ch.tail + ch.count) % PIPE_CAPACITY = Wrap(ch.tail + ch.count)
    BY <2>1, WrapOnce
  <2>4. Wrap(c.tail + c.count) = Wrap(ch.tail + ch.count)
    BY <1>2, <1>3 DEF Wrap
  <2>. QED
    BY <2>2, <2>3, <2>4, <1>1 DEF RingOK
<1>5. \A i \in 1..c.count :
        (c.tail + i - 1) % PIPE_CAPACITY = (ch.tail + (n + i) - 1) % PIPE_CAPACITY
  <2>. TAKE i \in 1..c.count
  <2>1. /\ c.tail + i - 1 \in Nat /\ c.tail + i - 1 < 2 * PIPE_CAPACITY
        /\ ch.tail + (n + i) - 1 \in Nat /\ ch.tail + (n + i) - 1 < 2 * PIPE_CAPACITY
    BY <1>2, <1>3
  <2>2. (c.tail + i - 1) % PIPE_CAPACITY = Wrap(c.tail + i - 1)
    BY <2>1, WrapOnce
  <2>3. (ch.tail + (n + i) - 1) % PIPE_CAPACITY = Wrap(ch.tail + (n + i) - 1)
    BY <2>1, WrapOnce
  <2>4. Wrap(c.tail + i - 1) = Wrap(ch.tail + (n + i) - 1)
    BY <1>2, <1>3 DEF Wrap
  <2>. QED
    BY <2>2, <2>3, <2>4
<1>6. /\ Queue(ch) \in Seq(Byte) /\ Len(Queue(ch)) = ch.count
      /\ \A i \in 1..ch.count : Queue(ch)[i] = ch.buffer[(ch.tail + i - 1) % PIPE_CAPACITY]
      /\ Queue(c) \in Seq(Byte) /\ Len(Queue(c)) = c.count
      /\ \A i \in 1..c.count : Queue(c)[i] = c.buffer[(c.tail + i - 1) % PIPE_CAPACITY]
  BY <1>1, QueueType
<1>7. Taken(ch, n) = SubSeq(Queue(ch), 1, n)
  <2>1. SubSeq(Queue(ch), 1, n) = [i \in 1..n |-> Queue(ch)[i]]
    BY <1>2, <1>6
  <2>2. \A i \in 1..n : Queue(ch)[i] = ch.buffer[(ch.tail + i - 1) % PIPE_CAPACITY]
    BY <1>2, <1>6
  <2>. QED
    BY <2>1, <2>2 DEF Taken
<1>8. Queue(c) = SubSeq(Queue(ch), n + 1, Len(Queue(ch)))
  <2>. DEFINE q == SubSeq(Queue(ch), n + 1, ch.count)
  <2>1. /\ q \in Seq(Byte) /\ Len(q) = c.count
        /\ \A i \in 1..c.count : q[i] = Queue(ch)[n + i]
    BY <1>1, <1>2, <1>6
  <2>2. \A i \in 1..c.count : Queue(c)[i] = Queue(ch)[n + i]
    <3>. TAKE i \in 1..c.count
    <3>1. n + i \in 1..ch.count
      BY <1>1, <1>2
    <3>. QED
      BY <3>1, <1>1, <1>5, <1>6
  <2>. HIDE DEF q
  <2>3. Queue(c) = q
    BY <2>1, <2>2, <1>6, SeqEqual
  <2>. QED
    BY <2>3, <1>6 DEF q
<1>. QED
  BY <1>4, <1>7, <1>8 DEF c

\* Fields of the channel after bytes are put in.
LEMMA PutFields ==
  ASSUME NEW ch \in PipeChannel, NEW bs \in Seq(Byte), NEW n \in 0..Len(bs),
         n <= PIPE_CAPACITY - ch.count
  PROVE  LET c == AfterPut(ch, bs, n)
         IN  /\ c \in PipeChannel /\ c.tail = ch.tail
             /\ c.head = (ch.head + n) % PIPE_CAPACITY /\ c.count = ch.count + n
             /\ c.in_use = ch.in_use
             /\ \A s \in Slot : LET i == (s + PIPE_CAPACITY - ch.head) % PIPE_CAPACITY
                                IN  c.buffer[s] = IF i < n THEN bs[i + 1] ELSE ch.buffer[s]
<1>1. AfterPut(ch, bs, n) \in PipeChannel
  BY AfterPutType
<1>2. AfterPut(ch, bs, n).buffer =
        [s \in Slot |->
           LET i == (s + PIPE_CAPACITY - ch.head) % PIPE_CAPACITY
           IN  IF i < n THEN bs[i + 1] ELSE ch.buffer[s]]
  BY DEF AfterPut, PipeChannel
<1>3. /\ AfterPut(ch, bs, n).tail = ch.tail
      /\ AfterPut(ch, bs, n).head = (ch.head + n) % PIPE_CAPACITY
      /\ AfterPut(ch, bs, n).count = ch.count + n
      /\ AfterPut(ch, bs, n).in_use = ch.in_use
  BY DEF AfterPut, PipeChannel
<1>. QED
  BY <1>1, <1>2, <1>3

\* Where the slot of the i-th byte lies from the write index, in a ring that holds
\* m bytes from slot t on and has room for n more.
LEMMA SlotDistance ==
  ASSUME NEW t \in 0..(PIPE_CAPACITY - 1), NEW m \in Nat, NEW n \in Nat, m + n <= PIPE_CAPACITY,
         NEW i \in 1..(m + n)
  PROVE  LET k == Wrap(Wrap(t + i - 1) + PIPE_CAPACITY - Wrap(t + m))
         IN  /\ i <= m => ~(k < n)
             /\ i > m => k = i - m - 1 /\ k < n
  BY SizesAssumption DEF Wrap

\* Putting in n bytes appends them to the queue.
LEMMA PutQueue ==
  ASSUME NEW ch \in PipeChannel, RingOK(ch), ch.in_use,
         NEW bs \in Seq(Byte), NEW n \in 0..Len(bs), n <= PIPE_CAPACITY - ch.count
  PROVE  /\ RingOK(AfterPut(ch, bs, n))
         /\ Queue(AfterPut(ch, bs, n)) = Queue(ch) \o SubSeq(bs, 1, n)
<1>. DEFINE c == AfterPut(ch, bs, n)
            C == PIPE_CAPACITY
<1>1. /\ c \in PipeChannel /\ c.tail = ch.tail
      /\ c.head = (ch.head + n) % C /\ c.count = ch.count + n
      /\ c.in_use = ch.in_use
  BY PutFields
<1>2. \A s \in Slot : c.buffer[s] = IF (s + C - ch.head) % C < n
                                    THEN bs[((s + C - ch.head) % C) + 1] ELSE ch.buffer[s]
  BY PutFields
<1>. HIDE DEF c
<1>3. /\ C \in Nat \ {0} /\ ch.tail \in 0..(C - 1) /\ c.tail = ch.tail
      /\ ch.count \in 0..C /\ n \in Nat /\ ch.count + n <= C /\ c.count = ch.count + n
  BY <1>1, SizesAssumption DEF PipeChannel, Slot
<1>4. ch.head = Wrap(ch.tail + ch.count) /\ ch.head \in 0..(C - 1)
  <2>1. ch.tail + ch.count \in Nat /\ ch.tail + ch.count < 2 * C
    BY <1>3
  <2>2. ch.head = Wrap(ch.tail + ch.count)
    BY <2>1, WrapOnce DEF RingOK
  <2>. QED
    BY <2>2, <1>3 DEF Wrap
<1>5. RingOK(c)
  <2>1. /\ ch.head + n \in Nat /\ ch.head + n < 2 * C
        /\ c.tail + c.count \in Nat /\ c.tail + c.count < 2 * C
    <3>. DEFINE h == ch.head
                k == ch.count
                t == ch.tail
    <3>1. h \in 0..(C - 1) /\ C \in Nat \ {0} /\ t \in 0..(C - 1) /\ k \in 0..C
          /\ n \in Nat /\ k + n <= C /\ c.tail = t /\ c.count = k + n
      BY <1>3, <1>4, Zenon
    <3>. HIDE DEF h, k, t, C
    <3>2. h + n \in Nat /\ h + n < 2 * C /\ t + (k + n) \in Nat /\ t + (k + n) < 2 * C
      BY <3>1
    <3>. QED
      BY <3>1, <3>2, Zenon DEF h
  <2>2. c.head = Wrap(ch.head + n) /\ (c.tail + c.count) % C = Wrap(c.tail + c.count)
    BY <2>1, <1>1, WrapOnce
  <2>3. Wrap(ch.head + n) = Wrap(c.tail + c.count)
    <3>1. c.tail + c.count = ch.tail + ch.count + n
      BY <1>3
    <3>2. CASE ch.tail + ch.count < C
      BY <1>3, <1>4, <3>1, <3>2 DEF Wrap
    <3>3. CASE ch.tail + ch.count >= C
      BY <1>3, <1>4, <3>1, <3>3 DEF Wrap
    <3>. QED
      BY <1>3, <3>2, <3>3
  <2>. QED
    BY <2>2, <2>3, <1>1 DEF RingOK
<1>6. /\ Queue(ch) \in Seq(Byte) /\ Len(Queue(ch)) = ch.count
      /\ \A i \in 1..ch.count : Queue(ch)[i] = ch.buffer[(ch.tail + i - 1) % C]
      /\ Queue(c) \in Seq(Byte) /\ Len(Queue(c)) = c.count
      /\ \A i \in 1..c.count : Queue(c)[i] = c.buffer[(c.tail + i - 1) % C]
  BY <1>1, QueueType
<1>7. ASSUME NEW i \in 1..c.count
      PROVE  /\ i <= ch.count => Queue(c)[i] = Queue(ch)[i]
             /\ i > ch.count => Queue(c)[i] = bs[i - ch.count]
  <2>. DEFINE s == (ch.tail + i - 1) % C
              k == (s + C - ch.head) % C
  <2>1. ch.tail + i - 1 \in Nat /\ ch.tail + i - 1 < 2 * C
    BY <1>3
  <2>2. s = Wrap(ch.tail + i - 1) /\ s \in Slot
    BY <2>1, WrapOnce, ModSlot
  <2>. HIDE DEF s
  <2>3. s \in 0..(C - 1)
    BY <2>2 DEF Slot
  <2>4. s + C - ch.head \in Nat /\ s + C - ch.head < 2 * C
    BY <2>3, <1>3, <1>4, SMTT(30)
  <2>5. k = Wrap(s + C - ch.head)
    BY <2>4, WrapOnce
  <2>6. c.buffer[s] = IF k < n THEN bs[k + 1] ELSE ch.buffer[s]
    BY <1>2, <2>2
  <2>. HIDE DEF k
  <2>7. Queue(c)[i] = c.buffer[s] /\ (i <= ch.count => Queue(ch)[i] = ch.buffer[s])
    BY <1>3, <1>6 DEF s
  <2>8. (i <= ch.count => ~(k < n)) /\ (i > ch.count => k = i - ch.count - 1 /\ k < n)
    <3>1. /\ i \in 1..(ch.count + n) /\ ch.tail \in 0..(PIPE_CAPACITY - 1) /\ ch.count \in Nat
          /\ n \in Nat /\ ch.count + n <= PIPE_CAPACITY
      BY <1>3
    <3>2. k = Wrap(Wrap(ch.tail + i - 1) + PIPE_CAPACITY - Wrap(ch.tail + ch.count))
      BY <1>4, <2>2, <2>5
    <3>. QED
      BY <3>1, <3>2, SlotDistance
  <2>9. CASE i <= ch.count
    BY <2>6, <2>7, <2>8, <2>9, <1>3
  <2>10. CASE i > ch.count
    <3>1. k < n /\ k + 1 = i - ch.count
      BY <2>8, <2>10, <1>3
    <3>. QED
      BY <2>6, <2>7, <2>10, <3>1, <1>3
  <2>. QED
    BY <2>9, <2>10, <1>3
<1>8. Queue(c) = Queue(ch) \o SubSeq(bs, 1, n)
  <2>. DEFINE sub == SubSeq(bs, 1, n)
              q == Queue(ch) \o sub
  <2>1. sub \in Seq(Byte) /\ Len(sub) = n /\ \A i \in 1..n : sub[i] = bs[i]
    BY <1>3
  <2>. HIDE DEF sub
  <2>2. /\ q \in Seq(Byte) /\ Len(q) = ch.count + n
        /\ \A i \in 1..(ch.count + n) :
             q[i] = IF i <= ch.count THEN Queue(ch)[i] ELSE sub[i - ch.count]
    <3>. DEFINE r == Queue(ch)
    <3>1. r \in Seq(Byte) /\ Len(r) = ch.count
      BY <1>6
    <3>. HIDE DEF r
    <3>2. /\ r \o sub \in Seq(Byte) /\ Len(r \o sub) = Len(r) + Len(sub)
          /\ \A i \in 1..(Len(r) + Len(sub)) :
               (r \o sub)[i] = IF i <= Len(r) THEN r[i] ELSE sub[i - Len(r)]
      BY <2>1, <3>1
    <3>. QED
      BY <2>1, <3>1, <3>2 DEF r
  <2>. HIDE DEF q
  <2>3. \A i \in 1..c.count : Queue(c)[i] = q[i]
    <3>. TAKE i \in 1..c.count
    <3>1. i \in 1..(ch.count + n) /\ (~(i <= ch.count) => i > ch.count /\ i - ch.count \in 1..n)
      BY <1>3
    <3>2. CASE i <= ch.count
      BY <1>7, <2>2, <3>1, <3>2
    <3>3. CASE ~(i <= ch.count)
      BY <1>7, <2>1, <2>2, <3>1, <3>3
    <3>. QED
      BY <3>2, <3>3
  <2>4. Queue(c) = q
    BY <1>3, <1>6, <2>2, <2>3, SeqEqual
  <2>. QED
    BY <2>4 DEF q, sub
<1>. QED
  BY <1>5, <1>8 DEF c

-----------------------------------------------------------------------------
(* Closing and copying descriptors.                                        *)

\* A channel whose ring is not touched, and which stays in use or stays unused.
LEMMA SameRing ==
  ASSUME NEW ch, NEW c, RingOK(ch), c.buffer = ch.buffer, c.head = ch.head,
         c.tail = ch.tail, c.count = ch.count, c.in_use <=> ch.in_use
  PROVE  RingOK(c) /\ Queue(c) = IF c.in_use THEN Queue(ch) ELSE <<>>
<1>1. RingOK(c)
  BY DEF RingOK
<1>2. Queue(c) = Queue(ch)
  BY DEF Queue, Taken
<1>3. ~c.in_use => Queue(c) = <<>>
  BY <1>1, EmptyQueue DEF RingOK
<1>. QED
  BY <1>1, <1>2, <1>3

\* Channels that stay as they are.
LEMMA KeptSame ==
  ASSUME NEW P, \A p \in Pipe : RingOK(P[p])
  PROVE  Kept(P, P)
  BY SameRing DEF Kept

\* pipe_vnode_close empties the ring with the last descriptor, and not before.
LEMMA CloseQueue ==
  ASSUME NEW ch \in PipeChannel, RingOK(ch), NEW w \in BOOLEAN
  PROVE  LET c == pipe_vnode_close(ch, w)
         IN  RingOK(c) /\ Queue(c) = IF c.in_use THEN Queue(ch) ELSE <<>>
<1>. DEFINE c == pipe_vnode_close(ch, w)
            d == IF w THEN DropWriter(ch) ELSE DropReader(ch)
<1>1. CASE ~ch.in_use
  BY <1>1, SameRing DEF pipe_vnode_close
<1>2. CASE ch.in_use
  <2>1. /\ d.buffer = ch.buffer /\ d.head = ch.head /\ d.tail = ch.tail
        /\ d.count = ch.count /\ d.in_use = ch.in_use
        /\ DOMAIN d = DOMAIN ch
    BY DEF DropWriter, DropReader, PipeChannel
  <2>2. c = Reclaim(d)
    BY <1>2 DEF pipe_vnode_close
  <2>3. CASE d.ref_read = 0 /\ d.ref_write = 0
    <3>1. c = [d EXCEPT !.in_use = FALSE, !.count = 0, !.head = 0, !.tail = 0]
      BY <2>2, <2>3 DEF Reclaim
    <3>2. ~c.in_use /\ c.count = 0 /\ c.head = 0 /\ c.tail = 0
      <4>. HIDE DEF c, d
      <4>. QED
        BY <2>1, <3>1 DEF PipeChannel
    <3>. HIDE DEF c, d
    <3>3. 0 % PIPE_CAPACITY = 0
      BY SizesAssumption
    <3>4. RingOK(c)
      BY <3>2, <3>3 DEF RingOK
    <3>. QED
      BY <3>2, <3>4, EmptyQueue DEF c
  <2>4. CASE ~(d.ref_read = 0 /\ d.ref_write = 0)
    <3>1. c = d
      BY <2>2, <2>4 DEF Reclaim
    <3>. HIDE DEF c, d
    <3>2. RingOK(c) /\ Queue(c) = IF c.in_use THEN Queue(ch) ELSE <<>>
      BY <3>1, <2>1, SameRing
    <3>. QED
      BY <3>2 DEF c
  <2>. QED
    BY <2>3, <2>4
<1>. QED
  BY <1>1, <1>2

\* vfs_close keeps the contents of every channel that somebody still holds.
LEMMA ReleaseKept ==
  ASSUME NEW P \in [Pipe -> PipeChannel], \A p \in Pipe : RingOK(P[p]), NEW f
  PROVE  Kept(P, ReleasePipe(P, f))
<1>1. CASE f.node \notin PipeNode
  BY <1>1, KeptSame DEF ReleasePipe
<1>2. CASE f.node \in PipeNode
  <2>. DEFINE q == f.node[2]
              c == pipe_vnode_close(P[q], IsWrite(f))
  <2>1. q \in Pipe
    BY <1>2 DEF PipeNode
  <2>2. RingOK(c) /\ Queue(c) = IF c.in_use THEN Queue(P[q]) ELSE <<>>
    <3>1. IsWrite(f) \in BOOLEAN
      BY DEF IsWrite
    <3>. QED
      BY <2>1, <3>1, CloseQueue
  <2>3. ReleasePipe(P, f) = [P EXCEPT ![q] = c]
    BY <1>2 DEF ReleasePipe
  <2>. HIDE DEF q, c
  <2>4. \A p \in Pipe : ReleasePipe(P, f)[p] = IF p = q THEN c ELSE P[p]
    BY <2>1, <2>3
  <2>5. \A p \in Pipe : RingOK(P[p]) /\ Queue(P[p]) = IF P[p].in_use THEN Queue(P[p]) ELSE <<>>
    BY SameRing
  <2>. QED
    BY <2>1, <2>2, <2>4, <2>5 DEF Kept
<1>. QED
  BY <1>1, <1>2

\* A reference more changes no ring.
LEMMA RetainSame ==
  ASSUME NEW P \in [Pipe -> PipeChannel], NEW f, NEW p \in Pipe
  PROVE  LET c == RetainPipe(P, f)[p]
         IN  /\ c.buffer = P[p].buffer /\ c.head = P[p].head /\ c.tail = P[p].tail
             /\ c.count = P[p].count /\ c.in_use = P[p].in_use
<1>1. CASE f.node \notin PipeNode
  BY <1>1 DEF RetainPipe
<1>2. CASE f.node \in PipeNode /\ IsWrite(f)
  <2>1. f.node[2] \in Pipe
    BY <1>2 DEF PipeNode
  <2>. QED
    BY <1>2, <2>1 DEF RetainPipe, PipeChannel
<1>3. CASE f.node \in PipeNode /\ ~IsWrite(f)
  <2>1. f.node[2] \in Pipe
    BY <1>3 DEF PipeNode
  <2>. QED
    BY <1>3, <2>1 DEF RetainPipe, PipeChannel
<1>. QED
  BY <1>1, <1>2, <1>3

\* Closing a descriptor or not, and copying another one onto it.
LEMMA RetainKept ==
  ASSUME NEW P, NEW P1 \in [Pipe -> PipeChannel], Kept(P, P1), NEW f
  PROVE  Kept(P, RetainPipe(P1, f))
<1>. SUFFICES ASSUME NEW p \in Pipe
              PROVE  LET c == RetainPipe(P1, f)[p]
                     IN  RingOK(c) /\ Queue(c) = IF c.in_use THEN Queue(P[p]) ELSE <<>>
  BY DEF Kept
<1>. DEFINE c == RetainPipe(P1, f)[p]
<1>1. /\ c.buffer = P1[p].buffer /\ c.head = P1[p].head /\ c.tail = P1[p].tail
      /\ c.count = P1[p].count /\ c.in_use = P1[p].in_use
  BY RetainSame
<1>. HIDE DEF c
<1>2. RingOK(P1[p]) /\ Queue(P1[p]) = IF P1[p].in_use THEN Queue(P[p]) ELSE <<>>
  BY DEF Kept
<1>3. RingOK(c) /\ Queue(c) = IF c.in_use THEN Queue(P1[p]) ELSE <<>>
  BY <1>1, <1>2, SameRing
<1>4. RingOK(c) /\ Queue(c) = IF c.in_use THEN Queue(P[p]) ELSE <<>>
  BY <1>1, <1>2, <1>3
<1>. QED
  BY <1>4 DEF c

-----------------------------------------------------------------------------
(* Steps of the table as steps of PipeSpec.                                *)

\* Channels that keep their contents are the queues of a Redirect.
LEMMA QueuesKept ==
  ASSUME IInv', Kept(g_pipes, g_pipes')
  PROVE  \A p \in Pipe : Contents(p)' = IF Readers(p)' \cup Writers(p)' = {} THEN <<>> ELSE Contents(p)
<1>. SUFFICES ASSUME NEW p \in Pipe
              PROVE  Contents(p)' = IF Readers(p)' \cup Writers(p)' = {} THEN <<>> ELSE Contents(p)
  OBVIOUS
<1>1. Contents(p)' = Queue(g_pipes'[p]) /\ Contents(p) = Queue(g_pipes[p])
  BY DEF Contents, Queue
<1>2. g_pipes'[p].in_use <=> Readers(p)' \cup Writers(p)' # {}
  BY DEF IInv, Sound, ChannelOK, Readers, Writers
<1>3. Queue(g_pipes'[p]) = IF g_pipes'[p].in_use THEN Queue(g_pipes[p]) ELSE <<>>
  BY DEF Kept
<1>. QED
  BY <1>1, <1>2, <1>3

\* The same, while nobody's ends change.
LEMMA QueuesSame ==
  ASSUME IInv, Rings, Kept(g_pipes, g_pipes'), IInv',
         \A p \in Pipe : Readers(p)' = Readers(p) /\ Writers(p)' = Writers(p)
  PROVE  \A p \in Pipe : Contents(p)' = Contents(p)
<1>. SUFFICES ASSUME NEW p \in Pipe PROVE Contents(p)' = Contents(p)
  OBVIOUS
<1>1. g_pipes[p].in_use <=> Readers(p) \cup Writers(p) # {}
  BY DEF IInv, Sound, ChannelOK, Readers, Writers
<1>2. ~g_pipes[p].in_use => Contents(p) = <<>>
  BY EmptyQueue DEF Rings, RingOK, Contents, Queue
<1>3. Contents(p)' = IF Readers(p)' \cup Writers(p)' = {} THEN <<>> ELSE Contents(p)
  BY QueuesKept
<1>. QED
  BY <1>1, <1>2, <1>3

\* A descriptor that becomes f, an open descriptor of the table or a closed one, is
\* redirected to the end f is on, if any.
LEMMA MoveStep ==
  ASSUME IInv, IInv', Kept(g_pipes, g_pipes'), ret' = Result(0, <<>>),
         NEW e \in Fd, NEW f \in FileDescriptor, g_fd_table' = [g_fd_table EXCEPT ![e] = f],
         f.is_open => \E d \in Fd : d # e /\ g_fd_table[d] = f
  PROVE  PS!Next
<1>1. g_fd_table \in [Fd -> FileDescriptor]
  BY DEF IInv, Sound
<1>2. \A p \in Pipe :
        /\ Readers(p)' = (Readers(p) \ {e}) \cup (IF f.is_open /\ f.node = ReadVNode(p) THEN {e} ELSE {})
        /\ Writers(p)' = (Writers(p) \ {e}) \cup (IF f.is_open /\ f.node = WriteVNode(p) THEN {e} ELSE {})
  <2>. TAKE p \in Pipe
  <2>1. Readers(p)' = Holders(g_fd_table', ReadVNode(p)) /\ Writers(p)' = Holders(g_fd_table', WriteVNode(p))
    BY DEF Readers, Writers
  <2>2. Readers(p) = Holders(g_fd_table, ReadVNode(p)) /\ Writers(p) = Holders(g_fd_table, WriteVNode(p))
    BY DEF Readers, Writers
  <2>3. \A v : Holders(g_fd_table', v) =
          (Holders(g_fd_table, v) \ {e}) \cup (IF f.is_open /\ f.node = v THEN {e} ELSE {})
    <3>1. \A d \in Fd : g_fd_table'[d] = IF d = e THEN f ELSE g_fd_table[d]
      BY <1>1
    <3>. QED
      BY <3>1 DEF Holders
  <2>. QED
    BY <2>1, <2>2, <2>3, Zenon
<1>3. \A p \in Pipe : Contents(p)' = IF Readers(p)' \cup Writers(p)' = {} THEN <<>> ELSE Contents(p)
  BY QueuesKept
<1>. DEFINE rd == {p \in Pipe : f.is_open /\ f.node = ReadVNode(p)}
            wr == {p \in Pipe : f.is_open /\ f.node = WriteVNode(p)}
<1>4. PS!Redirect(e, rd, wr)
  <2>1. \A p \in rd : Readers(p) \ {e} # {}
    BY DEF Readers, Holders
  <2>2. \A p \in wr : Writers(p) \ {e} # {}
    BY DEF Writers, Holders
  <2>3. PS!NoTransfer
    BY DEF PS!NoTransfer, Result
  <2>4. [p \in Pipe |-> Readers(p)'] =
          [p \in Pipe |-> (Readers(p) \ {e}) \cup (IF p \in rd THEN {e} ELSE {})]
    BY <1>2
  <2>5. [p \in Pipe |-> Writers(p)'] =
          [p \in Pipe |-> (Writers(p) \ {e}) \cup (IF p \in wr THEN {e} ELSE {})]
    BY <1>2
  <2>. HIDE DEF rd, wr
  <2>6. rd \subseteq Pipe /\ wr \subseteq Pipe
    BY DEF rd, wr
  <2>. QED
    BY <1>3, <2>1, <2>2, <2>3, <2>4, <2>5, <2>6 DEF PS!Redirect
<1>5. CASE \E p \in Pipe : f.is_open /\ f.node = ReadVNode(p)
  <2>1. PICK p \in Pipe : f.is_open /\ f.node = ReadVNode(p)
    BY <1>5
  <2>2. rd = {p} /\ wr = {}
    BY <2>1, VNodesDiffer
  <2>. HIDE DEF rd, wr
  <2>3. PS!DupReader(e, p)
    BY <1>4, <2>2 DEF PS!DupReader
  <2>. QED
    BY <2>3 DEF PS!Next
<1>6. CASE \E p \in Pipe : f.is_open /\ f.node = WriteVNode(p)
  <2>1. PICK p \in Pipe : f.is_open /\ f.node = WriteVNode(p)
    BY <1>6
  <2>2. rd = {} /\ wr = {p}
    BY <2>1, VNodesDiffer
  <2>. HIDE DEF rd, wr
  <2>3. PS!DupWriter(e, p)
    BY <1>4, <2>2 DEF PS!DupWriter
  <2>. QED
    BY <2>3 DEF PS!Next
<1>7. CASE ~\E p \in Pipe : f.is_open /\ (f.node = ReadVNode(p) \/ f.node = WriteVNode(p))
  <2>1. rd = {} /\ wr = {}
    BY <1>7
  <2>. HIDE DEF rd, wr
  <2>2. PS!Close(e)
    BY <1>4, <2>1 DEF PS!Close
  <2>. QED
    BY <2>2 DEF PS!Next
<1>. QED
  BY <1>5, <1>6, <1>7

\* A step that leaves everybody's ends alone and moves no bytes concerns no pipe.
LEMMA OtherStep ==
  ASSUME IInv, Rings, IInv', Kept(g_pipes, g_pipes'), ret' = Result(0, <<>>),
         \A p \in Pipe : Readers(p)' = Readers(p) /\ Writers(p)' = Writers(p)
  PROVE  PS!Next
<1>1. \A p \in Pipe : Contents(p)' = Contents(p)
  BY QueuesSame
<1>2. PS!NoTransfer
  BY DEF PS!NoTransfer, Result
<1>3. /\ [p \in Pipe |-> Readers(p)'] = [p \in Pipe |-> Readers(p)]
      /\ [p \in Pipe |-> Writers(p)'] = [p \in Pipe |-> Writers(p)]
      /\ [p \in Pipe |-> Contents(p)'] = [p \in Pipe |-> Contents(p)]
  BY <1>1
<1>4. PS!Other
  BY <1>2, <1>3 DEF PS!Other
<1>. QED
  BY <1>4 DEF PS!Next

\* A new pipe: one descriptor on each end, an empty queue.
LEMMA CreateStep ==
  ASSUME IInv, Rings, IInv', NEW flags \in PipeFlags, NEW p \in Pipe, ~g_pipes[p].in_use,
         NEW r \in Fd, NEW w \in Fd, r # w, ~g_fd_table[r].is_open, ~g_fd_table[w].is_open,
         g_pipes' = [g_pipes EXCEPT ![p] = FreshChannel(g_pipes[p])],
         g_fd_table' = [g_fd_table EXCEPT ![r] = OpenFd(ReadVNode(p), flags),
                                          ![w] = OpenFd(WriteVNode(p), {"O_WRONLY"} \cup flags)],
         ret' = Result(0, <<>>)
  PROVE  Rings' /\ PS!Next
<1>1. g_fd_table \in [Fd -> FileDescriptor] /\ g_pipes \in [Pipe -> PipeChannel]
  BY DEF IInv, Sound
<1>. DEFINE ch == FreshChannel(g_pipes[p])
<1>2. ch.head = 0 /\ ch.tail = 0 /\ ch.count = 0
  BY <1>1 DEF FreshChannel, PipeChannel
<1>3. 0 % PIPE_CAPACITY = 0
  BY SizesAssumption
<1>. HIDE DEF ch
<1>4. RingOK(ch) /\ Queue(ch) = <<>>
  BY <1>2, <1>3, EmptyQueue DEF RingOK
<1>5. \A q \in Pipe : g_pipes'[q] = IF q = p THEN ch ELSE g_pipes[q]
  BY <1>1 DEF ch
<1>6. Rings'
  BY <1>4, <1>5 DEF Rings
<1>7. \A q \in Pipe : Contents(q)' = IF q = p THEN <<>> ELSE Contents(q)
  BY <1>4, <1>5 DEF Contents, Queue
<1>8. Readers(p) = {} /\ Writers(p) = {}
  BY DEF IInv, Sound, ChannelOK, Readers, Writers
<1>9. \A q \in Pipe : {r, w} \cap (Readers(q) \cup Writers(q)) = {}
  BY DEF Readers, Writers, Holders
<1>10. \A d \in Fd : g_fd_table'[d] = IF d = w THEN OpenFd(WriteVNode(p), {"O_WRONLY"} \cup flags)
                                     ELSE IF d = r THEN OpenFd(ReadVNode(p), flags)
                                     ELSE g_fd_table[d]
  BY <1>1
<1>11. \A v : Holders(g_fd_table', v) = Holders(g_fd_table, v)
                 \cup (IF v = ReadVNode(p) THEN {r} ELSE {}) \cup (IF v = WriteVNode(p) THEN {w} ELSE {})
  <2>. DEFINE a == OpenFd(ReadVNode(p), flags)
              b == OpenFd(WriteVNode(p), {"O_WRONLY"} \cup flags)
  <2>1. a.is_open /\ a.node = ReadVNode(p) /\ b.is_open /\ b.node = WriteVNode(p)
    BY DEF OpenFd
  <2>2. \A d \in Fd : g_fd_table'[d] = IF d = w THEN b ELSE IF d = r THEN a ELSE g_fd_table[d]
    BY <1>10
  <2>. HIDE DEF a, b
  <2>. TAKE v
  <2>3. \A d \in Fd : d \in Holders(g_fd_table', v) <=>
          \/ d \in Holders(g_fd_table, v)
          \/ d = r /\ v = ReadVNode(p)
          \/ d = w /\ v = WriteVNode(p)
    <3>. TAKE d \in Fd
    <3>1. d \in Holders(g_fd_table', v) <=> g_fd_table'[d].is_open /\ g_fd_table'[d].node = v
      BY DEF Holders
    <3>2. d \in Holders(g_fd_table, v) <=> g_fd_table[d].is_open /\ g_fd_table[d].node = v
      BY DEF Holders
    <3>3. CASE d = w
      BY <2>1, <2>2, <3>1, <3>2, <3>3
    <3>4. CASE d = r
      BY <2>1, <2>2, <3>1, <3>2, <3>4
    <3>5. CASE d # w /\ d # r
      <4>1. g_fd_table'[d] = g_fd_table[d]
        BY <2>2, <3>5
      <4>. QED
        BY <3>1, <3>2, <3>5, <4>1, Zenon
    <3>. QED
      BY <3>3, <3>4, <3>5
  <2>4. Holders(g_fd_table', v) \subseteq Fd /\ Holders(g_fd_table, v) \subseteq Fd
    BY DEF Holders
  <2>. QED
    BY <2>3, <2>4
<1>12. \A q \in Pipe : /\ Readers(q)' = IF q = p THEN {r} ELSE Readers(q)
                      /\ Writers(q)' = IF q = p THEN {w} ELSE Writers(q)
  <2>. TAKE q \in Pipe
  <2>1. Readers(q)' = Holders(g_fd_table', ReadVNode(q)) /\ Writers(q)' = Holders(g_fd_table', WriteVNode(q))
    BY DEF Readers, Writers
  <2>2. /\ ReadVNode(q) # WriteVNode(p) /\ WriteVNode(q) # ReadVNode(p)
        /\ (ReadVNode(q) = ReadVNode(p) <=> q = p) /\ (WriteVNode(q) = WriteVNode(p) <=> q = p)
    BY VNodesDiffer
  <2>. QED
    BY <1>8, <1>11, <2>1, <2>2 DEF Readers, Writers
<1>13. PS!NoTransfer
  BY DEF PS!NoTransfer, Result
<1>14. /\ [q \in Pipe |-> Readers(q)'] = [[q \in Pipe |-> Readers(q)] EXCEPT ![p] = {r}]
       /\ [q \in Pipe |-> Writers(q)'] = [[q \in Pipe |-> Writers(q)] EXCEPT ![p] = {w}]
       /\ [q \in Pipe |-> Contents(q)'] = [[q \in Pipe |-> Contents(q)] EXCEPT ![p] = <<>>]
  BY <1>7, <1>12
<1>15. PS!Create(p, r, w)
  BY <1>8, <1>9, <1>13, <1>14 DEF PS!Create, PS!Ends
<1>. QED
  BY <1>6, <1>15 DEF PS!Next

\* A pipe that could not be given descriptors stays unused and empty.
LEMMA FailedCreateKept ==
  ASSUME NEW P \in [Pipe -> PipeChannel], \A q \in Pipe : RingOK(P[q]), NEW p \in Pipe,
         ~P[p].in_use, NEW ch, ~ch.in_use, ch.head = 0, ch.tail = 0, ch.count = 0
  PROVE  Kept(P, [P EXCEPT ![p] = ch])
<1>1. 0 % PIPE_CAPACITY = 0
  BY SizesAssumption
<1>2. RingOK(ch) /\ Queue(ch) = <<>>
  BY <1>1, EmptyQueue DEF RingOK
<1>3. \A q \in Pipe : RingOK(P[q]) /\ Queue(P[q]) = IF P[q].in_use THEN Queue(P[q]) ELSE <<>>
  BY SameRing
<1>4. \A q \in Pipe : [P EXCEPT ![p] = ch][q] = IF q = p THEN ch ELSE P[q]
  OBVIOUS
<1>. QED
  BY <1>2, <1>3, <1>4 DEF Kept

\* A read on a read end takes the oldest bytes, or reports end of file exactly when
\* no write end is open.
LEMMA ReadStep ==
  ASSUME IInv, Rings, NEW d \in Fd, NEW n \in 1..MaxRead, vfs_read(d, n)
  PROVE  Rings' /\ PS!Next
<1>. DEFINE p == g_fd_table[d].node[2]
            ch == g_pipes[p]
            k == MinOf(n, ch.count)
<1>1. p \in Pipe /\ g_fd_table' = g_fd_table /\ IsOpen(d)
  BY DEF vfs_read, PipeNode
<1>2. g_pipes \in [Pipe -> PipeChannel] /\ ch \in PipeChannel /\ RingOK(ch)
  BY <1>1 DEF IInv, Sound, Rings
<1>3. \A q \in Pipe : Readers(q)' = Readers(q) /\ Writers(q)' = Writers(q)
  BY <1>1 DEF Readers, Writers
<1>4. CASE g_fd_table[d].node = WriteVNode(p)
  <2>1. ret' = Result(-1, <<>>) /\ g_pipes' = g_pipes
    BY <1>1, <1>4, VNodesDiffer DEF vfs_read
  <2>2. \A q \in Pipe : Contents(q)' = Contents(q)
    BY <2>1 DEF Contents
  <2>3. PS!Refuse
    BY <1>3, <2>1, <2>2 DEF PS!Refuse, Result
  <2>. QED
    BY <2>1, <2>3 DEF PS!Next, Rings
<1>5. CASE g_fd_table[d].node = ReadVNode(p)
  <2>1. pipe_vnode_read(p, n)
    BY <1>1, <1>5, VNodesDiffer DEF vfs_read
  <2>2. Readers(p) # {} /\ ch.in_use /\ (ch.write_open <=> Writers(p) # {})
    <3>1. d \in Readers(p)
      BY <1>1, <1>5 DEF Readers, Holders, IsOpen
    <3>. QED
      BY <1>1, <3>1 DEF IInv, Sound, ChannelOK, Readers, Writers
  <2>3. Contents(p) = Queue(ch) /\ Len(Queue(ch)) = ch.count /\ Queue(ch) \in Seq(Byte)
        /\ ch.count \in Nat
    <3>1. Contents(p) = Queue(ch)
      BY DEF Contents, Queue
    <3>2. ch.count \in Nat
      BY <1>2, SizesAssumption DEF PipeChannel
    <3>. QED
      BY <1>2, <3>1, <3>2, QueueType
  <2>. HIDE DEF ch, p
  <2>4. CASE ch.count = 0
    <3>1. ret' = Result(EmptyCode(ch), <<>>) /\ g_pipes' = g_pipes
      BY <2>1, <2>4 DEF pipe_vnode_read, ch
    <3>2. \A q \in Pipe : Contents(q)' = Contents(q)
      BY <3>1 DEF Contents
    <3>3. Contents(p) = <<>> /\ SubSeq(Contents(p), 1, Len(Contents(p))) = <<>>
      BY <2>3, <2>4
    <3>4. EmptyCode(ch) = IF Writers(p) = {} THEN 0 ELSE -11
      BY <2>2 DEF EmptyCode
    <3>5. PS!Read(p, n)
      <4>1. [q \in Pipe |-> Contents(q)'] =
              [[q \in Pipe |-> Contents(q)] EXCEPT ![p] = <<>>]
        BY <1>1, <3>2, <3>3
      <4>2. SubSeq(<<>>, 0 + 1, 0) = <<>> /\ Len(<<>>) = 0 /\ ~(n < 0)
        OBVIOUS
      <4>. QED
        BY <1>1, <1>3, <2>2, <3>1, <3>3, <3>4, <4>1, <4>2 DEF PS!Read, Result
    <3>. QED
      BY <1>1, <3>1, <3>5 DEF PS!Next, Rings
  <2>5. CASE ch.count # 0
    <3>1. ret' = Result(k, Taken(ch, k)) /\ g_pipes' = [g_pipes EXCEPT ![p] = AfterTake(ch, k)]
      BY <2>1, <2>2, <2>3, <2>5 DEF pipe_vnode_read, ch
    <3>2. k \in 0..ch.count /\ k = IF n < ch.count THEN n ELSE ch.count
      BY <2>3 DEF MinOf
    <3>3. /\ RingOK(AfterTake(ch, k)) /\ Taken(ch, k) = SubSeq(Queue(ch), 1, k)
          /\ Queue(AfterTake(ch, k)) = SubSeq(Queue(ch), k + 1, Len(Queue(ch)))
      BY <1>2, <2>2, <3>2, TakeQueue
    <3>. HIDE DEF k
    <3>4. \A q \in Pipe : g_pipes'[q] = IF q = p THEN AfterTake(ch, k) ELSE g_pipes[q]
      BY <1>2, <3>1
    <3>5. Rings'
      BY <3>3, <3>4 DEF Rings
    <3>6. \A q \in Pipe : Contents(q)' =
            IF q = p THEN SubSeq(Contents(p), k + 1, Len(Contents(p))) ELSE Contents(q)
      BY <2>3, <3>3, <3>4 DEF Contents, Queue
    <3>7. Contents(p) # <<>>
      BY <2>3, <2>5
    <3>8. [q \in Pipe |-> Contents(q)'] =
            [[q \in Pipe |-> Contents(q)] EXCEPT ![p] = SubSeq(@, k + 1, Len(@))]
      BY <1>1, <3>6
    <3>9. PS!Read(p, n)
      BY <1>1, <1>3, <2>2, <2>3, <3>1, <3>2, <3>3, <3>7, <3>8, ZenonT(60) DEF PS!Read, Result
    <3>. QED
      BY <1>1, <3>5, <3>9 DEF PS!Next
  <2>. QED
    BY <2>4, <2>5
<1>. QED
  BY <1>4, <1>5 DEF vfs_read

\* A write on a write end appends what fits, or reports a broken pipe exactly when
\* no read end is open.
LEMMA WriteStep ==
  ASSUME IInv, Rings, NEW d \in Fd, NEW bs \in Payloads, vfs_write(d, bs)
  PROVE  Rings' /\ PS!Next
<1>. DEFINE p == g_fd_table[d].node[2]
            ch == g_pipes[p]
            k == MinOf(Len(bs), PIPE_CAPACITY - ch.count)
<1>1. p \in Pipe /\ g_fd_table' = g_fd_table /\ IsOpen(d)
  BY DEF vfs_write, PipeNode
<1>2. g_pipes \in [Pipe -> PipeChannel] /\ ch \in PipeChannel /\ RingOK(ch)
  BY <1>1 DEF IInv, Sound, Rings
<1>3. \A q \in Pipe : Readers(q)' = Readers(q) /\ Writers(q)' = Writers(q)
  BY <1>1 DEF Readers, Writers
<1>4. CASE g_fd_table[d].node = ReadVNode(p)
  <2>1. ret' = Result(-1, <<>>) /\ g_pipes' = g_pipes
    BY <1>1, <1>4, VNodesDiffer DEF vfs_write
  <2>2. \A q \in Pipe : Contents(q)' = Contents(q)
    BY <2>1 DEF Contents
  <2>3. PS!Refuse
    BY <1>3, <2>1, <2>2 DEF PS!Refuse, Result
  <2>. QED
    BY <2>1, <2>3 DEF PS!Next, Rings
<1>5. CASE g_fd_table[d].node = WriteVNode(p)
  <2>1. pipe_vnode_write(p, bs)
    BY <1>1, <1>5, VNodesDiffer DEF vfs_write
  <2>2. Writers(p) # {} /\ ch.in_use /\ (ch.read_open <=> Readers(p) # {})
    <3>1. d \in Writers(p)
      BY <1>1, <1>5 DEF Writers, Holders, IsOpen
    <3>. QED
      BY <1>1, <3>1 DEF IInv, Sound, ChannelOK, Readers, Writers
  <2>3. Contents(p) = Queue(ch) /\ Len(Queue(ch)) = ch.count /\ Queue(ch) \in Seq(Byte)
        /\ ch.count \in 0..PIPE_CAPACITY
    <3>1. Contents(p) = Queue(ch)
      BY DEF Contents, Queue
    <3>2. ch.count \in 0..PIPE_CAPACITY
      BY <1>2 DEF PipeChannel
    <3>. QED
      BY <1>2, <3>1, <3>2, QueueType
  <2>. HIDE DEF ch, p
  <2>4. CASE ~ch.read_open
    <3>1. ret' = Result(-32, <<>>) /\ g_pipes' = g_pipes
      BY <2>1, <2>2, <2>4 DEF pipe_vnode_write, ch
    <3>2. \A q \in Pipe : Contents(q)' = Contents(q)
      BY <3>1 DEF Contents
    <3>3. PS!Write(p, bs)
      BY <1>1, <1>3, <2>2, <2>4, <3>1, <3>2 DEF PS!Write, Result
    <3>. QED
      BY <1>1, <3>1, <3>3 DEF PS!Next, Rings
  <2>5. CASE ch.read_open
    <3>1. ret' = Result(k, <<>>) /\ g_pipes' = [g_pipes EXCEPT ![p] = AfterPut(ch, bs, k)]
      BY <2>1, <2>2, <2>5 DEF pipe_vnode_write, ch
    <3>2. /\ bs \in Seq(Byte) /\ k \in 0..Len(bs) /\ k <= PIPE_CAPACITY - ch.count
          /\ k = IF Len(bs) < PIPE_CAPACITY - ch.count THEN Len(bs) ELSE PIPE_CAPACITY - ch.count
      <4>1. bs \in Seq(Byte) /\ Len(bs) \in Nat
        BY InputsAssumption
      <4>. QED
        BY <2>3, <4>1, SizesAssumption DEF MinOf
    <3>3. /\ RingOK(AfterPut(ch, bs, k))
          /\ Queue(AfterPut(ch, bs, k)) = Queue(ch) \o SubSeq(bs, 1, k)
      BY <1>2, <2>2, <3>2, PutQueue
    <3>. HIDE DEF k
    <3>4. \A q \in Pipe : g_pipes'[q] = IF q = p THEN AfterPut(ch, bs, k) ELSE g_pipes[q]
      BY <1>2, <3>1
    <3>5. Rings'
      BY <3>3, <3>4 DEF Rings
    <3>6. \A q \in Pipe : Contents(q)' =
            IF q = p THEN Contents(p) \o SubSeq(bs, 1, k) ELSE Contents(q)
      BY <2>3, <3>3, <3>4 DEF Contents, Queue
    <3>7. [q \in Pipe |-> Contents(q)'] =
            [[q \in Pipe |-> Contents(q)] EXCEPT ![p] = @ \o SubSeq(bs, 1, k)]
      BY <1>1, <3>6
    <3>8. Readers(p) # {}
      BY <2>2, <2>5
    <3>9. PS!Write(p, bs)
      BY <1>1, <1>3, <2>2, <2>3, <3>1, <3>2, <3>7, <3>8 DEF PS!Write, Result
    <3>. QED
      BY <1>1, <3>5, <3>9 DEF PS!Next
  <2>. QED
    BY <2>4, <2>5
<1>. QED
  BY <1>4, <1>5 DEF vfs_write

\* Copying a descriptor over another one, open or not.
LEMMA DupStep ==
  ASSUME IInv, Rings, IInv', NEW d \in Fd, NEW e \in Fd, d # e, g_fd_table[d].is_open,
         NEW P1 \in [Pipe -> PipeChannel], Kept(g_pipes, P1),
         g_fd_table' = [g_fd_table EXCEPT ![e] = g_fd_table[d]],
         g_pipes' = RetainPipe(P1, g_fd_table[d]), ret' = Result(0, <<>>)
  PROVE  Rings' /\ PS!Next
<1>1. Kept(g_pipes, g_pipes')
  BY RetainKept
<1>2. g_fd_table[d] \in FileDescriptor
  BY DEF IInv, Sound
<1>3. PS!Next
  BY <1>1, <1>2, MoveStep
<1>. QED
  BY <1>1, <1>3 DEF Kept, Rings

\* vfs_close, and a step of the sweep that closes.
LEMMA CloseStep ==
  ASSUME IInv, Rings, IInv', NEW d \in Fd, CloseFd(d), ret' = Result(0, <<>>)
  PROVE  Rings' /\ PS!Next
<1>1. g_pipes \in [Pipe -> PipeChannel]
  BY DEF IInv, Sound
<1>2. Kept(g_pipes, g_pipes')
  BY <1>1, ReleaseKept DEF CloseFd, Rings
<1>3. ClosedFd \in FileDescriptor /\ ~ClosedFd.is_open
  BY DEF ClosedFd, FileDescriptor, Node
<1>4. PS!Next
  BY <1>2, <1>3, MoveStep DEF CloseFd
<1>. QED
  BY <1>2, <1>4 DEF Kept, Rings

\* pipe2, with descriptors for both ends, for one or for none.
LEMMA PipeCreateStep ==
  ASSUME IInv, Rings, IInv', NEW flags \in PipeFlags, pipe_create(flags)
  PROVE  Rings' /\ PS!Next
<1>. DEFINE unused == {q \in Pipe : ~g_pipes[q].in_use}
            p      == Lowest(unused)
            fresh  == FreshChannel(g_pipes[p])
            free   == FreeFrom(FirstFd)
            rfd    == Lowest(free)
            wfd    == Lowest(free \ {rfd})
<1>1. p \in Pipe /\ ~g_pipes[p].in_use
  BY LowestIn, SizesAssumption DEF pipe_create, Pipe
<1>2. /\ g_pipes \in [Pipe -> PipeChannel] /\ g_pipes[p] \in PipeChannel
      /\ g_fd_table \in [Fd -> FileDescriptor]
  BY <1>1 DEF IInv, Sound
<1>3. free \in SUBSET Nat /\ free \subseteq Fd /\ \A d \in free : ~g_fd_table[d].is_open
  BY SizesAssumption DEF FreeFrom, Fd, IsOpen
<1>4. ret' = Result(0, <<>>)
  BY DEF pipe_create, NoTransfer
<1>5. /\ fresh.head = 0 /\ fresh.tail = 0 /\ fresh.count = 0 /\ fresh.in_use
      /\ fresh.ref_read = 1 /\ fresh.ref_write = 1 /\ DOMAIN fresh = DOMAIN g_pipes[p]
  BY <1>2 DEF FreshChannel, PipeChannel
<1>6. CASE free = {}
  <2>1. /\ g_pipes' = [g_pipes EXCEPT ![p] = [fresh EXCEPT !.in_use = FALSE]]
        /\ g_fd_table' = g_fd_table
    BY <1>6 DEF pipe_create
  <2>. HIDE DEF fresh, p
  <2>. DEFINE ch == [fresh EXCEPT !.in_use = FALSE]
  <2>2. ~ch.in_use /\ ch.head = 0 /\ ch.tail = 0 /\ ch.count = 0
    BY <1>2, <1>5 DEF PipeChannel
  <2>. HIDE DEF ch
  <2>3. Kept(g_pipes, g_pipes')
    BY <1>1, <1>2, <2>1, <2>2, FailedCreateKept DEF Rings, ch
  <2>4. \A q \in Pipe : Readers(q)' = Readers(q) /\ Writers(q)' = Writers(q)
    BY <2>1 DEF Readers, Writers
  <2>. QED
    BY <1>4, <2>3, <2>4, OtherStep DEF Kept, Rings
<1>7. CASE free # {} /\ free \ {rfd} = {}
  <2>. DEFINE c == pipe_vnode_close(fresh, FALSE)
              ch == [c EXCEPT !.in_use = FALSE]
  <2>1. g_pipes' = [g_pipes EXCEPT ![p] = ch] /\ g_fd_table' = [g_fd_table EXCEPT ![rfd] = ClosedFd]
    BY <1>7 DEF pipe_create
  <2>2. rfd \in Fd /\ ~g_fd_table[rfd].is_open
    BY <1>3, <1>7, LowestIn
  <2>3. ~ch.in_use /\ ch.head = 0 /\ ch.tail = 0 /\ ch.count = 0
    <3>1. c = [fresh EXCEPT !.ref_read = 0, !.read_open = FALSE]
      <4>. HIDE DEF fresh
      <4>. DEFINE c1 == [fresh EXCEPT !.ref_read = 0, !.read_open = FALSE]
      <4>1. DropReader(fresh) = c1
        <5>1. Decr(fresh.ref_read) = 0 /\ (fresh.read_open /\ 0 # 0) = FALSE
          BY <1>5 DEF Decr
        <5>. QED
          BY <5>1 DEF DropReader
      <4>2. c1.ref_write = 1
        BY <1>2, <1>5 DEF PipeChannel
      <4>. HIDE DEF c1
      <4>3. Reclaim(c1) = c1
        BY <4>2 DEF Reclaim
      <4>. QED
        BY <1>5, <4>1, <4>3 DEF pipe_vnode_close, c1
    <3>. HIDE DEF fresh, c
    <3>. QED
      BY <1>2, <1>5, <3>1 DEF PipeChannel
  <2>. HIDE DEF fresh, p, c, ch, rfd
  <2>4. Kept(g_pipes, g_pipes')
    BY <1>1, <1>2, <2>1, <2>3, FailedCreateKept DEF Rings
  <2>5. \A v : Holders(g_fd_table', v) = Holders(g_fd_table, v)
    <3>1. \A d \in Fd : g_fd_table'[d] = IF d = rfd THEN ClosedFd ELSE g_fd_table[d]
      BY <1>2, <2>1
    <3>2. ~ClosedFd.is_open
      BY DEF ClosedFd
    <3>. QED
      BY <2>2, <3>1, <3>2 DEF Holders
  <2>6. \A q \in Pipe : Readers(q)' = Readers(q) /\ Writers(q)' = Writers(q)
    BY <2>5 DEF Readers, Writers
  <2>. QED
    BY <1>4, <2>4, <2>6, OtherStep DEF Kept, Rings
<1>8. CASE free # {} /\ free \ {rfd} # {}
  <2>1. /\ g_pipes' = [g_pipes EXCEPT ![p] = fresh]
        /\ g_fd_table' = [g_fd_table EXCEPT
                            ![rfd] = OpenFd(ReadVNode(p), flags),
                            ![wfd] = OpenFd(WriteVNode(p), {"O_WRONLY"} \cup flags)]
    BY <1>8 DEF pipe_create
  <2>2. rfd \in free
    BY <1>3, <1>8, LowestIn
  <2>3. wfd \in free \ {rfd}
    BY <1>3, <1>8, LowestIn
  <2>4. rfd \in Fd /\ wfd \in Fd /\ rfd # wfd
        /\ ~g_fd_table[rfd].is_open /\ ~g_fd_table[wfd].is_open
    BY <1>3, <2>2, <2>3
  <2>. HIDE DEF p, rfd, wfd, free
  <2>. QED
    BY <1>1, <1>4, <2>1, <2>4, CreateStep
<1>. QED
  BY <1>6, <1>7, <1>8

\* Every step is a step of PipeSpec or changes nothing it shows.
LEMMA PipeStep == IInv /\ Rings /\ [Next]_vars /\ IInv' => Rings' /\ [PS!Next]_(PS!vars)
<1>. SUFFICES ASSUME IInv, Rings, [Next]_vars, IInv'
              PROVE  Rings' /\ [PS!Next]_(PS!vars)
  OBVIOUS
<1>1. /\ g_fd_table \in [Fd -> FileDescriptor] /\ g_pipes \in [Pipe -> PipeChannel]
      /\ Kept(g_pipes, g_pipes)
  BY KeptSame DEF IInv, Sound, Rings
<1>2. \A start : FreeFrom(start) \in SUBSET Nat /\ FreeFrom(start) \subseteq Fd
                /\ \A d \in FreeFrom(start) : ~g_fd_table[d].is_open
  BY SizesAssumption DEF FreeFrom, Fd, IsOpen
<1>3. ASSUME g_pipes' = g_pipes, ret' = Result(0, <<>>),
             \A v \in PipeNode : Holders(g_fd_table', v) = Holders(g_fd_table, v)
      PROVE  Rings' /\ PS!Next
  <2>1. \A p \in Pipe : Readers(p)' = Readers(p) /\ Writers(p)' = Writers(p)
    BY <1>3, VNodesDiffer DEF Readers, Writers
  <2>2. PS!Next
    BY <1>1, <1>3, <2>1, OtherStep
  <2>. QED
    BY <1>3, <2>2 DEF Rings
<1>4. ASSUME NEW f \in Files, NEW flags \in OpenFlags, vfs_open(f, flags)
      PROVE  Rings' /\ PS!Next
  <2>. DEFINE e == Lowest(FreeFrom(FirstFd))
              g == OpenFd(f, flags)
  <2>1. e \in Fd /\ ~g_fd_table[e].is_open
    BY <1>2, <1>4, LowestIn DEF vfs_open
  <2>2. g_fd_table' = [g_fd_table EXCEPT ![e] = g] /\ g_pipes' = g_pipes /\ ret' = Result(0, <<>>)
    BY <1>4 DEF vfs_open, NoTransfer
  <2>3. g.node \notin PipeNode
    BY NodesAssumption DEF OpenFd
  <2>. HIDE DEF e, g
  <2>4. \A d \in Fd : g_fd_table'[d] = IF d = e THEN g ELSE g_fd_table[d]
    BY <1>1, <2>1, <2>2
  <2>5. \A v \in PipeNode : Holders(g_fd_table', v) = Holders(g_fd_table, v)
    BY <2>1, <2>3, <2>4 DEF Holders
  <2>. QED
    BY <1>3, <2>2, <2>5
<1>5. ASSUME NEW d \in Fd, vfs_close(d)
      PROVE  Rings' /\ PS!Next
  BY <1>5, CloseStep DEF vfs_close, NoTransfer
<1>6. ASSUME NEW d \in Fd, vfs_dup(d)
      PROVE  Rings' /\ PS!Next
  <2>. DEFINE e == Lowest(FreeFrom(0))
  <2>1. e \in Fd /\ ~g_fd_table[e].is_open
    BY <1>2, <1>6, LowestIn DEF vfs_dup
  <2>2. /\ g_fd_table[d].is_open /\ ret' = Result(0, <<>>)
        /\ g_fd_table' = [g_fd_table EXCEPT ![e] = g_fd_table[d]]
        /\ g_pipes' = RetainPipe(g_pipes, g_fd_table[d])
    BY <1>6 DEF vfs_dup, NoTransfer, IsOpen
  <2>. HIDE DEF e
  <2>3. d # e
    BY <2>1, <2>2
  <2>. QED
    BY <1>1, <2>1, <2>2, <2>3, DupStep
<1>7. ASSUME NEW d \in Fd, NEW e \in Fd, d # e, IsOpen(d), Dup2Onto(d, e)
      PROVE  Rings' /\ PS!Next
  <2>. DEFINE closed == IF IsOpen(e) THEN ReleasePipe(g_pipes, g_fd_table[e]) ELSE g_pipes
  <2>1. /\ g_fd_table' = [g_fd_table EXCEPT ![e] = g_fd_table[d]] /\ ret' = Result(0, <<>>)
        /\ g_pipes' = RetainPipe(closed, g_fd_table[d]) /\ g_fd_table[d].is_open
    BY <1>7 DEF Dup2Onto, NoTransfer, IsOpen
  <2>2. closed \in [Pipe -> PipeChannel]
    BY <1>1, CloseSound DEF IInv, Sound, IsOpen
  <2>3. Kept(g_pipes, closed)
    BY <1>1, ReleaseKept DEF Rings
  <2>. HIDE DEF closed
  <2>. QED
    BY <1>7, <2>1, <2>2, <2>3, DupStep
<1>8. ASSUME NEW d \in Fd, NEW e \in Fd, vfs_dup2(d, e)
      PROVE  Rings' /\ PS!Next
  BY <1>7, <1>8 DEF vfs_dup2
<1>9. ASSUME NEW d \in Fd, NEW start \in Fd, fcntl_dupfd(d, start)
      PROVE  Rings' /\ PS!Next
  <2>. DEFINE e == Lowest(FreeFrom(start))
  <2>1. e \in Fd /\ ~g_fd_table[e].is_open
    BY <1>2, <1>9, LowestIn DEF fcntl_dupfd
  <2>2. IsOpen(d) /\ Dup2Onto(d, e)
    BY <1>9 DEF fcntl_dupfd
  <2>. HIDE DEF e
  <2>3. d # e
    BY <2>1, <2>2 DEF IsOpen
  <2>. QED
    BY <1>7, <2>1, <2>2, <2>3
<1>10. ASSUME NEW d \in Fd, NEW flags, SetFlags(d, flags)
       PROVE  Rings' /\ PS!Next
  <2>1. /\ g_fd_table' = [g_fd_table EXCEPT ![d].flags = flags] /\ g_pipes' = g_pipes
        /\ ret' = Result(0, <<>>)
    BY <1>10 DEF SetFlags, NoTransfer
  <2>2. \A c \in Fd : g_fd_table'[c].is_open = g_fd_table[c].is_open
                     /\ g_fd_table'[c].node = g_fd_table[c].node
    BY <1>1, <2>1 DEF FileDescriptor
  <2>3. \A v \in PipeNode : Holders(g_fd_table', v) = Holders(g_fd_table, v)
    BY <2>2, Zenon DEF Holders
  <2>. QED
    BY <1>3, <2>1, <2>3
<1>11. ASSUME NEW d \in Fd, NEW on \in SetfdArgs, fcntl_setfd(d, on)
       PROVE  Rings' /\ PS!Next
  BY <1>10, <1>11, Zenon DEF fcntl_setfd
<1>12. ASSUME NEW d \in Fd, NEW arg \in SetflArgs, fcntl_setfl(d, arg)
       PROVE  Rings' /\ PS!Next
  BY <1>10, <1>12, Zenon DEF fcntl_setfl
<1>13. ASSUME NEW flags \in PipeFlags, pipe_create(flags)
       PROVE  Rings' /\ PS!Next
  BY <1>13, PipeCreateStep
<1>14. ASSUME NEW d \in Fd, NEW n \in 1..MaxRead, vfs_read(d, n)
       PROVE  Rings' /\ PS!Next
  BY <1>14, ReadStep
<1>15. ASSUME NEW d \in Fd, NEW bs \in Payloads, vfs_write(d, bs)
       PROVE  Rings' /\ PS!Next
  BY <1>15, WriteStep
<1>16. CASE execve_begin \/ execve_run
  BY <1>3, <1>16 DEF execve_begin, execve_run, NoTransfer
<1>17. CASE execve_sweep
  <2>1. sweep \in Fd /\ ret' = Result(0, <<>>)
    BY <1>17, SizesAssumption DEF execve_sweep, Fd, NoTransfer
  <2>2. CASE CloseFd(sweep)
    BY <2>1, <2>2, CloseStep
  <2>3. CASE UNCHANGED <<g_fd_table, g_pipes>>
    BY <1>3, <2>1, <2>3
  <2>. QED
    BY <1>17, <2>2, <2>3 DEF execve_sweep
<1>18. CASE UNCHANGED vars
  <2>1. g_pipes' = g_pipes /\ g_fd_table' = g_fd_table /\ ret' = ret
    BY <1>18 DEF vars
  <2>2. \A p \in Pipe : Readers(p)' = Readers(p) /\ Writers(p)' = Writers(p) /\ Contents(p)' = Contents(p)
    BY <2>1 DEF Readers, Writers, Contents
  <2>3. UNCHANGED PS!vars
    BY <2>1, <2>2 DEF PS!vars
  <2>. QED
    BY <2>1, <2>3 DEF Rings
<1>. QED
  BY <1>4, <1>5, <1>6, <1>8, <1>9, <1>11, <1>12, <1>13, <1>14, <1>15, <1>16, <1>17, <1>18 DEF Next

\* vfs_init and pipe_init: no pipe is held, every ring is empty.
LEMMA PipeInit == Init => Rings /\ PS!Init
<1>. SUFFICES ASSUME Init PROVE Rings /\ PS!Init
  OBVIOUS
<1>1. \A p \in Pipe : /\ g_pipes[p].head = 0 /\ g_pipes[p].tail = 0 /\ g_pipes[p].count = 0
                     /\ ~g_pipes[p].in_use
  BY DEF Init
<1>2. 0 % PIPE_CAPACITY = 0
  BY SizesAssumption
<1>3. Rings
  BY <1>1, <1>2 DEF Rings, RingOK
<1>4. \A p \in Pipe : Contents(p) = <<>>
  BY <1>1, EmptyQueue DEF Contents, Queue
<1>5. \A p \in Pipe : Readers(p) = {} /\ Writers(p) = {}
  BY <1>1, InitSound DEF IInv, Sound, ChannelOK, Readers, Writers
<1>6. ret = [code |-> 0, data |-> <<>>]
  BY DEF Init, Result
<1>. QED
  BY <1>3, <1>4, <1>5, <1>6 DEF PS!Init

\* The descriptor table and the ring channels implement pipes: bytes come out in
\* the order they went in and are lost only with the last descriptor of their pipe,
\* and end of file, try again and broken pipe are reported exactly when the
\* descriptors of the other end say so.
THEOREM PipesImplemented == Spec => ImplementsPipes
<1>1. Spec => [](IInv /\ Rings)
  BY InitSound, PipeInit, StepSound, PipeStep, PTL DEF Spec
<1>2. Spec => PS!Init
  BY PipeInit DEF Spec
<1>3. IInv /\ Rings /\ [Next]_vars /\ IInv' => [PS!Next]_(PS!vars)
  BY PipeStep
<1>. QED
  BY <1>1, <1>2, <1>3, PTL DEF Spec, ImplementsPipes, PS!Spec

=============================================================================
