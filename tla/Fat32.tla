------------------------------- MODULE Fat32 -------------------------------
(***************************************************************************)
(* Files and directories on disk: kernel/fs/fat32.cpp under the open,      *)
(* write, mkdir and remove calls of kernel/fs/vfs.cpp.                     *)
(*                                                                         *)
(* A call reads the disk and settles which sectors it writes in which      *)
(* order (todo).  The writes reach the disk one by one, and the power may  *)
(* fail between any two of them: what is left is what was on the disk.     *)
(* Nobody else writes while a call is under way.                           *)
(*                                                                         *)
(* A cluster is one sector of PerCluster slots: directory entries, or as   *)
(* many pieces of a file.  What the pieces say is left out, and so are     *)
(* disk errors, long names and the second copy of the allocation table,    *)
(* which the code never reads.  Names are ones that 8.3 leaves as they     *)
(* are, and the table has no entries but those of the clusters.            *)
(***************************************************************************)
EXTENDS Integers, Sequences, FiniteSets

CONSTANTS
  Name,         \* names callers use
  Paths,        \* paths callers use
  DirPaths,     \* those they make directories at
  LastCluster,  \* clusters are 2..LastCluster; 2 is the root directory's
  PerCluster,   \* slots in a cluster
  MAX_OPEN,     \* descriptors
  MaxSize,      \* bound on the size of files
  MaxWrite,     \* bound on the pieces of one write
  Foreign,      \* files without clusters, which another system has put there
  Shared,       \* names of files that several descriptors may have open
  CrashIn,      \* kinds of calls in which the power may fail
  RemoveOpen    \* whether what descriptors have open is removed

Cluster == 2..LastCluster
FREE == 0
EOC == 1
Ends(c) == c \notin Cluster
Index == 1..PerCluster
Fd == 1..MAX_OPEN
Kind == {"idle", "open", "mkdir", "grow", "write", "remove"}

\* A slot: a directory entry, or a piece of a file.  "" is a first byte of 0,
\* "E5" a deleted entry.
Marks == {"", "E5", ".", "..", "data"}

ASSUME Fat32Assumption ==
  /\ LastCluster \in Nat /\ LastCluster >= 2
  /\ PerCluster \in Nat /\ PerCluster >= 2
  /\ MAX_OPEN \in Nat /\ MaxSize \in Nat /\ MaxWrite \in Nat
  /\ Name \cap Marks = {}
  /\ \A p \in Paths : p \in Name \X Name \/ \E n \in Name : p = <<n>>
  /\ DirPaths \subseteq Paths
  /\ Foreign \subseteq Name /\ Cardinality(Foreign) <= PerCluster
  /\ Shared \subseteq Name
  /\ CrashIn \subseteq Kind /\ RemoveOpen \in BOOLEAN

Slot ==
  [name : Name \cup Marks, dir : BOOLEAN, first : Cluster \cup {0}, size : 0..MaxSize]
Zero == [name |-> "", dir |-> FALSE, first |-> 0, size |-> 0]
Data == [Zero EXCEPT !.name = "data"]
DirEntry(name, first) == [Zero EXCEPT !.name = name, !.dir = TRUE, !.first = first]

\* The writes: of an entry of the allocation table, of some slots of a cluster,
\* and of the first cluster or the size in a slot.
PutFat(c, next) == [at |-> "fat", cluster |-> c, next |-> next]
PutSlots(c, slots) == [at |-> "slots", cluster |-> c, slots |-> slots]
PutField(p, field, value) ==
  [at |-> field, cluster |-> p.cluster, slot |-> p.slot, value |-> value]

Write ==
  [at : {"fat"}, cluster : Cluster, next : Cluster \cup {FREE, EOC}]
    \cup [at : {"slots"}, cluster : Cluster, slots : UNION {[I -> Slot] : I \in SUBSET Index}]
    \cup [at : {"first", "size"}, cluster : Cluster, slot : Index, value : Nat]

VARIABLES
  fat,   \* on disk: cluster -> FREE, EOC or the next cluster
  disk,  \* on disk: cluster -> its slots
  node,  \* in memory: descriptor -> the VNode and FatNodeData it has open
  todo,  \* the writes the call under way has still to do
  call   \* the kind of that call

vars == <<fat, disk, node, todo, call>>

FatNode ==
  [is_open : BOOLEAN, dir : BOOLEAN, size : 0..MaxSize, first : Cluster \cup {0},
   cluster : Cluster \cup {0}, slot : Index]
ClosedNode ==
  [is_open |-> FALSE, dir |-> FALSE, size |-> 0, first |-> 0, cluster |-> 0, slot |-> 1]

-----------------------------------------------------------------------------
(* Chains and directories.  A place is a cluster and a slot in it.         *)

Last(s) == s[Len(s)]
Lowest(S) == CHOOSE n \in S : \A m \in S : n <= m

\* The clusters from c on that the code goes through under table T.  A chain that
\* comes back to itself shows as one longer than there are clusters.
Onward(T, w) == IF w = <<>> \/ Ends(T[Last(w)]) THEN w ELSE Append(w, T[Last(w)])
Walk(T, c) ==
  LET walk[k \in 0..LastCluster] ==
        IF k = 0 THEN IF Ends(c) THEN <<>> ELSE <<c>> ELSE Onward(T, walk[k - 1])
  IN  walk
Chain(T, c) == Walk(T, c)[LastCluster]

On(s) == {s[i] : i \in 1..Len(s)}

\* The slots of the directory that starts at c, in order.
Places(c) ==
  LET cs == Chain(fat, c)
  IN  [k \in 1..(Len(cs) * PerCluster) |->
        [cluster |-> cs[((k - 1) \div PerCluster) + 1], slot |-> ((k - 1) % PerCluster) + 1]]
At(p) == disk[p.cluster][p.slot]

\* Those before the first whose name starts with 0, where every search ends.
Visible(c) ==
  LET ps == Places(c)
  IN  {k \in 1..Len(ps) : \A j \in 1..k : At(ps[j]).name # ""}

NoPlace == [cluster |-> 0, slot |-> 1]

fat32_vnode_lookup(c, name) ==
  LET found == {k \in Visible(c) : At(Places(c)[k]).name = name}
  IN  IF found = {} THEN NoPlace ELSE Places(c)[Lowest(found)]

\* The first cluster of the directory a path's last name is in; 0 if there is none.
Parent(path) ==
  IF Len(path) = 1 THEN 2
  ELSE LET p == fat32_vnode_lookup(2, path[1])
       IN  IF p = NoPlace \/ ~At(p).dir THEN 0 ELSE At(p).first
Resolve(path) ==
  IF Parent(path) = 0 THEN NoPlace ELSE fat32_vnode_lookup(Parent(path), Last(path))

-----------------------------------------------------------------------------
(* Plans: the table as a call will leave it, the writes, the cluster the   *)
(* call has come to (0 if there was none left), and the pieces written.    *)

Plan(c) == [fat |-> fat, todo |-> <<>>, at |-> c, done |-> 0]
Do(plan, w) == [plan EXCEPT !.todo = Append(@, w)]

FreeClusters(plan) == {c \in Cluster : plan.fat[c] = FREE}
\* The lowest free cluster becomes the next of prev, by these writes.
Taken(plan, prev, writes) ==
  LET c == Lowest(FreeClusters(plan))
      marked == [plan.fat EXCEPT ![c] = EOC]
  IN  [plan EXCEPT !.fat = IF prev = 0 THEN marked ELSE [marked EXCEPT ![prev] = c],
                   !.todo = @ \o writes, !.at = c]
Mark(c) == <<PutFat(c, EOC)>>
Link(prev, c) == IF prev = 0 THEN <<>> ELSE <<PutFat(prev, c)>>
Clear(c) == <<PutSlots(c, [i \in Index |-> Zero])>>

\* Faulty variant: the new cluster is linked before it is marked.
AllocateLinkFirst(plan, prev) ==
  LET c == Lowest(FreeClusters(plan))
  IN  IF FreeClusters(plan) = {} THEN [plan EXCEPT !.at = 0]
      ELSE Taken(plan, prev, Link(prev, c) \o Mark(c) \o Clear(c))

\* Faulty variant: the new cluster keeps what it held.
AllocateUncleared(plan, prev) ==
  LET c == Lowest(FreeClusters(plan))
  IN  IF FreeClusters(plan) = {} THEN [plan EXCEPT !.at = 0]
      ELSE Taken(plan, prev, Mark(c) \o Link(prev, c))

fat32_allocate_cluster(plan, prev) ==
  LET c == Lowest(FreeClusters(plan))
  IN  IF FreeClusters(plan) = {} THEN [plan EXCEPT !.at = 0]
      ELSE Taken(plan, prev, Mark(c) \o Link(prev, c) \o Clear(c))

\* To the next cluster of a chain, which is added if there is none.
Forward(plan) ==
  IF plan.at = 0 THEN plan
  ELSE IF Ends(plan.fat[plan.at]) THEN fat32_allocate_cluster(plan, plan.at)
  ELSE [plan EXCEPT !.at = plan.fat[plan.at]]

\* From the first cluster on.
fat32_free_cluster_chain(c) ==
  LET cs == Chain(fat, c) IN [i \in 1..Len(cs) |-> PutFat(cs[i], FREE)]

\* A cluster for the new file, then the first slot that is free, in a new cluster
\* of the directory if there is none.  When that fails the first is not given back.
fat32_vnode_create(parent, name, isdir) ==
  LET made == fat32_allocate_cluster(Plan(0), 0)
      new == made.at
      ps == Places(parent)
      open == {k \in 1..Len(ps) : At(ps[k]).name \in {"", "E5"}}
      room == IF new = 0 \/ open # {} THEN made
              ELSE fat32_allocate_cluster(made, Last(Chain(fat, parent)))
      p == IF open # {} THEN ps[Lowest(open)] ELSE [cluster |-> room.at, slot |-> 1]
      entry == [name |-> name, dir |-> isdir, first |-> new, size |-> 0]
      dots == [i \in Index |-> IF i = 1 THEN DirEntry(".", new)
                               ELSE IF i = 2 THEN DirEntry("..", parent) ELSE Zero]
      listed == Do(room, PutSlots(p.cluster, [i \in {p.slot} |-> entry]))
  IN  [ok |-> new # 0 /\ room.at # 0,
       place |-> p,
       first |-> new,
       grows |-> open = {},
       plan |-> IF new = 0 \/ room.at = 0 THEN room
                ELSE IF isdir THEN Do(listed, PutSlots(new, dots)) ELSE listed]

\* The first cluster of a file that has none is noted in its entry.
WithFirst(p, first) ==
  LET made == fat32_allocate_cluster(Plan(0), 0)
  IN  IF first # 0 THEN Plan(first)
      ELSE IF made.at = 0 THEN made
      ELSE Do(made, PutField(p, "first", made.at))

\* Faulty variant: the size is written before the data.
SizedFirst(plan, n, end) ==
  IF end > n.size THEN [plan EXCEPT !.todo = <<PutField(n, "size", end)>> \o @] ELSE plan

Sized(plan, n, end) ==
  IF end > n.size THEN Do(plan, PutField(n, "size", end)) ELSE plan

\* n clusters further.
Way(plan, n) ==
  LET way[k \in 0..n] == IF k = 0 THEN plan ELSE Forward(way[k - 1])
  IN  way

\* The slots that len pieces from offset on take in the k-th cluster after the
\* one of the offset.
Here(offset, len, k) ==
  {i \in Index : (offset \div PerCluster + k) * PerCluster + i - 1 \in offset..(offset + len - 1)}
PutHere(plan, slots) ==
  IF plan.at = 0 THEN plan
  ELSE [Do(plan, PutSlots(plan.at, [i \in Index |-> Data])) EXCEPT !.done = @ + Cardinality(slots)]
Pieces(plan, offset, len) ==
  LET put[k \in 0..len] ==
        IF k = 0 THEN PutHere(plan, Here(offset, len, 0))
        ELSE IF Here(offset, len, k) = {} THEN put[k - 1]
        ELSE PutHere(Forward(put[k - 1]), Here(offset, len, k))
  IN  put

\* fat32_vnode_write of len > 0 pieces: the way to the offset, the pieces cluster
\* by cluster as long as there are clusters, and last the size.
Written(n, offset, len) ==
  LET begun == WithFirst(n, n.first)
      skip == offset \div PerCluster
      plan == Pieces(Way(begun, skip)[skip], offset, len)[len]
  IN  [first |-> begun.at,
       end |-> offset + plan.done,
       plan |-> IF plan.done = 0 THEN plan ELSE Sized(plan, n, offset + plan.done)]

-----------------------------------------------------------------------------
(* Calls.                                                                  *)

Idle == todo = <<>>
Begin(kind, writes) ==
  /\ todo' = writes
  /\ call' = IF writes = <<>> THEN "idle" ELSE kind
  /\ UNCHANGED <<fat, disk>>

Closed == {d \in Fd : ~node[d].is_open}
\* vfs_alloc_fd: none is taken if all are open.
Open(n) == node' = IF Closed = {} THEN node ELSE [node EXCEPT ![Lowest(Closed)] = n]

\* Descriptors with something open at a place, or in the directory there.
InUse(p) ==
  \E d \in Fd :
    /\ node[d].is_open
    /\ \/ node[d].cluster = p.cluster /\ node[d].slot = p.slot
       \/ At(p).dir /\ node[d].cluster \in On(Chain(fat, At(p).first))

\* Every open makes a vnode of its own.  Truncation empties the file in memory
\* only; the write of no bytes it makes gives the file a first cluster.
open_existing(path, trunc) ==
  LET p == Resolve(path)
      e == At(p)
      truncates == trunc /\ ~e.dir
      begun == IF truncates THEN WithFirst(p, e.first) ELSE Plan(e.first)
  IN  /\ Idle /\ p # NoPlace /\ Closed # {}
      /\ InUse(p) => Last(path) \in Shared
      /\ Open([is_open |-> TRUE, dir |-> e.dir, size |-> IF truncates THEN 0 ELSE e.size,
               first |-> begun.at, cluster |-> p.cluster, slot |-> p.slot])
      /\ Begin("open", begun.todo)

open_new(path) ==
  LET made == fat32_vnode_create(Parent(path), Last(path), FALSE)
  IN  /\ Idle /\ Resolve(path) = NoPlace /\ Parent(path) # 0
      /\ IF made.ok
         THEN Open([is_open |-> TRUE, dir |-> FALSE, size |-> 0, first |-> made.first,
                    cluster |-> made.place.cluster, slot |-> made.place.slot])
         ELSE UNCHANGED node
      /\ Begin(IF made.grows THEN "grow" ELSE "open", made.plan.todo)

vfs_close(d) ==
  /\ Idle /\ node[d].is_open
  /\ node' = [node EXCEPT ![d] = ClosedNode]
  /\ UNCHANGED <<fat, disk, todo, call>>

\* Wherever vfs_lseek has put the offset.  Callers leave directories alone.
vfs_write(d, offset, len) ==
  LET w == Written(node[d], offset, len)
  IN  /\ Idle /\ node[d].is_open /\ ~node[d].dir
      /\ offset + len <= MaxSize
      /\ node' = [node EXCEPT ![d].first = w.first,
                              ![d].size = IF w.plan.done > 0 /\ w.end > @ THEN w.end ELSE @]
      /\ Begin("write", w.plan.todo)

\* Whether the name is there already is not looked at.
vfs_mkdir(path) ==
  LET made == fat32_vnode_create(Parent(path), Last(path), TRUE)
  IN  /\ Idle /\ Parent(path) # 0
      /\ Begin(IF made.grows THEN "grow" ELSE "mkdir", made.plan.todo)
      /\ UNCHANGED node

\* The clusters first, then the entry; files in a directory keep theirs.
vfs_remove(path) ==
  LET p == Resolve(path)
      deleted == [Zero EXCEPT !.name = "E5"]
      freed == IF Ends(At(p).first) THEN <<>> ELSE fat32_free_cluster_chain(At(p).first)
  IN  /\ Idle /\ p # NoPlace
      /\ RemoveOpen \/ ~InUse(p)
      /\ Begin("remove", freed \o <<PutSlots(p.cluster, [i \in {p.slot} |-> deleted])>>)
      /\ UNCHANGED node

\* The next write of the call reaches the disk.
ata_write_sectors ==
  LET w == Head(todo)
  IN  /\ ~Idle
      /\ fat' = IF w.at = "fat" THEN [fat EXCEPT ![w.cluster] = w.next] ELSE fat
      /\ disk' = CASE w.at = "fat" -> disk
                   [] w.at = "slots" ->
                        [disk EXCEPT ![w.cluster] =
                          [i \in Index |-> IF i \in DOMAIN w.slots THEN w.slots[i] ELSE @[i]]]
                   [] w.at = "first" -> [disk EXCEPT ![w.cluster][w.slot].first = w.value]
                   [] w.at = "size" -> [disk EXCEPT ![w.cluster][w.slot].size = w.value]
      /\ todo' = Tail(todo)
      /\ call' = IF Len(todo) = 1 THEN "idle" ELSE call
      /\ UNCHANGED node

\* The power fails, and the disk is mounted again.
Crash ==
  /\ ~Idle /\ call \in CrashIn
  /\ todo' = <<>> /\ call' = "idle"
  /\ node' = [d \in Fd |-> ClosedNode]
  /\ UNCHANGED <<fat, disk>>

Init ==
  /\ fat = [c \in Cluster |-> IF c = 2 THEN EOC ELSE FREE]
  /\ \E f \in [1..Cardinality(Foreign) -> Foreign] :
       /\ \A n \in Foreign : \E i \in DOMAIN f : f[i] = n
       /\ disk = [c \in Cluster |-> [i \in Index |->
                   IF c = 2 /\ i \in DOMAIN f THEN [Zero EXCEPT !.name = f[i]] ELSE Zero]]
  /\ node = [d \in Fd |-> ClosedNode]
  /\ todo = <<>> /\ call = "idle"

Next ==
  \/ \E path \in Paths, trunc \in BOOLEAN : open_existing(path, trunc)
  \/ \E path \in Paths : open_new(path)
  \/ \E d \in Fd : vfs_close(d)
  \/ \E d \in Fd, offset \in 0..MaxSize, len \in 1..MaxWrite : vfs_write(d, offset, len)
  \/ \E path \in DirPaths : vfs_mkdir(path)
  \/ \E path \in Paths : vfs_remove(path)
  \/ ata_write_sectors
  \/ Crash

Spec == Init /\ [][Next]_vars

-----------------------------------------------------------------------------
(* Properties.  Each is about the disk when no call is under way: also     *)
(* when the power has failed in the middle of the last one.                *)

\* Sizes stay in their range, and writes go to clusters of the volume.
TypeOK ==
  /\ fat \in [Cluster -> Cluster \cup {FREE, EOC}]
  /\ disk \in [Cluster -> [Index -> Slot]]
  /\ node \in [Fd -> FatNode]
  /\ todo \in Seq(Write)
  /\ call \in Kind

Listed(c) ==
  {Places(c)[k] : k \in {k \in Visible(c) : At(Places(c)[k]).name \notin {"E5", ".", ".."}}}
Entries == Listed(2) \cup UNION {Listed(At(p).first) : p \in {p \in Listed(2) : At(p).dir}}
ChainOf(p) == Chain(fat, At(p).first)

\* No cluster belongs to two files or directories, to one of them twice, or to one
\* of them and the free ones: every chain is of clusters marked as in use, ends
\* where the table says so, and meets no other (fat32_allocate_cluster,
\* fat32_free_cluster_chain and every place that links what they return).
ChainsApart ==
  Idle =>
    /\ \A p \in Entries :
         ChainOf(p) # <<>> => Len(ChainOf(p)) < LastCluster /\ fat[Last(ChainOf(p))] = EOC
    /\ \A p \in Entries : On(ChainOf(p)) \cap On(Chain(fat, 2)) = {}
    /\ \A p, q \in Entries : p # q => On(ChainOf(p)) \cap On(ChainOf(q)) = {}

\* No file is longer than its chain: fat32_vnode_write reaches the clusters and
\* the data before the size, so that reads below the size find a cluster.
SizeBacked ==
  Idle => \A p \in Entries : At(p).size <= PerCluster * Len(ChainOf(p))

\* No directory shows what a file has left in a cluster it got from it.
DirectoriesClean ==
  Idle => \A p \in Entries : At(p).name # "data"

=============================================================================
