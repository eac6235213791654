---------------------------- MODULE RamfsProofs ----------------------------
(***************************************************************************)
(* Proofs about Ramfs for any number of vnodes and descriptors, any names, *)
(* paths, payloads and flags.                                              *)
(*                                                                         *)
(* The argument is about the vnodes v as a value: creating, removing,      *)
(* writing and truncating each lead from v to some w with Evolves(v, w),   *)
(* which is transitive, and every call is a composition of those.          *)
(***************************************************************************)
EXTENDS Ramfs, SequenceTheorems, NaturalsInduction, WellFoundedInduction, TLAPS

SizesOK(f) == f.type = "FILE" => f.size = f.file_size /\ f.file_size <= Len(f.data)

Tree(v) ==
  \A d, e \in Node : \A a \in v[d].children, b \in v[e].children :
    /\ v[a].type # "UNKNOWN" /\ ~v[a].freed
    /\ a = b => d = e
    /\ d = e /\ a # b => v[a].name # v[b].name

Sound(v) ==
  /\ v \in [Node -> VNode]
  /\ \A n \in Node : SizesOK(v[n])
  /\ Tree(v)
  /\ \A d \in Node : d \notin v[d].children

\* What is allocated keeps its name and type, and what was freed stays freed.
Keeps(f, g) ==
  f.type # "UNKNOWN" => g.name = f.name /\ g.type = f.type /\ (f.freed => g.freed)

Evolves(v, w) == Sound(w) /\ \A n \in Node : Keeps(v[n], w[n])

OpenOK == \A d \in Fd : g_fd_table[d].is_open => vnode[g_fd_table[d].node].type # "UNKNOWN"

\* The inductive invariant: open descriptors are on allocated vnodes.
IInv ==
  /\ Sound(vnode)
  /\ g_fd_table \in [Fd -> FileDescriptor]
  /\ got \in Seq(Byte)
  /\ OpenOK

-----------------------------------------------------------------------------
(* Searching.                                                              *)

\* The lowest member of a non-empty set is one of them.
LEMMA LowestIn ==
  ASSUME NEW S \in SUBSET Nat, S # {}
  PROVE  Lowest(S) \in S
<1>. DEFINE R == {ss \in Nat \X Nat : ss[1] < ss[2]}
<1>1. IsWellFoundedOn(R, Nat)
  BY NatLessThanWellFounded, Zenon DEF OpToRel
<1>2. PICK x \in S : \A y \in S : <<y, x>> \notin R
  <2>. HIDE DEF R
  <2>. QED
    BY <1>1, WFMin
<1>3. \A y \in S : x <= y
  <2>. TAKE y \in S
  <2>1. <<y, x>> \in Nat \X Nat /\ ~(y < x)
    BY <1>2
  <2>. QED
    BY <2>1
<1>. QED
  BY <1>3 DEF Lowest

\* kmalloc hands out memory nobody has had, while there is some.
LEMMA FreshIn ==
  ASSUME NEW v, Unallocated(v) # {}
  PROVE  Fresh(v) \in Node /\ v[Fresh(v)].type = "UNKNOWN"
<1>1. Unallocated(v) \in SUBSET Nat
  BY SizesAssumption DEF Unallocated, Node
<1>2. Lowest(Unallocated(v)) \in Unallocated(v)
  BY <1>1, LowestIn
<1>. QED
  BY <1>2 DEF Fresh, Unallocated

\* Paths are made of names.
LEMMA PathNames ==
  ASSUME NEW path \in Paths
  PROVE  Base(path) \in Name /\ (Len(path) # 1 => path[1] \in Name)
BY InputsAssumption DEF Base

\* A lookup finds an entry of the directory with the name, or there is none.
LEMMA LookupIn ==
  ASSUME NEW v \in [Node -> VNode], NEW d \in Node, NEW name
  PROVE  LET c == ramfs_dir_lookup(v, d, name)
         IN  /\ c \in Node \cup {NoNode}
             /\ c # NoNode => /\ c \in v[d].children /\ v[c].name = name
                              /\ v[d].type = "DIRECTORY"
             /\ c = NoNode /\ v[d].type = "DIRECTORY" =>
                  \A b \in v[d].children : v[b].name # name
<1>1. Named(v, d, name) \in SUBSET Node
  BY DEF Named, VNode
<1>2. NoNode \notin Node
  BY DEF NoNode, Node
<1>. QED
  BY <1>1, <1>2 DEF ramfs_dir_lookup, Named

\* The directory of a path is a vnode or there is none.
LEMMA ParentIn ==
  ASSUME NEW v \in [Node -> VNode], NEW path
  PROVE  Parent(v, path) \in Node \cup {NoNode}
<1>1. Root \in Node
  BY SizesAssumption DEF Root, Node
<1>2. Root # NoNode
  BY DEF Root, NoNode
<1>. QED
  BY <1>1, <1>2, LookupIn DEF Parent, Walk

\* Resolution ends at a vnode listed in the directory of the path, or nowhere.
LEMMA ResolveIn ==
  ASSUME NEW v \in [Node -> VNode], NEW path
  PROVE  LET c == Resolve(v, path)
             d == Parent(v, path)
         IN  /\ c \in Node \cup {NoNode}
             /\ c # NoNode => /\ d \in Node /\ c \in v[d].children
                              /\ v[c].name = Base(path)
BY ParentIn, LookupIn DEF Resolve, Walk

\* What resolution finds is allocated.
LEMMA ResolvedAllocated ==
  ASSUME NEW v, Sound(v), NEW path, Resolve(v, path) # NoNode
  PROVE  Resolve(v, path) \in Node /\ v[Resolve(v, path)].type # "UNKNOWN"
BY ResolveIn DEF Sound, Tree

-----------------------------------------------------------------------------
(* What the calls do to the vnodes.                                        *)

\* A call that fails changes nothing.
LEMMA EvolvesRefl ==
  ASSUME NEW v, Sound(v)
  PROVE  Evolves(v, v)
BY DEF Evolves, Keeps

\* A call may make several changes, one after another.
LEMMA EvolvesTrans ==
  ASSUME NEW u, NEW v, NEW w, Evolves(u, v), Evolves(v, w)
  PROVE  Evolves(u, w)
BY DEF Evolves, Keeps

\* A change to one vnode that leaves its name, type, entries and freed mark.
LEMMA OneEvolves ==
  ASSUME NEW v, Sound(v), NEW n \in Node, NEW g \in VNode, SizesOK(g),
         g.name = v[n].name, g.type = v[n].type,
         g.children = v[n].children, g.freed = v[n].freed
  PROVE  Evolves(v, [v EXCEPT ![n] = g])
<1>. DEFINE w == [v EXCEPT ![n] = g]
<1>1. v \in [Node -> VNode]
  BY DEF Sound
<1>2. /\ w \in [Node -> VNode]
      /\ \A m \in Node : w[m] = IF m = n THEN g ELSE v[m]
  BY <1>1
<1>. HIDE DEF w
<1>3. \A m \in Node : /\ w[m].name = v[m].name /\ w[m].type = v[m].type
                      /\ w[m].children = v[m].children /\ w[m].freed = v[m].freed
                      /\ SizesOK(w[m])
  BY <1>2 DEF Sound
<1>4. \A m \in Node : v[m].children \in SUBSET Node
  BY <1>1 DEF VNode
<1>5. Tree(w)
  BY <1>3, <1>4 DEF Tree, Sound
<1>. QED
  BY <1>2, <1>3, <1>5 DEF Evolves, Sound, Keeps, w

\* ramfs_create_file and ramfs_create_dir: the new vnode has no other entry,
\* and no name it takes was in the directory.
LEMMA CreatedEvolves ==
  ASSUME NEW v, Sound(v), NEW path \in Paths, Creatable(v, path),
         NEW type \in {"FILE", "DIRECTORY"}
  PROVE  /\ Evolves(v, Created(v, path, type))
         /\ Fresh(v) \in Node
         /\ Created(v, path, type)[Fresh(v)].type = type
<1>. DEFINE d == Parent(v, path)
            n == Fresh(v)
            w == Created(v, path, type)
            g == [name |-> Base(path), type |-> type, size |-> 0, file_size |-> 0,
                  data |-> <<>>, children |-> {}, freed |-> FALSE]
<1>1. /\ v \in [Node -> VNode] /\ Tree(v)
      /\ \A m \in Node : SizesOK(v[m]) /\ m \notin v[m].children
  BY DEF Sound
<1>2. /\ d \in Node /\ v[d].type = "DIRECTORY"
      /\ \A b \in v[d].children : v[b].name # Base(path)
  BY <1>1, ParentIn, LookupIn DEF Creatable
<1>3. n \in Node /\ v[n].type = "UNKNOWN"
  BY FreshIn DEF Creatable
<1>4. n # d
  BY <1>2, <1>3
<1>5. g \in VNode /\ SizesOK(g)
  <2>1. Base(path) \in Name
    BY PathNames
  <2>2. <<>> \in Seq(Byte) /\ Len(<<>>) = 0
    OBVIOUS
  <2>. QED
    BY <2>1, <2>2 DEF VNode, VNodeType, SizesOK
<1>6. w = [m \in Node |-> IF m = n THEN g
                          ELSE IF m = d THEN [v[m] EXCEPT !.children = @ \cup {n}]
                          ELSE v[m]]
  BY DEF Created
<1>. DEFINE h == [v[d] EXCEPT !.children = @ \cup {n}]
<1>7. /\ h \in VNode /\ SizesOK(h) /\ h.name = v[d].name /\ h.type = v[d].type
      /\ h.children = v[d].children \cup {n} /\ h.freed = v[d].freed
  <2>1. v[d] \in VNode /\ SizesOK(v[d])
    BY <1>1, <1>2
  <2>2. v[d].children \cup {n} \in SUBSET Node
    BY <1>3, <2>1 DEF VNode
  <2>3. h \in VNode
    BY <2>1, <2>2, Zenon DEF VNode
  <2>4. /\ h.name = v[d].name /\ h.type = v[d].type /\ h.size = v[d].size
        /\ h.file_size = v[d].file_size /\ h.data = v[d].data
    BY <2>1, Zenon DEF VNode
  <2>5. h.children = v[d].children \cup {n}
    BY <2>1, Zenon DEF VNode
  <2>6. h.freed = v[d].freed
    BY <2>1, Zenon DEF VNode
  <2>7. SizesOK(h)
    BY <2>1, <2>4, Zenon DEF SizesOK
  <2>. QED
    BY <2>3, <2>4, <2>5, <2>6, <2>7
<1>8. \A m \in Node : w[m] = IF m = n THEN g ELSE IF m = d THEN h ELSE v[m]
  BY <1>6
<1>9. g.name = Base(path) /\ g.type = type /\ g.children = {} /\ g.freed = FALSE
  OBVIOUS
<1>10. w \in [Node -> VNode]
  <2>1. w = [m \in Node |-> IF m = n THEN g ELSE IF m = d THEN h ELSE v[m]]
    BY <1>6, Zenon
  <2>2. v \in [Node -> VNode] /\ g \in VNode /\ h \in VNode
    BY <1>1, <1>5, <1>7, Zenon
  <2>. HIDE DEF w, g, h
  <2>. QED
    BY <2>1, <2>2
<1>. HIDE DEF d, n, w, g, h
<1>11. \A m \in Node : v[m].children \in SUBSET Node /\ n \notin v[m].children
  BY <1>1, <1>3 DEF VNode, Tree
<1>12. \A m \in Node : SizesOK(w[m]) /\ m \notin w[m].children
  BY <1>1, <1>4, <1>5, <1>7, <1>8, <1>9
<1>13. \A m \in Node : Keeps(v[m], w[m])
  BY <1>3, <1>4, <1>7, <1>8 DEF Keeps
<1>14. Tree(w)
  <2>. SUFFICES ASSUME NEW x \in Node, NEW y \in Node,
                       NEW a \in w[x].children, NEW b \in w[y].children
                PROVE  /\ w[a].type # "UNKNOWN" /\ ~w[a].freed
                       /\ a = b => x = y
                       /\ x = y /\ a # b => w[a].name # w[b].name
    BY DEF Tree
  <2>1. \A m \in Node : w[m].children = IF m = n THEN {}
                          ELSE IF m = d THEN v[d].children \cup {n} ELSE v[m].children
    BY <1>7, <1>8, <1>9
  <2>2. x # n /\ y # n
    BY <2>1
  <2>3. (a = n /\ x = d) \/ (a # n /\ a \in v[x].children)
    BY <2>1, <2>2, <1>11
  <2>4. (b = n /\ y = d) \/ (b # n /\ b \in v[y].children)
    BY <2>1, <2>2, <1>11
  <2>5. a \in Node /\ b \in Node
    BY <2>3, <2>4, <1>3, <1>11
  <2>6. \A m \in Node \ {n} : /\ w[m].name = v[m].name /\ w[m].type = v[m].type
                              /\ w[m].freed = v[m].freed
    BY <1>7, <1>8
  <2>7. w[n].name = Base(path) /\ w[n].type # "UNKNOWN" /\ ~w[n].freed
    BY <1>3, <1>8, <1>9
  <2>. QED
    BY <2>3, <2>4, <2>5, <2>6, <2>7, <1>1, <1>2 DEF Tree
<1>. QED
  BY <1>3, <1>8, <1>9, <1>10, <1>12, <1>13, <1>14 DEF Evolves, Sound, n, w

\* ramfs_dir_remove: the entry leaves the only directory it is in.
LEMMA RemovedEvolves ==
  ASSUME NEW v, Sound(v), NEW path
  PROVE  Evolves(v, Removed(v, path))
<1>. DEFINE d == Parent(v, path)
            c == Resolve(v, path)
            w == Removed(v, path)
<1>1. CASE c = NoNode
  BY <1>1, EvolvesRefl DEF Removed
<1>2. CASE c # NoNode
  <2>1. /\ v \in [Node -> VNode] /\ Tree(v)
        /\ \A m \in Node : SizesOK(v[m]) /\ m \notin v[m].children
    BY DEF Sound
  <2>2. c \in Node /\ d \in Node /\ c \in v[d].children /\ c # d
    BY <1>2, <2>1, ResolveIn
  <2>. DEFINE g == [v[c] EXCEPT !.freed = TRUE]
              h == [v[d] EXCEPT !.children = @ \ {c}]
  <2>3. w = [m \in Node |-> IF m = c THEN [v[m] EXCEPT !.freed = TRUE]
                            ELSE IF m = d THEN [v[m] EXCEPT !.children = @ \ {c}]
                            ELSE v[m]]
    BY <1>2 DEF Removed
  <2>4. v[c] \in VNode /\ v[d] \in VNode /\ SizesOK(v[c]) /\ SizesOK(v[d])
    BY <2>1, <2>2
  <2>5. /\ g \in VNode /\ SizesOK(g) /\ g.name = v[c].name /\ g.type = v[c].type
        /\ g.children = v[c].children /\ g.freed
    BY <2>4 DEF VNode, SizesOK
  <2>6. /\ h \in VNode /\ SizesOK(h) /\ h.name = v[d].name /\ h.type = v[d].type
        /\ h.children = v[d].children \ {c} /\ h.freed = v[d].freed
    BY <2>4 DEF VNode, SizesOK
  <2>7. /\ w \in [Node -> VNode]
        /\ \A m \in Node : w[m] = IF m = c THEN g ELSE IF m = d THEN h ELSE v[m]
    <3>. HIDE DEF w
    <3>. QED
      BY <2>1, <2>2, <2>3, <2>5, <2>6
  <2>. HIDE DEF d, c, w, g, h
  <2>8. \A m \in Node : v[m].children \in SUBSET Node
    BY <2>1 DEF VNode
  <2>9. \A m \in Node : SizesOK(w[m]) /\ m \notin w[m].children
    BY <2>1, <2>2, <2>5, <2>6, <2>7
  <2>10. \A m \in Node : Keeps(v[m], w[m])
    BY <2>5, <2>6, <2>7 DEF Keeps
  <2>11. Tree(w)
    <3>. SUFFICES ASSUME NEW x \in Node, NEW y \in Node,
                         NEW a \in w[x].children, NEW b \in w[y].children
                  PROVE  /\ w[a].type # "UNKNOWN" /\ ~w[a].freed
                         /\ a = b => x = y
                         /\ x = y /\ a # b => w[a].name # w[b].name
      BY DEF Tree
    <3>1. \A m \in Node : w[m].children = v[m].children \ {c}
      BY <2>1, <2>2, <2>5, <2>6, <2>7 DEF Tree
    <3>2. \A m \in Node \ {c} : /\ w[m].name = v[m].name /\ w[m].type = v[m].type
                                /\ w[m].freed = v[m].freed
      BY <2>6, <2>7
    <3>3. a \in v[x].children /\ b \in v[y].children /\ a \in Node \ {c} /\ b \in Node \ {c}
      BY <3>1, <2>8
    <3>. QED
      BY <3>2, <3>3, <2>1 DEF Tree
  <2>. QED
    BY <2>7, <2>9, <2>10, <2>11 DEF Evolves, Sound, w
<1>. QED
  BY <1>1, <1>2

-----------------------------------------------------------------------------
(* Contents.                                                               *)

\* The buffer is long enough for the write and for what the file had.
LEMMA BufferIn ==
  ASSUME NEW f \in VNode, f.file_size <= Len(f.data), NEW required \in Nat
  PROVE  /\ Buffer(f, required) \in Seq(Byte)
         /\ required <= Len(Buffer(f, required))
         /\ f.file_size <= Len(Buffer(f, required))
<1>1. f.data \in Seq(Byte) /\ f.file_size \in Nat /\ Len(f.data) \in Nat
  BY DEF VNode
<1>2. CASE required <= Len(f.data)
  BY <1>1, <1>2 DEF Buffer
<1>3. CASE required > Len(f.data)
  <2>. DEFINE cap == IF required < MIN_CAPACITY THEN MIN_CAPACITY ELSE 2 * required
              s == Grown(f, required)
  <2>1. cap \in Nat /\ required <= cap
    BY SizesAssumption
  <2>2. s = [i \in 1..cap |-> IF i <= f.file_size THEN f.data[i] ELSE 0]
    BY DEF Grown
  <2>. HIDE DEF cap, s
  <2>3. \A i \in 1..cap : (IF i <= f.file_size THEN f.data[i] ELSE 0) \in Byte
    BY <1>1, <2>1, InputsAssumption
  <2>4. s \in Seq(Byte) /\ Len(s) = cap
    BY <2>1, <2>2, <2>3
  <2>. QED
    BY <1>1, <1>3, <2>1, <2>4 DEF Buffer, s
<1>. QED
  BY <1>1, <1>2, <1>3

\* ramfs_file_write keeps both sizes equal and within the buffer.
LEMMA WrittenOK ==
  ASSUME NEW f \in VNode, SizesOK(f), f.type = "FILE",
         NEW offset \in Nat, NEW bs \in Seq(Byte)
  PROVE  LET g == Written(f, offset, bs)
         IN  /\ g \in VNode /\ SizesOK(g)
             /\ g.name = f.name /\ g.type = f.type
             /\ g.children = f.children /\ g.freed = f.freed
<1>. DEFINE required == offset + Len(bs)
            buffer == Buffer(f, required)
            data == [i \in 1..Len(buffer) |-> IF i > offset /\ i <= required THEN bs[i - offset]
                                              ELSE buffer[i]]
            g == Written(f, offset, bs)
<1>1. required \in Nat
  OBVIOUS
<1>2. f.size = f.file_size /\ f.file_size <= Len(f.data) /\ f.file_size \in Nat
  BY DEF SizesOK, VNode
<1>3. /\ buffer \in Seq(Byte) /\ required <= Len(buffer) /\ f.file_size <= Len(buffer)
      /\ Len(buffer) \in Nat
  BY <1>1, <1>2, BufferIn
<1>4. g = [f EXCEPT !.data = data, !.file_size = Larger(@, required),
                    !.size = IF required > f.file_size THEN required ELSE @]
  BY DEF Written
<1>. HIDE DEF buffer, g
<1>5. \A i \in 1..Len(buffer) :
        (IF i > offset /\ i <= required THEN bs[i - offset] ELSE buffer[i]) \in Byte
  <2>. TAKE i \in 1..Len(buffer)
  <2>1. CASE i > offset /\ i <= required
    <3>1. i - offset \in 1..Len(bs)
      BY <2>1, <1>3
    <3>. QED
      BY <2>1, <3>1
  <2>2. CASE ~(i > offset /\ i <= required)
    BY <2>2, <1>3
  <2>. QED
    BY <2>1, <2>2
<1>6. data \in Seq(Byte) /\ Len(data) = Len(buffer)
  BY <1>3, <1>5
<1>. HIDE DEF data, required
<1>7. /\ g \in VNode
      /\ g.name = f.name /\ g.type = f.type /\ g.children = f.children /\ g.freed = f.freed
      /\ g.data = data
      /\ g.file_size = (IF f.file_size > required THEN f.file_size ELSE required)
      /\ g.size = (IF required > f.file_size THEN required ELSE f.size)
  BY <1>1, <1>2, <1>4, <1>6 DEF VNode, Larger
<1>8. SizesOK(g)
  BY <1>1, <1>2, <1>3, <1>6, <1>7 DEF SizesOK
<1>. QED
  BY <1>7, <1>8 DEF g

\* Truncation empties a file in both places.
LEMMA TruncatedOK ==
  ASSUME NEW f \in VNode, SizesOK(f)
  PROVE  LET g == Truncated(f)
         IN  /\ g \in VNode /\ SizesOK(g)
             /\ g.name = f.name /\ g.type = f.type
             /\ g.children = f.children /\ g.freed = f.freed
<1>. DEFINE g == [f EXCEPT !.file_size = 0, !.size = 0]
<1>1. /\ g \in VNode /\ g.size = 0 /\ g.file_size = 0 /\ g.data = f.data
      /\ g.name = f.name /\ g.type = f.type /\ g.children = f.children /\ g.freed = f.freed
  BY DEF VNode
<1>2. Len(f.data) \in Nat
  BY DEF VNode
<1>3. SizesOK(g)
  BY <1>1, <1>2 DEF SizesOK
<1>4. Truncated(f) = g \/ Truncated(f) = f
  BY DEF Truncated
<1>. QED
  BY <1>1, <1>3, <1>4

\* ramfs_file_write to a file among the others.
LEMMA WriteEvolves ==
  ASSUME NEW v, Sound(v), NEW n \in Node, v[n].type = "FILE",
         NEW offset \in Nat, NEW bs \in Seq(Byte)
  PROVE  Evolves(v, [v EXCEPT ![n] = Written(@, offset, bs)])
<1>1. v \in [Node -> VNode] /\ v[n] \in VNode /\ SizesOK(v[n])
  BY DEF Sound
<1>2. [v EXCEPT ![n] = Written(@, offset, bs)] = [v EXCEPT ![n] = Written(v[n], offset, bs)]
  BY <1>1
<1>. QED
  BY <1>1, <1>2, WrittenOK, OneEvolves

\* Truncation in vfs_open, which spares directories.
LEMMA TruncateEvolves ==
  ASSUME NEW v, Sound(v), NEW n \in Node
  PROVE  Evolves(v, [v EXCEPT ![n] = Truncated(@)])
<1>1. v \in [Node -> VNode] /\ v[n] \in VNode /\ SizesOK(v[n])
  BY DEF Sound
<1>2. [v EXCEPT ![n] = Truncated(@)] = [v EXCEPT ![n] = Truncated(v[n])]
  BY <1>1
<1>. QED
  BY <1>1, <1>2, TruncatedOK, OneEvolves

\* The bytes of a file are bytes.
LEMMA ContentsIn ==
  ASSUME NEW f \in VNode, SizesOK(f), f.type = "FILE"
  PROVE  Contents(f) \in Seq(Byte)
<1>1. f.data \in Seq(Byte) /\ f.file_size \in Nat /\ f.file_size <= Len(f.data)
  BY DEF VNode, SizesOK
<1>2. \A i \in 1..f.file_size : f.data[i] \in Byte
  BY <1>1
<1>. QED
  BY <1>1, <1>2, SubSeqProperties DEF Contents

-----------------------------------------------------------------------------
(* The invariant.                                                          *)

\* What vfs_open finds or makes is allocated.
LEMMA FoundEvolves ==
  ASSUME Sound(vnode), NEW path \in Paths, NEW creat, NEW heap
  PROVE  LET found == Found(path, creat, heap)
         IN  /\ Evolves(vnode, found.v)
             /\ found.node # NoNode =>
                  found.node \in Node /\ found.v[found.node].type # "UNKNOWN"
<1>1. CASE Resolve(vnode, path) = NoNode /\ creat /\ heap /\ Creatable(vnode, path)
  BY <1>1, CreatedEvolves DEF Found
<1>2. CASE ~(Resolve(vnode, path) = NoNode /\ creat /\ heap /\ Creatable(vnode, path))
  BY <1>2, EvolvesRefl, ResolvedAllocated DEF Found
<1>. QED
  BY <1>1, <1>2

\* Changing files and no descriptor.
LEMMA VnodesOnly ==
  ASSUME IInv, Evolves(vnode, vnode'), g_fd_table' = g_fd_table, got' = <<>>
  PROVE  IInv'
<1>1. \A d \in Fd : g_fd_table[d].is_open => g_fd_table[d].node \in Node
  BY DEF IInv, FileDescriptor
<1>2. OpenOK'
  BY <1>1 DEF IInv, OpenOK, Evolves, Keeps
<1>. QED
  BY <1>2 DEF IInv, Evolves

\* Changing one descriptor, and files.
LEMMA OneDescriptor ==
  ASSUME IInv, Evolves(vnode, vnode'), got' \in Seq(Byte),
         NEW d \in Fd, NEW f \in FileDescriptor, g_fd_table' = [g_fd_table EXCEPT ![d] = f],
         f.is_open => vnode'[f.node].type # "UNKNOWN"
  PROVE  IInv'
<1>1. \A e \in Fd : g_fd_table[e].is_open => g_fd_table[e].node \in Node
  BY DEF IInv, FileDescriptor
<1>2. /\ g_fd_table' \in [Fd -> FileDescriptor]
      /\ \A e \in Fd : g_fd_table'[e] = IF e = d THEN f ELSE g_fd_table[e]
  BY DEF IInv
<1>3. OpenOK'
  BY <1>1, <1>2 DEF IInv, OpenOK, Evolves, Keeps
<1>. QED
  BY <1>2, <1>3 DEF IInv, Evolves

\* Moving one descriptor's offset, and changing files.
LEMMA OneOffset ==
  ASSUME IInv, Evolves(vnode, vnode'), got' \in Seq(Byte),
         NEW d \in Fd, g_fd_table[d].is_open, NEW o \in Nat,
         g_fd_table' = [g_fd_table EXCEPT ![d].offset = o]
  PROVE  IInv'
<1>. DEFINE f == [g_fd_table[d] EXCEPT !.offset = o]
<1>1. g_fd_table \in [Fd -> FileDescriptor] /\ g_fd_table[d] \in FileDescriptor
  BY DEF IInv
<1>2. /\ f \in FileDescriptor /\ f.is_open
      /\ f.node = g_fd_table[d].node /\ f.node \in Node
  BY <1>1 DEF FileDescriptor
<1>3. g_fd_table' = [g_fd_table EXCEPT ![d] = f]
  BY <1>1
<1>4. vnode'[f.node].type # "UNKNOWN"
  BY <1>2 DEF IInv, OpenOK, Evolves, Keeps
<1>. QED
  BY <1>2, <1>3, <1>4, OneDescriptor

\* A free descriptor is one, and closed.
LEMMA LowestFreeIn ==
  ASSUME FreeFds # {}
  PROVE  LowestFree \in Fd /\ ~g_fd_table[LowestFree].is_open
<1>1. FreeFds \in SUBSET Nat
  BY SizesAssumption DEF FreeFds, Fd
<1>2. Lowest(FreeFds) \in FreeFds
  BY <1>1, LowestIn
<1>. QED
  BY <1>2 DEF LowestFree, FreeFds

\* What vfs_rename does to the vnodes.
LEMMA RenameEvolves ==
  ASSUME IInv, NEW old \in Paths, NEW new \in Paths, NEW heap, NEW room,
         vfs_rename(old, new, heap, room)
  PROVE  Evolves(vnode, vnode')
<1>. DEFINE n == Resolve(vnode, old)
            found == Found(new, TRUE, heap)
            m == found.node
            opened == [found.v EXCEPT ![m] = Truncated(@)]
            bytes == Contents(opened[n])
            writes == bytes # <<>> /\ Writable(opened[m], Len(bytes), room)
            copied == IF writes THEN [opened EXCEPT ![m] = Written(@, 0, bytes)] ELSE opened
<1>1. /\ n # NoNode /\ vnode[n].type = "FILE"
      /\ \/ vnode' = found.v
         \/ m # NoNode /\ vnode' = Removed(copied, old)
  BY Zenon DEF vfs_rename
<1>2. /\ Evolves(vnode, found.v)
      /\ m # NoNode => m \in Node /\ found.v[m].type # "UNKNOWN"
  BY FoundEvolves DEF IInv
<1>3. CASE vnode' = found.v
  BY <1>2, <1>3
<1>4. CASE m # NoNode /\ vnode' = Removed(copied, old)
  <2>. HIDE DEF found, n
  <2>1. Evolves(found.v, opened)
    BY <1>2, <1>4, TruncateEvolves DEF Evolves
  <2>2. Evolves(vnode, opened)
    <3>. HIDE DEF opened
    <3>. QED
      BY <1>2, <2>1, EvolvesTrans
  <2>. HIDE DEF opened
  <2>3. n \in Node
    BY <1>1, ResolvedAllocated DEF IInv, n
  <2>4. opened[n].type = "FILE" /\ opened[n] \in VNode /\ SizesOK(opened[n])
    BY <1>1, <2>2, <2>3 DEF Evolves, Keeps, Sound
  <2>5. bytes \in Seq(Byte)
    BY <2>4, ContentsIn
  <2>. HIDE DEF bytes, m
  <2>6. writes => Evolves(opened, [opened EXCEPT ![m] = Written(@, 0, bytes)])
    BY <1>2, <1>4, <2>2, <2>5, WriteEvolves DEF Evolves, Writable
  <2>7. Evolves(opened, copied)
    <3>1. CASE writes
      BY <2>6, <3>1
    <3>2. CASE ~writes
      BY <2>2, <3>2, EvolvesRefl DEF Evolves
    <3>. QED
      BY <3>1, <3>2
  <2>. HIDE DEF copied
  <2>8. Evolves(copied, Removed(copied, old))
    BY <2>7, RemovedEvolves DEF Evolves
  <2>. QED
    BY <1>4, <2>2, <2>7, <2>8, EvolvesTrans
<1>. QED
  BY <1>1, <1>3, <1>4

\* A read returns bytes of the file.
LEMMA ReadIn ==
  ASSUME IInv, NEW d \in Fd, NEW k \in 0..MaxRead, vfs_read(d, k)
  PROVE  IInv'
<1>. DEFINE f == vnode[g_fd_table[d].node]
            o == g_fd_table[d].offset
            n == IF o >= f.file_size THEN 0 ELSE IF k < f.file_size - o THEN k ELSE f.file_size - o
<1>1. /\ g_fd_table[d].is_open
      /\ \/ /\ f.type = "FILE"
            /\ got' = SubSeq(f.data, o + 1, o + n)
            /\ g_fd_table' = [g_fd_table EXCEPT ![d].offset = o + n]
         \/ got' = <<>> /\ g_fd_table' = g_fd_table
      /\ vnode' = vnode
  BY Zenon DEF vfs_read, NoData
<1>2. g_fd_table[d] \in FileDescriptor
  BY DEF IInv
<1>3. f \in VNode /\ SizesOK(f) /\ o \in Nat
  BY <1>2 DEF IInv, Sound, FileDescriptor
<1>4. f.file_size \in Nat /\ f.data \in Seq(Byte) /\ Len(f.data) \in Nat
  BY <1>3 DEF VNode
<1>5. k \in Nat
  BY SizesAssumption
<1>6. Evolves(vnode, vnode')
  BY <1>1, EvolvesRefl DEF IInv
<1>. HIDE DEF f, o
<1>7. n \in Nat /\ (n > 0 => o + n <= f.file_size)
  BY <1>3, <1>4, <1>5
<1>. HIDE DEF n
<1>8. CASE f.type = "FILE" /\ got' = SubSeq(f.data, o + 1, o + n)
             /\ g_fd_table' = [g_fd_table EXCEPT ![d].offset = o + n]
  <2>1. f.file_size <= Len(f.data)
    BY <1>3, <1>8 DEF SizesOK
  <2>2. \A i \in (o + 1)..(o + n) : f.data[i] \in Byte
    <3>. TAKE i \in (o + 1)..(o + n)
    <3>1. n > 0 /\ i \in 1..Len(f.data)
      BY <1>3, <1>4, <1>7, <2>1
    <3>. QED
      BY <3>1, <1>4
  <2>3. got' \in Seq(Byte) /\ o + n \in Nat
    BY <1>3, <1>7, <1>8, <2>2, SubSeqProperties
  <2>. QED
    BY <1>1, <1>6, <1>8, <2>3, OneOffset
<1>9. CASE got' = <<>> /\ g_fd_table' = g_fd_table
  BY <1>6, <1>9, VnodesOnly
<1>. QED
  BY <1>1, <1>8, <1>9

\* Initially there is the root and nothing else.
LEMMA InitIInv == Init => IInv
<1>. SUFFICES ASSUME Init PROVE IInv
  OBVIOUS
<1>1. Root \in Node
  BY SizesAssumption DEF Root, Node
<1>2. Blank \in VNode /\ Blank.children = {} /\ Blank.type = "UNKNOWN"
  BY InputsAssumption DEF Blank, VNode, VNodeType
<1>. DEFINE r == [Blank EXCEPT !.type = "DIRECTORY"]
<1>3. r \in VNode /\ r.children = {} /\ r.type = "DIRECTORY"
  BY <1>2 DEF VNode, VNodeType
<1>. HIDE DEF r
<1>4. vnode = [n \in Node |-> IF n = Root THEN r ELSE Blank]
  BY DEF Init, r
<1>5. /\ vnode \in [Node -> VNode]
      /\ \A n \in Node : vnode[n].children = {} /\ vnode[n].type # "FILE"
  BY <1>2, <1>3, <1>4
<1>6. Sound(vnode)
  BY <1>5 DEF Sound, Tree, SizesOK
<1>7. g_fd_table \in [Fd -> FileDescriptor] /\ \A d \in Fd : ~g_fd_table[d].is_open
  BY <1>1 DEF Init, ClosedFd, FileDescriptor
<1>. QED
  BY <1>6, <1>7 DEF Init, IInv, OpenOK

\* Every call preserves the invariant and lets the vnodes evolve.
LEMMA NextIInv == IInv /\ [Next]_vars => IInv' /\ Evolves(vnode, vnode')
<1>. SUFFICES ASSUME IInv, [Next]_vars
              PROVE  IInv' /\ Evolves(vnode, vnode')
  OBVIOUS
<1>1. Sound(vnode) /\ g_fd_table \in [Fd -> FileDescriptor] /\ Evolves(vnode, vnode)
  BY EvolvesRefl DEF IInv
<1>2. <<>> \in Seq(Byte)
  OBVIOUS
<1>3. ASSUME NEW p \in Paths, NEW flags \in OpenFlags, NEW heap \in BOOLEAN,
             vfs_open(p, flags, heap)
      PROVE  IInv' /\ Evolves(vnode, vnode')
  <2>. DEFINE found == Found(p, "O_CREAT" \in flags, heap)
              n == found.node
              w == [found.v EXCEPT ![n] = Truncated(@)]
              f == [is_open |-> TRUE, node |-> n,
                    offset |-> IF "O_APPEND" \in flags THEN found.v[n].size ELSE 0]
  <2>1. /\ Evolves(vnode, found.v)
        /\ n # NoNode => n \in Node /\ found.v[n].type # "UNKNOWN"
    BY <1>1, FoundEvolves
  <2>2. /\ got' = <<>>
        /\ \/ vnode' = found.v /\ g_fd_table' = g_fd_table
           \/ /\ n # NoNode /\ FreeFds # {}
              /\ g_fd_table' = [g_fd_table EXCEPT ![LowestFree] = f]
              /\ vnode' = w \/ vnode' = found.v
    BY <1>3, Zenon DEF vfs_open, NoData
  <2>3. CASE vnode' = found.v /\ g_fd_table' = g_fd_table
    BY <2>1, <2>2, <2>3, VnodesOnly
  <2>4. CASE /\ n # NoNode /\ FreeFds # {}
             /\ g_fd_table' = [g_fd_table EXCEPT ![LowestFree] = f]
             /\ vnode' = w \/ vnode' = found.v
    <3>. HIDE DEF found
    <3>1. Sound(found.v) /\ n \in Node /\ found.v[n].type # "UNKNOWN"
      BY <2>1, <2>4 DEF Evolves
    <3>2. Evolves(found.v, w)
      BY <3>1, TruncateEvolves
    <3>3. f \in FileDescriptor /\ f.node = n
      BY <3>1 DEF FileDescriptor, Sound, VNode
    <3>. HIDE DEF w, f, n
    <3>4. Evolves(vnode, w) /\ w[n].type # "UNKNOWN"
      BY <2>1, <3>1, <3>2, EvolvesTrans DEF Evolves, Keeps
    <3>5. Evolves(vnode, vnode') /\ vnode'[n].type # "UNKNOWN"
      BY <2>1, <2>4, <3>1, <3>4
    <3>. QED
      BY <1>2, <2>2, <2>4, <3>3, <3>5, LowestFreeIn, OneDescriptor
  <2>. QED
    BY <2>2, <2>3, <2>4
<1>4. ASSUME NEW p \in Paths, NEW heap \in BOOLEAN, vfs_touch(p, heap)
      PROVE  IInv' /\ Evolves(vnode, vnode')
  <2>1. Evolves(vnode, vnode')
    BY <1>1, <1>4, FoundEvolves DEF vfs_touch
  <2>. QED
    BY <2>1, <1>4, VnodesOnly DEF vfs_touch, NoData
<1>5. ASSUME NEW d \in Fd, vfs_close(d)
      PROVE  IInv' /\ Evolves(vnode, vnode')
  <2>1. ClosedFd \in FileDescriptor /\ ~ClosedFd.is_open
    BY SizesAssumption DEF ClosedFd, FileDescriptor, Root, Node
  <2>. QED
    BY <2>1, <1>1, <1>2, <1>5, OneDescriptor DEF vfs_close, NoData
<1>6. ASSUME NEW d \in Fd, NEW k \in 0..MaxRead, vfs_read(d, k)
      PROVE  IInv' /\ Evolves(vnode, vnode')
  BY <1>1, <1>6, ReadIn DEF vfs_read
<1>7. ASSUME NEW d \in Fd, NEW bs \in Payloads, NEW heap \in BOOLEAN, vfs_write(d, bs, heap)
      PROVE  IInv' /\ Evolves(vnode, vnode')
  <2>. DEFINE n == g_fd_table[d].node
              o == g_fd_table[d].offset
  <2>1. n \in Node /\ o \in Nat /\ bs \in Seq(Byte)
    BY <1>1, InputsAssumption DEF FileDescriptor
  <2>2. /\ g_fd_table[d].is_open /\ got' = <<>>
        /\ \/ /\ vnode[n].type = "FILE"
              /\ vnode' = [vnode EXCEPT ![n] = Written(@, o, bs)]
              /\ g_fd_table' = [g_fd_table EXCEPT ![d].offset = o + Len(bs)]
           \/ vnode' = vnode /\ g_fd_table' = g_fd_table
    BY <1>7, Zenon DEF vfs_write, Writable, NoData
  <2>3. CASE /\ vnode[n].type = "FILE"
             /\ vnode' = [vnode EXCEPT ![n] = Written(@, o, bs)]
             /\ g_fd_table' = [g_fd_table EXCEPT ![d].offset = o + Len(bs)]
    <3>1. Evolves(vnode, vnode')
      BY <1>1, <2>1, <2>3, WriteEvolves
    <3>2. o + Len(bs) \in Nat
      BY <2>1
    <3>. HIDE DEF o
    <3>. QED
      BY <1>2, <2>2, <2>3, <3>1, <3>2, OneOffset
  <2>4. CASE vnode' = vnode /\ g_fd_table' = g_fd_table
    BY <1>1, <2>2, <2>4, VnodesOnly
  <2>. QED
    BY <2>2, <2>3, <2>4
<1>8. ASSUME NEW d \in Fd, NEW delta \in Deltas, NEW whence, vfs_lseek(d, delta, whence)
      PROVE  IInv' /\ Evolves(vnode, vnode')
  <2>. DEFINE o == SeekBase(d, whence) + delta
  <2>1. /\ g_fd_table[d].is_open /\ o \in 0..MaxSize
        /\ g_fd_table' = [g_fd_table EXCEPT ![d].offset = o]
        /\ got' = <<>> /\ vnode' = vnode
    BY <1>8 DEF vfs_lseek, NoData
  <2>2. o \in Nat
    BY <2>1, SizesAssumption
  <2>. HIDE DEF o
  <2>. QED
    BY <1>1, <1>2, <2>1, <2>2, OneOffset
<1>9. ASSUME NEW p \in Paths, vfs_mkdir(p)
      PROVE  IInv' /\ Evolves(vnode, vnode')
  <2>1. Evolves(vnode, vnode')
    BY <1>1, <1>9, CreatedEvolves DEF vfs_mkdir
  <2>. QED
    BY <2>1, <1>9, VnodesOnly DEF vfs_mkdir, NoData
<1>10. ASSUME NEW p \in Paths, vfs_remove(p)
       PROVE  IInv' /\ Evolves(vnode, vnode')
  <2>1. Evolves(vnode, vnode')
    BY <1>1, <1>10, RemovedEvolves DEF vfs_remove
  <2>. QED
    BY <2>1, <1>10, VnodesOnly DEF vfs_remove, NoData
<1>11. ASSUME NEW p \in Paths, NEW q \in Paths, NEW heap \in BOOLEAN, NEW room \in BOOLEAN,
              vfs_rename(p, q, heap, room)
       PROVE  IInv' /\ Evolves(vnode, vnode')
  <2>1. Evolves(vnode, vnode')
    BY <1>11, RenameEvolves
  <2>2. got' = <<>> /\ g_fd_table' = g_fd_table
    BY <1>11, Zenon DEF vfs_rename, NoData
  <2>. QED
    BY <2>1, <2>2, VnodesOnly
<1>12. CASE UNCHANGED vars
  BY <1>1, <1>12 DEF vars, IInv, OpenOK
<1>. QED
  BY <1>3, <1>4, <1>5, <1>6, <1>7, <1>8, <1>9, <1>10, <1>11, <1>12 DEF Next

\* No call moves a descriptor that stays open to another vnode: the only calls
\* that set node do so on a closed descriptor, or close it.
LEMMA StaysPut ==
  ASSUME IInv, [Next]_vars, NEW d \in Fd, g_fd_table[d].is_open, g_fd_table'[d].is_open
  PROVE  g_fd_table'[d].node = g_fd_table[d].node
<1>1. g_fd_table \in [Fd -> FileDescriptor]
  BY DEF IInv
<1>2. CASE g_fd_table' = g_fd_table
  BY <1>2
<1>3. ASSUME NEW e \in Fd, NEW f, ~f.is_open \/ ~g_fd_table[e].is_open,
             g_fd_table' = [g_fd_table EXCEPT ![e] = f]
      PROVE  g_fd_table'[d].node = g_fd_table[d].node
  BY <1>1, <1>3
<1>4. ASSUME NEW e \in Fd, NEW o, g_fd_table' = [g_fd_table EXCEPT ![e].offset = o]
      PROVE  g_fd_table'[d].node = g_fd_table[d].node
  BY <1>1, <1>4 DEF FileDescriptor
<1>5. ASSUME NEW p \in Paths, NEW flags \in OpenFlags, NEW heap \in BOOLEAN,
             vfs_open(p, flags, heap)
      PROVE  g_fd_table'[d].node = g_fd_table[d].node
  <2>1. \/ g_fd_table' = g_fd_table
        \/ /\ FreeFds # {}
           /\ \E f : g_fd_table' = [g_fd_table EXCEPT ![LowestFree] = f]
    BY <1>5, Zenon DEF vfs_open
  <2>. QED
    BY <2>1, <1>2, <1>3, LowestFreeIn
<1>6. ASSUME NEW e \in Fd, vfs_close(e)
      PROVE  g_fd_table'[d].node = g_fd_table[d].node
  BY <1>3, <1>6 DEF vfs_close, ClosedFd
<1>7. ASSUME NEW e \in Fd, NEW k \in 0..MaxRead, vfs_read(e, k)
      PROVE  g_fd_table'[d].node = g_fd_table[d].node
  <2>1. g_fd_table' = g_fd_table \/ \E o : g_fd_table' = [g_fd_table EXCEPT ![e].offset = o]
    BY <1>7, Zenon DEF vfs_read
  <2>. QED
    BY <2>1, <1>2, <1>4
<1>8. ASSUME NEW e \in Fd, NEW bs \in Payloads, NEW heap \in BOOLEAN, vfs_write(e, bs, heap)
      PROVE  g_fd_table'[d].node = g_fd_table[d].node
  <2>1. g_fd_table' = g_fd_table \/ \E o : g_fd_table' = [g_fd_table EXCEPT ![e].offset = o]
    BY <1>8, Zenon DEF vfs_write
  <2>. QED
    BY <2>1, <1>2, <1>4
<1>9. ASSUME NEW e \in Fd, NEW delta \in Deltas, NEW whence, vfs_lseek(e, delta, whence)
      PROVE  g_fd_table'[d].node = g_fd_table[d].node
  BY <1>4, <1>9 DEF vfs_lseek
<1>10. ASSUME NEW p \in Paths, NEW q \in Paths, NEW heap \in BOOLEAN, NEW room \in BOOLEAN,
              vfs_rename(p, q, heap, room)
       PROVE  g_fd_table' = g_fd_table
  BY <1>10, Zenon DEF vfs_rename
<1>. QED
  BY <1>2, <1>5, <1>6, <1>7, <1>8, <1>9, <1>10
     DEF Next, vfs_touch, vfs_mkdir, vfs_remove, vars

-----------------------------------------------------------------------------
(* The theorems.                                                           *)

\* Whatever calls are made, the invariant holds.
LEMMA Invariant == Spec => []IInv
BY InitIInv, NextIInv, PTL DEF Spec

\* Offsets and sizes never go below 0 and buffers hold bytes, whatever calls
\* are made.
THEOREM TypeCorrect == Spec => []TypeOK
<1>1. IInv => TypeOK
  BY DEF IInv, Sound, TypeOK
<1>. QED
  BY <1>1, Invariant, PTL

\* The size ramfs keeps in the vnode and the one in RamfsFile are always the
\* same, and no file is longer than its buffer.
THEOREM SizesAgreeHold == Spec => []SizesAgree
<1>1. IInv => SizesAgree
  BY DEF IInv, Sound, SizesOK, SizesAgree
<1>. QED
  BY <1>1, Invariant, PTL

\* Directories stay a forest with unique names and no freed entries through
\* every sequence of create, rename and remove.
THEOREM TreeSoundHolds == Spec => []TreeSound
<1>1. IInv => TreeSound
  BY DEF IInv, Sound, Tree, TreeSound
<1>. QED
  BY <1>1, Invariant, PTL

\* A vnode removed under an open descriptor is never another file's.
THEOREM OpenNodesStayHolds == Spec => OpenNodesStay
<1>1. IInv /\ [Next]_vars => [StaysStep]_vars
  <2>. SUFFICES ASSUME IInv, [Next]_vars, NEW d \in Fd,
                       g_fd_table[d].is_open, g_fd_table'[d].is_open
                PROVE  LET n == g_fd_table[d].node
                       IN  /\ g_fd_table'[d].node = n
                           /\ vnode'[n].name = vnode[n].name /\ vnode'[n].type = vnode[n].type
                           /\ vnode[n].freed => vnode'[n].freed
    BY DEF StaysStep
  <2>1. g_fd_table'[d].node = g_fd_table[d].node
    BY StaysPut
  <2>2. g_fd_table[d].node \in Node /\ vnode[g_fd_table[d].node].type # "UNKNOWN"
    BY DEF IInv, OpenOK, FileDescriptor
  <2>. QED
    BY <2>1, <2>2, NextIInv DEF Evolves, Keeps
<1>. QED
  BY <1>1, Invariant, PTL DEF OpenNodesStay, Spec

-----------------------------------------------------------------------------
(* Files as FileSpec has them.                                             *)

\* The refinement mapping, of vnodes as a value.
FilesOf(v) == [n \in Node |-> Contents(v[n])]

\* Only files have bytes: what is not allocated yet is empty when it becomes one.
Bare(v) == \A n \in Node : v[n].type # "FILE" => v[n].size = 0 /\ v[n].file_size = 0

\* The bytes of any vnode are the start of its buffer.
LEMMA ContentsIs ==
  ASSUME NEW v, Sound(v), Bare(v), NEW n \in Node
  PROVE  /\ FilesOf(v)[n] = Contents(v[n]) /\ Contents(v[n]) \in Seq(Byte)
         /\ Len(Contents(v[n])) = v[n].file_size /\ v[n].size = v[n].file_size
         /\ v[n].file_size \in Nat /\ v[n].data \in Seq(Byte) /\ v[n].file_size <= Len(v[n].data)
         /\ \A i \in 1..v[n].file_size : Contents(v[n])[i] = v[n].data[i]
<1>. DEFINE f == v[n]
            k == f.file_size
<1>1. f.data \in Seq(Byte) /\ k \in Nat /\ Len(f.data) \in Nat
  <2>1. f \in VNode
    BY DEF Sound
  <2>. QED
    BY <2>1 DEF VNode
<1>2. f.size = k /\ k <= Len(f.data)
  <2>1. SizesOK(f) /\ (f.type # "FILE" => f.size = 0 /\ k = 0)
    BY DEF Sound, Bare
  <2>. HIDE DEF f
  <2>. QED
    BY <1>1, <2>1 DEF SizesOK
<1>. HIDE DEF f, k
<1>3. \A i \in 1..k : f.data[i] \in Byte
  BY <1>1, <1>2
<1>. DEFINE c == SubSeq(f.data, 1, k)
<1>4. /\ c \in Seq(Byte) /\ Len(c) = (IF 1 <= k THEN k - 1 + 1 ELSE 0)
      /\ \A i \in 1..(k - 1 + 1) : c[i] = f.data[1 + i - 1]
  BY <1>1, <1>3, SubSeqProperties
<1>. HIDE DEF c
<1>5. Len(c) = k /\ k - 1 + 1 = k /\ \A i \in 1..k : 1 + i - 1 = i
  BY <1>1, <1>4
<1>6. c \in Seq(Byte) /\ Len(c) = k /\ \A i \in 1..k : c[i] = f.data[i]
  BY <1>4, <1>5
<1>7. Contents(v[n]) = c
  BY DEF Contents, c, f, k
<1>8. FilesOf(v)[n] = Contents(v[n])
  BY DEF FilesOf
<1>. QED
  BY <1>1, <1>2, <1>6, <1>7, <1>8 DEF f, k

\* Vnodes with the same buffers and sizes are the same files.
LEMMA SameFiles ==
  ASSUME NEW v, NEW w,
         \A n \in Node : v[n].data = w[n].data /\ v[n].file_size = w[n].file_size
  PROVE  FilesOf(w) = FilesOf(v)
<1>1. \A n \in Node : Contents(w[n]) = Contents(v[n])
  BY DEF Contents
<1>. QED
  BY <1>1, Zenon DEF FilesOf

\* An empty file has no bytes, whatever its buffer holds.
LEMMA NoContents ==
  ASSUME NEW f \in VNode, f.file_size = 0
  PROVE  Contents(f) = <<>>
<1>1. f.data \in Seq(Byte)
  BY DEF VNode
<1>. DEFINE c == SubSeq(f.data, 1, 0)
<1>2. c \in Seq(Byte) /\ Len(c) = 0
  BY <1>1, SubSeqProperties
<1>3. Contents(f) = c
  BY DEF Contents
<1>. HIDE DEF c
<1>. QED
  BY <1>2, <1>3, EmptySeq

\* A new vnode is empty, and no other one changes its bytes.
LEMMA CreatedFiles ==
  ASSUME NEW v, Sound(v), Bare(v), NEW path \in Paths, Creatable(v, path),
         NEW type \in {"FILE", "DIRECTORY"}
  PROVE  Bare(Created(v, path, type)) /\ FilesOf(Created(v, path, type)) = FilesOf(v)
<1>. DEFINE d == Parent(v, path)
            n == Fresh(v)
            w == Created(v, path, type)
            g == [name |-> Base(path), type |-> type, size |-> 0, file_size |-> 0,
                  data |-> <<>>, children |-> {}, freed |-> FALSE]
<1>1. n \in Node /\ v[n].type = "UNKNOWN" /\ v \in [Node -> VNode]
  BY FreshIn DEF Creatable, Sound
<1>2. \A m \in Node : w[m] = IF m = n THEN g
                             ELSE IF m = d THEN [v[m] EXCEPT !.children = @ \cup {n}] ELSE v[m]
  BY DEF Created
<1>3. g.size = 0 /\ g.file_size = 0
  OBVIOUS
<1>. HIDE DEF w, g, d, n
<1>4. \A m \in Node \ {n} : /\ w[m].data = v[m].data /\ w[m].file_size = v[m].file_size
                            /\ w[m].size = v[m].size /\ w[m].type = v[m].type
  <2>. TAKE m \in Node \ {n}
  <2>1. v[m] \in VNode
    BY <1>1
  <2>. QED
    BY <1>2, <2>1 DEF VNode
<1>5. w[n] = g
  BY <1>1, <1>2
<1>6. Bare(w)
  BY <1>3, <1>4, <1>5 DEF Bare
<1>7. w \in [Node -> VNode]
  BY CreatedEvolves DEF Evolves, Sound, w
<1>8. Contents(w[n]) = <<>> /\ Contents(v[n]) = <<>>
  <2>1. w[n] \in VNode /\ v[n] \in VNode /\ w[n].file_size = 0 /\ v[n].file_size = 0
    BY <1>1, <1>3, <1>5, <1>7 DEF Bare
  <2>. QED
    BY <2>1, NoContents
<1>9. \A m \in Node : Contents(w[m]) = Contents(v[m])
  BY <1>4, <1>8 DEF Contents
<1>10. FilesOf(w) = FilesOf(v)
  BY <1>9, Zenon DEF FilesOf
<1>. QED
  BY <1>6, <1>10 DEF w

\* Removing a name changes no bytes.
LEMMA RemovedFiles ==
  ASSUME NEW v, Sound(v), Bare(v), NEW path
  PROVE  Bare(Removed(v, path)) /\ FilesOf(Removed(v, path)) = FilesOf(v)
<1>. DEFINE d == Parent(v, path)
            c == Resolve(v, path)
            w == Removed(v, path)
<1>1. CASE c = NoNode
  BY <1>1 DEF Removed
<1>2. CASE c # NoNode
  <2>1. \A m \in Node : w[m] = IF m = c THEN [v[m] EXCEPT !.freed = TRUE]
                               ELSE IF m = d THEN [v[m] EXCEPT !.children = @ \ {c}] ELSE v[m]
    BY <1>2 DEF Removed
  <2>. HIDE DEF w, c, d
  <2>2. \A m \in Node : /\ w[m].data = v[m].data /\ w[m].file_size = v[m].file_size
                        /\ w[m].size = v[m].size /\ w[m].type = v[m].type
    <3>. TAKE m \in Node
    <3>1. v[m] \in VNode
      BY DEF Sound
    <3>. QED
      BY <2>1, <3>1 DEF VNode
  <2>. QED
    BY <2>2, SameFiles DEF Bare, w
<1>. QED
  BY <1>1, <1>2

\* Changing one vnode changes one file.
LEMMA OneFile ==
  ASSUME NEW v, v \in [Node -> VNode], Bare(v), NEW n \in Node, NEW g \in VNode,
         g.type # "FILE" => g.size = 0 /\ g.file_size = 0
  PROVE  /\ Bare([v EXCEPT ![n] = g])
         /\ FilesOf([v EXCEPT ![n] = g]) = [FilesOf(v) EXCEPT ![n] = Contents(g)]
<1>. DEFINE w == [v EXCEPT ![n] = g]
<1>1. \A m \in Node : w[m] = IF m = n THEN g ELSE v[m]
  OBVIOUS
<1>. HIDE DEF w
<1>2. Bare(w)
  BY <1>1 DEF Bare
<1>3. \A m \in Node : Contents(w[m]) = IF m = n THEN Contents(g) ELSE Contents(v[m])
  BY <1>1
<1>4. FilesOf(w) = [FilesOf(v) EXCEPT ![n] = Contents(g)]
  BY <1>3 DEF FilesOf
<1>. QED
  BY <1>2, <1>4 DEF w

\* Truncation empties one file; a directory has no bytes anyway.
LEMMA TruncatedFiles ==
  ASSUME NEW v, Sound(v), Bare(v), NEW n \in Node
  PROVE  /\ Bare([v EXCEPT ![n] = Truncated(@)])
         /\ FilesOf([v EXCEPT ![n] = Truncated(@)]) = [FilesOf(v) EXCEPT ![n] = <<>>]
<1>. DEFINE g == Truncated(v[n])
<1>1. v \in [Node -> VNode] /\ v[n] \in VNode /\ SizesOK(v[n])
  BY DEF Sound
<1>2. g \in VNode /\ g.type = v[n].type
  BY <1>1, TruncatedOK
<1>3. g.file_size = 0 /\ g.size = 0
  BY <1>1 DEF Truncated, VNode, Bare
<1>. HIDE DEF g
<1>4. Contents(g) = <<>>
  BY <1>2, <1>3, NoContents
<1>5. /\ Bare([v EXCEPT ![n] = g])
      /\ FilesOf([v EXCEPT ![n] = g]) = [FilesOf(v) EXCEPT ![n] = Contents(g)]
  <2>1. g.type # "FILE" => g.size = 0 /\ g.file_size = 0
    BY <1>3
  <2>. QED
    BY <1>1, <1>2, <2>1, OneFile
<1>. QED
  BY <1>4, <1>5, Zenon DEF g

\* From v to w, new takes the place of the bytes of n, and it is the old ones
\* with bs over them from the offset o on.
Overwrites(v, w, n, o, bs, new) ==
  LET f == Contents(v[n])
      end == IF o + Len(bs) < Len(f) THEN Len(f) ELSE o + Len(bs)
  IN  /\ new \in [1..end -> Byte]
      /\ FilesOf(w) = [FilesOf(v) EXCEPT ![n] = new] /\ Contents(w[n]) = new
      /\ \A i \in 1..end : i > o /\ i <= o + Len(bs) => new[i] = bs[i - o]
      /\ \A i \in 1..end : ~(i > o /\ i <= o + Len(bs)) /\ i <= Len(f) => new[i] = f[i]

\* ramfs_file_write: the bytes written, around them the old ones, and beyond
\* the old end whatever the buffer held.
LEMMA WrittenFiles ==
  ASSUME NEW v, Sound(v), Bare(v), NEW n \in Node, v[n].type = "FILE",
         NEW o \in Nat, NEW bs \in Seq(Byte)
  PROVE  LET w == [v EXCEPT ![n] = Written(@, o, bs)]
         IN  Bare(w) /\ \E new : Overwrites(v, w, n, o, bs, new)
<1>. DEFINE x == v[n]
            required == o + Len(bs)
            buffer == Buffer(x, required)
            data == [i \in 1..Len(buffer) |-> IF i > o /\ i <= required THEN bs[i - o]
                                              ELSE buffer[i]]
            g == Written(x, o, bs)
            w == [v EXCEPT ![n] = Written(@, o, bs)]
            f == Contents(v[n])
            end == IF required < Len(f) THEN Len(f) ELSE required
            new == Contents(g)
<1>1. v \in [Node -> VNode] /\ x \in VNode /\ SizesOK(x) /\ x.type = "FILE"
  BY DEF Sound
<1>2. /\ Len(f) = x.file_size /\ x.file_size \in Nat /\ x.data \in Seq(Byte)
      /\ x.file_size <= Len(x.data) /\ \A i \in 1..x.file_size : f[i] = x.data[i]
  BY ContentsIs
<1>3. required \in Nat /\ Len(bs) \in Nat
  OBVIOUS
<1>4. /\ buffer \in Seq(Byte) /\ required <= Len(buffer) /\ x.file_size <= Len(buffer)
      /\ Len(buffer) \in Nat
  BY <1>1, <1>2, <1>3, BufferIn
<1>5. \A i \in 1..x.file_size : buffer[i] = x.data[i]
  <2>1. CASE required > Len(x.data)
    <3>. DEFINE cap == IF required < MIN_CAPACITY THEN MIN_CAPACITY ELSE 2 * required
    <3>1. buffer = [i \in 1..cap |-> IF i <= x.file_size THEN x.data[i] ELSE 0]
      BY <2>1 DEF Buffer, Grown
    <3>2. cap \in Nat /\ x.file_size <= cap
      <4>1. Len(x.data) \in Nat
        BY <1>2
      <4>. HIDE DEF required, x
      <4>. QED
        BY <1>2, <1>3, <2>1, <4>1, SizesAssumption
    <3>. HIDE DEF cap, buffer, x
    <3>3. \A i \in 1..x.file_size : i \in 1..cap /\ i <= x.file_size
      BY <1>2, <3>2
    <3>. QED
      BY <3>1, <3>3
  <2>2. CASE ~(required > Len(x.data))
    BY <2>2 DEF Buffer
  <2>. QED
    BY <2>1, <2>2
<1>6. g \in VNode /\ SizesOK(g) /\ g.type = "FILE"
  BY <1>1, WrittenOK
<1>7. g.data = data /\ g.file_size = (IF x.file_size > required THEN x.file_size ELSE required)
  <2>1. g = [x EXCEPT !.data = data, !.file_size = Larger(@, required),
                      !.size = IF required > x.file_size THEN required ELSE @]
    BY DEF Written
  <2>. HIDE DEF data, required, g, x
  <2>. QED
    BY <1>1, <2>1 DEF VNode, Larger
<1>8. w = [v EXCEPT ![n] = g]
  BY <1>1
<1>. HIDE DEF w, g
<1>9. Bare(w) /\ FilesOf(w) = [FilesOf(v) EXCEPT ![n] = new] /\ w[n] = g
  BY <1>1, <1>6, <1>8, OneFile
<1>10. g.file_size = end
  BY <1>2, <1>3, <1>7
<1>11. /\ new \in Seq(Byte) /\ Len(new) = end /\ end \in Nat /\ end <= Len(buffer)
       /\ \A i \in 1..end : new[i] = data[i]
  <2>1. Sound(w)
    <3>1. Sound([v EXCEPT ![n] = Written(@, o, bs)])
      BY WriteEvolves DEF Evolves
    <3>. QED
      BY <3>1 DEF w
  <2>2. /\ Contents(w[n]) \in Seq(Byte) /\ Len(Contents(w[n])) = w[n].file_size
        /\ \A i \in 1..w[n].file_size : Contents(w[n])[i] = w[n].data[i]
    BY <1>9, <2>1, ContentsIs
  <2>3. end \in Nat /\ end <= Len(buffer)
    BY <1>2, <1>3, <1>4
  <2>. HIDE DEF end, data, buffer
  <2>. QED
    BY <1>7, <1>9, <1>10, <2>2, <2>3
<1>12. \A i \in 1..end : data[i] = IF i > o /\ i <= required THEN bs[i - o] ELSE buffer[i]
  <2>1. \A i \in 1..end : i \in 1..Len(buffer)
    <3>. HIDE DEF end, buffer
    <3>. QED
      BY <1>4, <1>11
  <2>. HIDE DEF end, buffer
  <2>. QED
    BY <2>1
<1>13. new \in [1..end -> Byte]
  <2>. HIDE DEF new, end
  <2>. QED
    BY <1>11
<1>14. ASSUME NEW i \in 1..end, i > o /\ i <= required PROVE new[i] = bs[i - o]
  <2>. HIDE DEF new, end, data, buffer, required
  <2>. QED
    BY <1>11, <1>12, <1>14
<1>15. ASSUME NEW i \in 1..end, ~(i > o /\ i <= required), i <= Len(f) PROVE new[i] = f[i]
  <2>1. i \in 1..x.file_size
    <3>. HIDE DEF end, x, f
    <3>. QED
      BY <1>2, <1>11, <1>15
  <2>. HIDE DEF new, end, data, buffer, required, f, x
  <2>2. new[i] = buffer[i]
    BY <1>11, <1>12, <1>15
  <2>. QED
    BY <1>2, <1>5, <2>1, <2>2
<1>. HIDE DEF new, f
<1>16. /\ Bare(w) /\ new \in [1..end -> Byte] /\ Contents(w[n]) = new
       /\ FilesOf(w) = [FilesOf(v) EXCEPT ![n] = new]
       /\ \A i \in 1..end : i > o /\ i <= required => new[i] = bs[i - o]
       /\ \A i \in 1..end : ~(i > o /\ i <= required) /\ i <= Len(f) => new[i] = f[i]
  BY <1>9, <1>13, <1>14, <1>15 DEF new
<1>17. Overwrites(v, w, n, o, bs, new)
  BY <1>16, Zenon DEF Overwrites, f
<1>. QED
  BY <1>9, <1>17, Zenon DEF w

\* What vfs_open finds or makes: no file changes its bytes.
LEMMA FoundFiles ==
  ASSUME IInv, Bare(vnode), NEW path \in Paths, NEW creat, NEW heap
  PROVE  LET found == Found(path, creat, heap)
         IN  Bare(found.v) /\ FilesOf(found.v) = FilesOf(vnode)
<1>1. CASE Resolve(vnode, path) = NoNode /\ creat /\ heap /\ Creatable(vnode, path)
  BY <1>1, CreatedFiles DEF Found, IInv
<1>2. CASE ~(Resolve(vnode, path) = NoNode /\ creat /\ heap /\ Creatable(vnode, path))
  BY <1>2 DEF Found
<1>. QED
  BY <1>1, <1>2

\* A call that changes no bytes and no descriptor is none FileSpec knows of.
LEMMA QuietFiles ==
  ASSUME FilesOf(vnode') = FilesOf(vnode), g_fd_table' = g_fd_table, got' = <<>>
  PROVE  FS!Next
<1>1. FS!Other
  BY DEF FS!Other, FS!Nothing, FilesOf
<1>. QED
  BY <1>1 DEF FS!Next

\* vfs_open is an open, or finds nothing.
LEMMA OpenFiles ==
  ASSUME IInv, Bare(vnode), NEW p \in Paths, NEW flags \in OpenFlags, NEW heap \in BOOLEAN,
         vfs_open(p, flags, heap)
  PROVE  Bare(vnode') /\ FS!Next
<1>. DEFINE found == Found(p, "O_CREAT" \in flags, heap)
            n == found.node
            w == [found.v EXCEPT ![n] = Truncated(@)]
            at == IF "O_APPEND" \in flags THEN found.v[n].size ELSE 0
            f == [is_open |-> TRUE, node |-> n, offset |-> at]
<1>1. /\ Evolves(vnode, found.v) /\ (n # NoNode => n \in Node)
      /\ Bare(found.v) /\ FilesOf(found.v) = FilesOf(vnode)
  BY FoundEvolves, FoundFiles DEF IInv
<1>2. /\ got' = <<>>
      /\ \/ vnode' = found.v /\ g_fd_table' = g_fd_table
         \/ /\ n # NoNode /\ FreeFds # {}
            /\ g_fd_table' = [g_fd_table EXCEPT ![LowestFree] = f]
            /\ vnode' = IF "O_TRUNC" \in flags THEN w ELSE found.v
  BY Zenon DEF vfs_open, NoData
<1>. HIDE DEF found
<1>3. CASE vnode' = found.v /\ g_fd_table' = g_fd_table
  BY <1>1, <1>2, <1>3, QuietFiles
<1>4. CASE /\ n # NoNode /\ FreeFds # {}
           /\ g_fd_table' = [g_fd_table EXCEPT ![LowestFree] = f]
           /\ vnode' = IF "O_TRUNC" \in flags THEN w ELSE found.v
  <2>1. n \in Node /\ Sound(found.v)
    BY <1>1, <1>4 DEF Evolves
  <2>2. Bare(w) /\ FilesOf(w) = [FilesOf(vnode) EXCEPT ![n] = <<>>]
    BY <1>1, <2>1, TruncatedFiles
  <2>3. at \in {0, Len(FilesOf(vnode)[n])}
    <3>1. found.v[n].size = Len(FilesOf(found.v)[n])
      BY <1>1, <2>1, ContentsIs
    <3>. QED
      BY <1>1, <3>1
  <2>4. LowestFree \in Fd /\ ~g_fd_table[LowestFree].is_open
    BY <1>4, LowestFreeIn
  <2>. DEFINE cut == "O_TRUNC" \in flags
  <2>5. /\ FilesOf(vnode') = (IF cut THEN [FilesOf(vnode) EXCEPT ![n] = <<>>] ELSE FilesOf(vnode))
        /\ Bare(vnode') /\ cut \in BOOLEAN
    BY <1>1, <1>4, <2>2
  <2>. HIDE DEF w, n, at, cut
  <2>6. FS!Open(LowestFree, n, cut)
    BY <1>2, <1>4, <2>3, <2>4, <2>5 DEF FS!Open, FS!Nothing, FilesOf
  <2>. QED
    BY <2>1, <2>4, <2>5, <2>6 DEF FS!Next
<1>. QED
  BY <1>2, <1>3, <1>4

\* vfs_read returns the bytes of the file from the offset on.
LEMMA ReadFiles ==
  ASSUME IInv, Bare(vnode), NEW d \in Fd, NEW k \in 0..MaxRead, vfs_read(d, k)
  PROVE  Bare(vnode') /\ FS!Next
<1>. DEFINE x == g_fd_table[d].node
            f == vnode[x]
            c == Contents(vnode[x])
            o == g_fd_table[d].offset
            size == f.file_size
            n == IF o >= size THEN 0 ELSE IF k < size - o THEN k ELSE size - o
            last == FS!Upto(o + k, Len(c))
<1>1. /\ g_fd_table[d].is_open
      /\ \/ /\ got' = SubSeq(f.data, o + 1, o + n)
            /\ g_fd_table' = [g_fd_table EXCEPT ![d].offset = o + n]
         \/ got' = <<>> /\ g_fd_table' = g_fd_table
      /\ vnode' = vnode
  BY Zenon DEF vfs_read, NoData
<1>2. g_fd_table[d] \in FileDescriptor
  BY DEF IInv
<1>3. x \in Node /\ o \in Nat /\ k \in Nat
  BY <1>2, SizesAssumption DEF FileDescriptor
<1>4. /\ FilesOf(vnode)[x] = c /\ c \in Seq(Byte) /\ Len(c) = size /\ size \in Nat
      /\ f.data \in Seq(Byte) /\ size <= Len(f.data) /\ \A i \in 1..size : c[i] = f.data[i]
  BY <1>3, ContentsIs DEF IInv
<1>5. CASE got' = <<>> /\ g_fd_table' = g_fd_table
  BY <1>1, <1>5, QuietFiles
<1>6. CASE /\ got' = SubSeq(f.data, o + 1, o + n)
           /\ g_fd_table' = [g_fd_table EXCEPT ![d].offset = o + n]
  <2>. HIDE DEF x, f, c, o, size
  <2>1. /\ n \in Nat /\ (n > 0 => o + n <= size /\ last = o + n) /\ (n = 0 => last <= o)
        /\ last \in Nat /\ last <= size
    BY <1>3, <1>4 DEF FS!Upto
  <2>. HIDE DEF n, last
  <2>. DEFINE a == SubSeq(f.data, o + 1, o + n)
              b == SubSeq(c, o + 1, last)
  <2>2. /\ \A i \in (o + 1)..(o + n) : f.data[i] \in Byte /\ c[i] = f.data[i]
        /\ \A i \in (o + 1)..last : c[i] \in Byte
    <3>1. ASSUME NEW i \in (o + 1)..(o + n) PROVE i \in 1..Len(f.data) /\ i \in 1..size
      <4>1. n > 0
        BY <1>3, <2>1
      <4>2. Len(f.data) \in Nat
        BY <1>4
      <4>. QED
        BY <1>3, <1>4, <2>1, <4>1, <4>2
    <3>2. ASSUME NEW i \in (o + 1)..last PROVE i \in 1..Len(c)
      BY <1>3, <1>4, <2>1
    <3>. QED
      BY <1>4, <3>1, <3>2
  <2>3. /\ a \in Seq(Byte) /\ Len(a) = (IF o + 1 <= o + n THEN (o + n) - (o + 1) + 1 ELSE 0)
        /\ \A i \in 1..((o + n) - (o + 1) + 1) : a[i] = f.data[(o + 1) + i - 1]
    BY <1>3, <2>1, <2>2, SubSeqProperties
  <2>4. /\ b \in Seq(Byte) /\ Len(b) = (IF o + 1 <= last THEN last - (o + 1) + 1 ELSE 0)
        /\ \A i \in 1..(last - (o + 1) + 1) : b[i] = c[(o + 1) + i - 1]
    BY <1>3, <2>1, <2>2, SubSeqProperties
  <2>. HIDE DEF a, b
  <2>5. Len(a) = n /\ Len(b) = n /\ (o + n) - (o + 1) + 1 = n /\ (n > 0 => last - (o + 1) + 1 = n)
    BY <1>3, <2>1, <2>3, <2>4
  <2>6. ASSUME NEW i \in 1..n PROVE a[i] = b[i]
    <3>1. n > 0 /\ (o + 1) + i - 1 \in (o + 1)..(o + n)
      BY <1>3, <2>1
    <3>2. a[i] = f.data[(o + 1) + i - 1] /\ b[i] = c[(o + 1) + i - 1]
      BY <2>3, <2>4, <2>5, <3>1
    <3>. QED
      BY <2>2, <3>1, <3>2
  <2>7. a = b
    BY <2>3, <2>4, <2>5, <2>6, SeqEqual
  <2>8. /\ got' = SubSeq(c, o + 1, last) /\ Len(got') = n
        /\ g_fd_table' = [g_fd_table EXCEPT ![d].offset = o + Len(got')]
    BY <1>6, <2>5, <2>7 DEF a, b
  <2>9. FS!Read(d, k)
    <3>1. [m \in Node |-> Contents(vnode[m])][x] = c
      BY <1>4 DEF FilesOf
    <3>2. UNCHANGED [m \in Node |-> Contents(vnode[m])]
      BY <1>1
    <3>. QED
      BY <1>1, <2>8, <3>1, <3>2 DEF FS!Read, x, o, last
  <2>. QED
    BY <1>1, <2>9 DEF FS!Next
<1>. QED
  BY <1>1, <1>5, <1>6

\* vfs_write is a write to one file, or fails.
LEMMA WriteFiles ==
  ASSUME IInv, Bare(vnode), NEW d \in Fd, NEW bs \in Payloads, NEW heap,
         vfs_write(d, bs, heap)
  PROVE  Bare(vnode') /\ FS!Next
<1>. DEFINE n == g_fd_table[d].node
            o == g_fd_table[d].offset
            w == [vnode EXCEPT ![n] = Written(@, o, bs)]
            f == Contents(vnode[n])
            end == IF o + Len(bs) < Len(f) THEN Len(f) ELSE o + Len(bs)
<1>1. /\ g_fd_table[d].is_open /\ got' = <<>>
      /\ \/ /\ Writable(vnode[n], o + Len(bs), heap) /\ vnode' = w
            /\ g_fd_table' = [g_fd_table EXCEPT ![d].offset = o + Len(bs)]
         \/ vnode' = vnode /\ g_fd_table' = g_fd_table
  BY Zenon DEF vfs_write, NoData
<1>2. g_fd_table[d] \in FileDescriptor /\ Sound(vnode)
  BY DEF IInv
<1>3. n \in Node /\ o \in Nat /\ bs \in Seq(Byte)
  BY <1>2, InputsAssumption DEF FileDescriptor
<1>4. CASE vnode' = vnode /\ g_fd_table' = g_fd_table
  BY <1>1, <1>4, QuietFiles
<1>5. CASE /\ Writable(vnode[n], o + Len(bs), heap) /\ vnode' = w
           /\ g_fd_table' = [g_fd_table EXCEPT ![d].offset = o + Len(bs)]
  <2>1. vnode[n].type = "FILE"
    BY <1>5 DEF Writable
  <2>2. FilesOf(vnode)[n] = f /\ Len(f) \in Nat
    BY <1>2, <1>3, ContentsIs
  <2>3. Bare(w) /\ \E new : Overwrites(vnode, w, n, o, bs, new)
    <3>. HIDE DEF n, o
    <3>. QED
      BY <1>2, <1>3, <2>1, WrittenFiles
  <2>. HIDE DEF w, n, o
  <2>4. PICK new : /\ new \in [1..end -> Byte]
                   /\ FilesOf(w) = [FilesOf(vnode) EXCEPT ![n] = new]
                   /\ \A i \in 1..end : i > o /\ i <= o + Len(bs) => new[i] = bs[i - o]
                   /\ \A i \in 1..end : ~(i > o /\ i <= o + Len(bs)) /\ i <= Len(f) => new[i] = f[i]
    BY <2>3, Zenon DEF Overwrites
  <2>. HIDE DEF f, end
  <2>5. new = [i \in 1..end |-> IF i > o /\ i <= o + Len(bs) THEN bs[i - o]
                                ELSE IF i <= Len(f) THEN f[i] ELSE new[i]]
    BY <2>4
  <2>6. FilesOf(vnode') = [FilesOf(vnode) EXCEPT ![n] =
               [i \in 1..end |-> IF i > o /\ i <= o + Len(bs) THEN bs[i - o]
                                 ELSE IF i <= Len(FilesOf(vnode)[n]) THEN FilesOf(vnode)[n][i]
                                 ELSE new[i]]]
    BY <1>5, <2>2, <2>4, <2>5
  <2>7. FS!Write(d, bs)
    <3>. DEFINE F == FilesOf(vnode)
                upto == IF o + Len(bs) < Len(F[n]) THEN Len(F[n]) ELSE o + Len(bs)
    <3>1. upto = end
      BY <2>2 DEF end
    <3>. HIDE DEF upto, F
    <3>2. \E gap \in [1..upto -> Byte] :
             FilesOf(vnode)' = [F EXCEPT ![n] = [i \in 1..upto |->
                                IF i > o /\ i <= o + Len(bs) THEN bs[i - o]
                                ELSE IF i <= Len(F[n]) THEN F[n][i] ELSE gap[i]]]
      <4>1. FilesOf(vnode)' = FilesOf(vnode')
        BY DEF FilesOf
      <4>. QED
        BY <2>4, <2>6, <3>1, <4>1 DEF F
    <3>. QED
      BY <1>1, <1>5, <3>2, Zenon DEF FS!Write, FS!Nothing, FilesOf, F, upto, n, o
  <2>. QED
    BY <1>5, <2>3, <2>7 DEF FS!Next
<1>. QED
  BY <1>1, <1>4, <1>5

\* vfs_close and vfs_lseek move the descriptor and nothing else.
LEMMA PlaceFiles ==
  ASSUME IInv, Bare(vnode), NEW d \in Fd,
         \/ vfs_close(d)
         \/ \E delta \in Deltas, whence \in {"SEEK_SET", "SEEK_CUR", "SEEK_END"} :
              vfs_lseek(d, delta, whence)
  PROVE  Bare(vnode') /\ FS!Next
<1>1. CASE vfs_close(d)
  <2>1. /\ g_fd_table[d].is_open /\ got' = <<>> /\ vnode' = vnode
        /\ g_fd_table' = [g_fd_table EXCEPT ![d] = [is_open |-> FALSE, node |-> Root, offset |-> 0]]
    BY <1>1 DEF vfs_close, NoData, ClosedFd
  <2>2. Root \in Node
    BY SizesAssumption DEF Root, Node
  <2>3. FS!Close(d, Root)
    BY <2>1 DEF FS!Close, FS!Nothing
  <2>. QED
    BY <2>1, <2>2, <2>3 DEF FS!Next
<1>2. CASE \E delta \in Deltas, whence \in {"SEEK_SET", "SEEK_CUR", "SEEK_END"} :
             vfs_lseek(d, delta, whence)
  <2>1. PICK o \in 0..MaxSize :
           /\ g_fd_table[d].is_open /\ got' = <<>> /\ vnode' = vnode
           /\ g_fd_table' = [g_fd_table EXCEPT ![d].offset = o]
    BY <1>2, Zenon DEF vfs_lseek, NoData
  <2>2. FS!Seek(d, o)
    BY <2>1 DEF FS!Seek, FS!Nothing
  <2>. QED
    BY <2>1, <2>2 DEF FS!Next
<1>. QED
  BY <1>1, <1>2

\* Bytes written to an empty file from its start on are what it holds then.
LEMMA WrittenWhole ==
  ASSUME NEW v, NEW w, NEW m \in Node, NEW bs \in Seq(Byte), Contents(v[m]) = <<>>,
         NEW new, Overwrites(v, w, m, 0, bs, new)
  PROVE  new = bs
<1>. DEFINE f == Contents(v[m])
            end == IF 0 + Len(bs) < Len(f) THEN Len(f) ELSE 0 + Len(bs)
<1>1. Len(bs) \in Nat /\ Len(f) = 0
  OBVIOUS
<1>2. end = Len(bs)
  BY <1>1
<1>3. /\ new \in [1..end -> Byte]
      /\ \A i \in 1..end : i > 0 /\ i <= 0 + Len(bs) => new[i] = bs[i - 0]
  BY Zenon DEF Overwrites
<1>. HIDE DEF end
<1>4. new \in [1..Len(bs) -> Byte] /\ \A i \in 1..Len(bs) : new[i] = bs[i]
  BY <1>1, <1>2, <1>3
<1>5. bs = [i \in 1..Len(bs) |-> bs[i]]
  OBVIOUS
<1>. QED
  BY <1>4, <1>5

\* vfs_rename copies a file, or fails; taking the old name away changes no bytes.
LEMMA RenameFiles ==
  ASSUME IInv, Bare(vnode), NEW old \in Paths, NEW to \in Paths, NEW heap, NEW room,
         vfs_rename(old, to, heap, room)
  PROVE  Bare(vnode') /\ FS!Next
<1>. DEFINE n == Resolve(vnode, old)
            found == Found(to, TRUE, heap)
            m == found.node
            opened == [found.v EXCEPT ![m] = Truncated(@)]
            bytes == Contents(opened[n])
            writes == bytes # <<>> /\ Writable(opened[m], Len(bytes), room)
            written == [opened EXCEPT ![m] = Written(@, 0, bytes)]
            copied == IF writes THEN written ELSE opened
            F == FilesOf(vnode)
<1>1. /\ n # NoNode /\ vnode[n].type = "FILE" /\ got' = <<>> /\ g_fd_table' = g_fd_table
      /\ \/ vnode' = found.v
         \/ m # NoNode /\ vnode' = Removed(copied, old)
  BY Zenon DEF vfs_rename, NoData
<1>2. /\ Evolves(vnode, found.v) /\ (m # NoNode => m \in Node)
      /\ Bare(found.v) /\ FilesOf(found.v) = F
  BY FoundEvolves, FoundFiles DEF IInv
<1>3. CASE vnode' = found.v
  BY <1>1, <1>2, <1>3, QuietFiles
<1>4. CASE m # NoNode /\ vnode' = Removed(copied, old)
  <2>1. n \in Node
    BY <1>1, ResolvedAllocated DEF IInv
  <2>. HIDE DEF found, n, F
  <2>2. m \in Node /\ Sound(found.v)
    BY <1>2, <1>4 DEF Evolves
  <2>. HIDE DEF m
  <2>3. Sound(opened)
    BY <2>2, TruncateEvolves DEF Evolves
  <2>4. Bare(opened) /\ FilesOf(opened) = [F EXCEPT ![m] = <<>>]
    <3>1. /\ Bare(opened)
          /\ FilesOf(opened) = [FilesOf(found.v) EXCEPT ![m] = <<>>]
      BY <1>2, <2>2, TruncatedFiles
    <3>. HIDE DEF opened
    <3>. QED
      BY <1>2, <3>1
  <2>. HIDE DEF opened
  <2>5. DOMAIN F = Node
    BY DEF F, FilesOf
  <2>6. /\ bytes = FilesOf(opened)[n] /\ bytes \in Seq(Byte)
        /\ Contents(opened[m]) = FilesOf(opened)[m]
    BY <2>1, <2>2, <2>3, <2>4, ContentsIs
  <2>. HIDE DEF bytes
  <2>7. Contents(opened[m]) = <<>> /\ bytes = (IF n = m THEN <<>> ELSE F[n])
    BY <2>1, <2>2, <2>4, <2>5, <2>6
  <2>8. CASE ~writes
    <3>1. Bare(vnode') /\ FilesOf(vnode') = FilesOf(opened)
      BY <1>4, <2>3, <2>4, <2>8, RemovedFiles
    <3>2. FilesOf(vnode') = [F EXCEPT ![m] = <<>>]
      BY <2>4, <3>1
    <3>3. FS!Copy(n, m)
      BY <1>1, <3>2 DEF FS!Copy, FS!Nothing, F, FilesOf
    <3>. QED
      BY <2>1, <2>2, <3>1, <3>3 DEF FS!Next
  <2>9. CASE writes
    <3>1. n # m /\ bytes = F[n] /\ opened[m].type = "FILE"
      BY <2>7, <2>9 DEF Writable
    <3>2. Bare(written) /\ (\E new : Overwrites(opened, written, m, 0, bytes, new))
      BY <2>2, <2>3, <2>4, <2>6, <3>1, WrittenFiles
    <3>3. Sound(written)
      BY <2>2, <2>3, <2>6, <3>1, WriteEvolves DEF Evolves
    <3>. HIDE DEF written
    <3>4. FilesOf(written) = [FilesOf(opened) EXCEPT ![m] = bytes]
      <4>1. PICK new : Overwrites(opened, written, m, 0, bytes, new)
        BY <3>2
      <4>2. new = bytes
        BY <2>2, <2>6, <2>7, <4>1, WrittenWhole
      <4>3. FilesOf(written) = [FilesOf(opened) EXCEPT ![m] = new]
        BY <4>1, Zenon DEF Overwrites
      <4>. QED
        BY <4>2, <4>3
    <3>5. FilesOf(written) = [F EXCEPT ![m] = F[n]]
      BY <2>4, <2>5, <3>1, <3>4
    <3>6. Bare(vnode') /\ FilesOf(vnode') = FilesOf(written)
      BY <1>4, <2>9, <3>2, <3>3, RemovedFiles
    <3>7. FilesOf(vnode') = [F EXCEPT ![m] = F[n]]
      BY <3>5, <3>6
    <3>8. FS!Copy(n, m)
      BY <1>1, <3>1, <3>7 DEF FS!Copy, FS!Nothing, F, FilesOf
    <3>. QED
      BY <2>1, <2>2, <3>6, <3>8 DEF FS!Next
  <2>. QED
    BY <2>8, <2>9
<1>. QED
  BY <1>1, <1>3, <1>4

\* ramfs_init and vfs_init: every file is empty and every descriptor closed.
LEMMA FilesInit == Init => Bare(vnode) /\ FS!Init
<1>. SUFFICES ASSUME Init PROVE Bare(vnode) /\ FS!Init
  OBVIOUS
<1>. DEFINE r == [Blank EXCEPT !.type = "DIRECTORY"]
<1>1. Blank \in VNode /\ Blank.size = 0 /\ Blank.file_size = 0
  BY InputsAssumption DEF Blank, VNode, VNodeType
<1>2. r \in VNode /\ r.size = 0 /\ r.file_size = 0
  BY <1>1 DEF VNode, VNodeType
<1>. HIDE DEF r
<1>3. vnode = [n \in Node |-> IF n = Root THEN r ELSE Blank]
  BY DEF Init, r
<1>4. \A n \in Node : vnode[n] \in VNode /\ vnode[n].size = 0 /\ vnode[n].file_size = 0
  BY <1>1, <1>2, <1>3
<1>5. Bare(vnode)
  BY <1>4 DEF Bare
<1>6. \A n \in Node : Contents(vnode[n]) = <<>>
  BY <1>4, NoContents
<1>7. Root \in Node
  BY SizesAssumption DEF Root, Node
<1>8. g_fd_table = [d \in Fd |-> [is_open |-> FALSE, node |-> Root, offset |-> 0]] /\ got = <<>>
  BY DEF Init, ClosedFd
<1>. QED
  BY <1>5, <1>6, <1>7, <1>8 DEF FS!Init

\* Every call is one FileSpec allows.
LEMMA FilesStep ==
  ASSUME IInv, Bare(vnode), [Next]_vars
  PROVE  Bare(vnode') /\ [FS!Next]_(FS!vars)
<1>1. ASSUME NEW p \in Paths, NEW flags \in OpenFlags, NEW heap \in BOOLEAN, vfs_open(p, flags, heap)
      PROVE  Bare(vnode') /\ FS!Next
  BY <1>1, OpenFiles
<1>2. ASSUME NEW p \in Paths, NEW heap \in BOOLEAN, vfs_touch(p, heap)
      PROVE  Bare(vnode') /\ FS!Next
  <2>1. vnode' = Found(p, TRUE, heap).v /\ got' = <<>> /\ g_fd_table' = g_fd_table
    BY <1>2 DEF vfs_touch, NoData
  <2>2. Bare(vnode') /\ FilesOf(vnode') = FilesOf(vnode)
    BY <2>1, FoundFiles
  <2>. QED
    BY <2>1, <2>2, QuietFiles
<1>3. ASSUME NEW d \in Fd, vfs_close(d) PROVE Bare(vnode') /\ FS!Next
  BY <1>3, PlaceFiles
<1>4. ASSUME NEW d \in Fd, NEW k \in 0..MaxRead, vfs_read(d, k) PROVE Bare(vnode') /\ FS!Next
  BY <1>4, ReadFiles
<1>5. ASSUME NEW d \in Fd, NEW bs \in Payloads, NEW heap \in BOOLEAN, vfs_write(d, bs, heap)
      PROVE  Bare(vnode') /\ FS!Next
  BY <1>5, WriteFiles
<1>6. ASSUME NEW d \in Fd,
             \E delta \in Deltas, whence \in {"SEEK_SET", "SEEK_CUR", "SEEK_END"} :
               vfs_lseek(d, delta, whence)
      PROVE  Bare(vnode') /\ FS!Next
  BY <1>6, PlaceFiles
<1>7. ASSUME NEW p \in Paths, vfs_mkdir(p) PROVE Bare(vnode') /\ FS!Next
  <2>1. /\ Creatable(vnode, p) /\ vnode' = Created(vnode, p, "DIRECTORY")
        /\ got' = <<>> /\ g_fd_table' = g_fd_table
    BY <1>7 DEF vfs_mkdir, NoData
  <2>2. Bare(vnode') /\ FilesOf(vnode') = FilesOf(vnode)
    BY <2>1, CreatedFiles DEF IInv
  <2>. QED
    BY <2>1, <2>2, QuietFiles
<1>8. ASSUME NEW p \in Paths, vfs_remove(p) PROVE Bare(vnode') /\ FS!Next
  <2>1. vnode' = Removed(vnode, p) /\ got' = <<>> /\ g_fd_table' = g_fd_table
    BY <1>8 DEF vfs_remove, NoData
  <2>2. Bare(vnode') /\ FilesOf(vnode') = FilesOf(vnode)
    BY <2>1, RemovedFiles DEF IInv
  <2>. QED
    BY <2>1, <2>2, QuietFiles
<1>9. ASSUME NEW p \in Paths, NEW q \in Paths, NEW heap \in BOOLEAN, NEW room \in BOOLEAN,
             vfs_rename(p, q, heap, room)
      PROVE  Bare(vnode') /\ FS!Next
  BY <1>9, RenameFiles
<1>10. CASE UNCHANGED vars
  BY <1>10 DEF vars, FS!vars
<1>. QED
  BY <1>1, <1>2, <1>3, <1>4, <1>5, <1>6, <1>7, <1>8, <1>9, <1>10 DEF Next

\* Buffers, capacities, vnodes and directories implement files: a read returns
\* what was last written there, and a write, a rename or a failure touches no
\* other file (ramfs_file_read, ramfs_file_write, vfs_rename).
THEOREM FilesImplemented == Spec => ImplementsFiles
<1>1. IInv /\ Bare(vnode) /\ [Next]_vars => Bare(vnode)' /\ [FS!Next]_(FS!vars)
  <2>1. Bare(vnode)' <=> Bare(vnode')
    BY DEF Bare
  <2>. QED
    BY <2>1, FilesStep
<1>2. Init => Bare(vnode) /\ FS!Init
  BY FilesInit
<1>. QED
  BY <1>1, <1>2, Invariant, PTL DEF Spec, ImplementsFiles, FS!Spec

=============================================================================
