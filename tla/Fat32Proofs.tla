----------------------------- MODULE Fat32Proofs -----------------------------
(***************************************************************************)
(* Proofs about Fat32: whatever calls are made, and wherever the power     *)
(* fails in those that open, write or make a directory, the chains on disk *)
(* lie apart, back the sizes, and directories show nothing but entries.    *)
(***************************************************************************)
EXTENDS Fat32, FiniteSetTheorems, SequenceTheorems, NaturalsInduction, WellFoundedInduction, TLAPS

-----------------------------------------------------------------------------
(* What the disk holds: T is the table, D the slots.  Every cluster has an *)
(* owner, which is the root directory, the place of an entry, or nobody,   *)
(* and a position in the owner's chain, which has a length.                *)

Fat == [Cluster -> Cluster \cup {FREE, EOC}]
Slots == [Index -> Slot]
Disk == [Cluster -> Slots]
Place == [cluster : Cluster, slot : Index]
Root == [cluster |-> 0, slot |-> 1]
Nobody == [cluster |-> 0, slot |-> 0]
Owner == Place \cup {Root, Nobody}

\* The directory entry at a place.
EntryAt(D, p) == D[p.cluster][p.slot]

\* Who owns directories that are searched: the root, and directories in it.
InRoot(D, own, p) ==
  p \in Place /\ own[p.cluster] = Root /\ EntryAt(D, p).name \in Name /\ EntryAt(D, p).dir
DirOwner(D, own, x) == x = Root \/ InRoot(D, own, x)
IsEntry(D, own, p) ==
  p \in Place /\ EntryAt(D, p).name \in Name /\ DirOwner(D, own, own[p.cluster])

Typed(T, D, own, pos, len) ==
  T \in Fat /\ D \in Disk /\ own \in [Cluster -> Owner] /\ pos \in [Cluster -> Nat]
  /\ len \in [Owner -> Nat]

\* From each cluster the table leads to the next of the same owner, or ends.
LinkOK(T, own, pos, len, c) ==
  /\ pos[c] \in 1..len[own[c]]
  /\ IF pos[c] = len[own[c]] THEN T[c] = EOC
     ELSE T[c] \in Cluster /\ own[T[c]] = own[c] /\ pos[T[c]] = pos[c] + 1

\* An entry's first cluster is its own, and its size is within its chain.
EntryOK(D, own, pos, len, p) ==
  LET e == EntryAt(D, p)
  IN  /\ IF e.first = 0 THEN ~e.dir /\ e.name \in Foreign /\ len[p] = 0
         ELSE own[e.first] = p /\ pos[e.first] = 1
      /\ e.size <= PerCluster * len[p]

Tree(T, D, own, pos, len) ==
  /\ Typed(T, D, own, pos, len)
  /\ own[2] = Root /\ pos[2] = 1
  /\ \A c \in Cluster : own[c] # Nobody => LinkOK(T, own, pos, len, c)
  /\ \A c, d \in Cluster : own[c] # Nobody /\ own[c] = own[d] /\ pos[c] = pos[d] => c = d
  /\ \A c \in Cluster : own[c] \notin {Root, Nobody} => IsEntry(D, own, own[c])
  /\ \A p \in Place : IsEntry(D, own, p) => EntryOK(D, own, pos, len, p)
  /\ \A c \in Cluster : DirOwner(D, own, own[c]) => \A i \in Index : D[c][i].name # "data"

-----------------------------------------------------------------------------
(* Induction and chains.                                                   *)

\* The lowest member of a set of numbers.
LEMMA LowestIn ==
  ASSUME NEW S \in SUBSET Nat, S # {}
  PROVE  Lowest(S) \in S /\ \A y \in S : Lowest(S) <= y
<1>. DEFINE R == {ss \in Nat \X Nat : ss[1] < ss[2]}
<1>1. IsWellFoundedOn(R, Nat)
  BY NatLessThanWellFounded, Zenon DEF OpToRel
<1>2. PICK x \in S : \A y \in S : <<y, x>> \notin R
  <2>. HIDE DEF R
  <2>. QED
    BY <1>1, WFMin
<1>3. \A y \in S : x <= y
  <2>. TAKE y \in S
  <2>1. <<y, x>> \in Nat \X Nat /\ ~(y < x)
    BY <1>2
  <2>. QED
    BY <2>1
<1>. QED
  BY <1>3 DEF Lowest

\* A set that has 0 and with each number below n the next one has all up to n.
LEMMA UpTo ==
  ASSUME NEW n \in Nat, NEW S, 0 \in S, \A k \in 0..(n - 1) : k \in S => k + 1 \in S
  PROVE  \A k \in 0..n : k \in S
<1>. DEFINE B == {k \in 0..n : k \notin S}
<1>1. SUFFICES ASSUME B # {} PROVE FALSE
  OBVIOUS
<1>2. B \in SUBSET Nat
  OBVIOUS
<1>. DEFINE m == Lowest(B)
<1>3. m \in B /\ \A y \in B : m <= y
  BY <1>1, <1>2, LowestIn
<1>4. m \in 0..n /\ m \notin S /\ m # 0
  BY <1>3
<1>. HIDE DEF m
<1>5. m - 1 \in 0..(n - 1) /\ m - 1 \notin B
  BY <1>3, <1>4
<1>6. m - 1 \in S
  BY <1>5
<1>7. (m - 1) + 1 \in S
  BY <1>5, <1>6
<1>. QED
  BY <1>4, <1>7

\* The function a walk is.
IsWalk(T, c, w, n) ==
  w = [k \in 0..n |-> IF k = 0 THEN IF Ends(c) THEN <<>> ELSE <<c>> ELSE Onward(T, w[k - 1])]

\* A walk along a chain is followed one cluster after another.
LEMMA WalkIs ==
  ASSUME NEW T, NEW c
  PROVE  IsWalk(T, c, Walk(T, c), LastCluster)
<1>. DEFINE S == {n \in Nat : \E w : IsWalk(T, c, w, n)}
<1>1. 0 \in S
  <2>1. IsWalk(T, c, [k \in 0..0 |-> IF Ends(c) THEN <<>> ELSE <<c>>], 0)
    BY DEF IsWalk
  <2>. QED
    BY <2>1
<1>2. ASSUME NEW n \in Nat, n \in S PROVE n + 1 \in S
  <2>1. PICK w : IsWalk(T, c, w, n)
    BY <1>2
  <2>. DEFINE v == [k \in 0..(n + 1) |-> IF k = n + 1 THEN Onward(T, w[n]) ELSE w[k]]
  <2>2. ASSUME NEW k \in 0..(n + 1)
        PROVE  v[k] = IF k = 0 THEN IF Ends(c) THEN <<>> ELSE <<c>> ELSE Onward(T, v[k - 1])
    <3>1. CASE k = n + 1
      BY <3>1
    <3>2. CASE k # n + 1
      <4>1. k \in 0..n /\ v[k] = w[k] /\ (k # 0 => k - 1 \in 0..n /\ v[k - 1] = w[k - 1])
        BY <3>2
      <4>2. w[k] = IF k = 0 THEN IF Ends(c) THEN <<>> ELSE <<c>> ELSE Onward(T, w[k - 1])
        BY <2>1, <4>1 DEF IsWalk
      <4>. HIDE DEF v
      <4>. QED
        BY <4>1, <4>2
    <3>. QED
      BY <3>1, <3>2
  <2>3. IsWalk(T, c, v, n + 1)
    BY <2>2, Zenon DEF IsWalk
  <2>. QED
    BY <2>3
<1>3. LastCluster \in Nat
  BY Fat32Assumption
<1>. HIDE DEF S
<1>4. LastCluster \in S
  BY <1>1, <1>2, <1>3, UpTo
<1>5. \E w : IsWalk(T, c, w, LastCluster)
  BY <1>4 DEF S
<1>. QED
  BY <1>5, Zenon DEF IsWalk, Walk

\* A chain of the owner x: all of its clusters, in order.
OwnChain(s, T, own, pos, len, x) ==
  /\ s \in Seq(Cluster) /\ Len(s) = len[x] /\ Len(s) \in 1..(LastCluster - 1)
  /\ T[Last(s)] = EOC
  /\ \A i \in 1..Len(s) : own[s[i]] = x /\ pos[s[i]] = i

\* Clusters are natural numbers, and none of them is a mark.
LEMMA Clusters ==
  /\ LastCluster \in Nat /\ LastCluster >= 2 /\ Cluster \subseteq Nat
  /\ 2 \in Cluster /\ 0 \notin Cluster /\ 1 \notin Cluster
  /\ PerCluster \in Nat /\ PerCluster >= 2
BY Fat32Assumption DEF Cluster

\* The first k clusters of the owner x.
Goes(s, k, own, pos, len, x) ==
  /\ s \in Seq(Cluster) /\ Len(s) = (IF k + 1 <= len[x] THEN k + 1 ELSE len[x])
  /\ \A i \in 1..Len(s) : own[s[i]] = x /\ pos[s[i]] = i

\* A step along the table goes on in the same chain.
LEMMA OnwardGoes ==
  ASSUME NEW T, NEW D, NEW own, NEW pos, NEW len, Tree(T, D, own, pos, len),
         NEW x \in Owner, x # Nobody, len[x] \in Nat \ {0},
         NEW k \in Nat, NEW s, Goes(s, k, own, pos, len, x)
  PROVE  Goes(Onward(T, s), k + 1, own, pos, len, x)
<1>. DEFINE l == Len(s)
            z == s[l]
<1>1. /\ s \in Seq(Cluster) /\ l \in Nat /\ l >= 1 /\ l <= len[x] /\ (l < len[x] => l = k + 1)
      /\ \A i \in 1..l : s[i] \in Cluster /\ own[s[i]] = x /\ pos[s[i]] = i
      /\ l = (IF k + 1 <= len[x] THEN k + 1 ELSE len[x])
  BY DEF Goes
<1>2. z \in Cluster /\ own[z] = x /\ pos[z] = l /\ s # <<>> /\ Last(s) = z
  BY <1>1 DEF Last
<1>3. LinkOK(T, own, pos, len, z)
  BY <1>2, Zenon DEF Tree
<1>. HIDE DEF l, z
<1>4. CASE l = len[x]
  <2>1. Ends(T[z])
    BY <1>2, <1>3, <1>4, Clusters DEF LinkOK, Ends, EOC
  <2>2. Onward(T, s) = s
    BY <1>2, <2>1 DEF Onward
  <2>3. l = (IF k + 1 + 1 <= len[x] THEN k + 1 + 1 ELSE len[x])
    BY <1>1, <1>4
  <2>. QED
    BY <1>1, <2>2, <2>3 DEF Goes, l
<1>5. CASE l # len[x]
  <2>1. T[z] \in Cluster /\ own[T[z]] = x /\ pos[T[z]] = l + 1
    BY <1>2, <1>3, <1>5 DEF LinkOK
  <2>2. Onward(T, s) = Append(s, T[z])
    BY <1>2, <2>1 DEF Onward, Ends
  <2>. DEFINE a == Append(s, T[z])
  <2>3. a \in Seq(Cluster) /\ Len(a) = l + 1 /\ (\A i \in 1..l : a[i] = s[i]) /\ a[l + 1] = T[z]
    BY <1>1, <2>1, AppendProperties DEF l
  <2>. HIDE DEF a
  <2>4. ASSUME NEW i \in 1..(l + 1) PROVE own[a[i]] = x /\ pos[a[i]] = i
    <3>1. i \in 1..l \/ i = l + 1
      BY <1>1
    <3>. QED
      BY <1>1, <2>1, <2>3, <3>1
  <2>5. l + 1 = (IF k + 1 + 1 <= len[x] THEN k + 1 + 1 ELSE len[x])
    BY <1>1, <1>5
  <2>6. Goes(a, k + 1, own, pos, len, x)
    BY <2>3, <2>4, <2>5 DEF Goes
  <2>. QED
    BY <2>2, <2>6 DEF a
<1>. QED
  BY <1>4, <1>5

\* From an owner's first cluster the code goes through all of its clusters.
LEMMA ChainOwned ==
  ASSUME NEW T, NEW D, NEW own, NEW pos, NEW len, Tree(T, D, own, pos, len),
         NEW c \in Cluster, own[c] # Nobody, pos[c] = 1
  PROVE  OwnChain(Chain(T, c), T, own, pos, len, own[c])
<1>. DEFINE x == own[c]
            w == Walk(T, c)
            S == {k \in Nat : k <= LastCluster => Goes(w[k], k, own, pos, len, x)}
<1>1. LinkOK(T, own, pos, len, c) /\ Typed(T, D, own, pos, len)
  BY Zenon DEF Tree
<1>2. x \in Owner /\ len[x] \in Nat \ {0}
  BY <1>1 DEF LinkOK, Typed
<1>. HIDE DEF x
<1>3. /\ w[0] = <<c>> /\ \A k \in 1..LastCluster : w[k] = Onward(T, w[k - 1])
  <2>1. IsWalk(T, c, w, LastCluster)
    BY WalkIs
  <2>. HIDE DEF w
  <2>2. \A k \in 0..LastCluster :
          w[k] = IF k = 0 THEN IF Ends(c) THEN <<>> ELSE <<c>> ELSE Onward(T, w[k - 1])
    BY <2>1 DEF IsWalk
  <2>. QED
    BY <2>2, Clusters DEF Ends
<1>. HIDE DEF w
<1>4. 0 \in S
  <2>1. <<c>> \in Seq(Cluster) /\ Len(<<c>>) = 1 /\ <<c>>[1] = c
    OBVIOUS
  <2>2. 0 + 1 <= len[x] /\ \A i \in 1..1 : i = 1
    BY <1>2
  <2>3. Goes(<<c>>, 0, own, pos, len, x)
    BY <2>1, <2>2 DEF Goes, x
  <2>. QED
    BY <1>3, <2>3
<1>5. ASSUME NEW k \in 0..(LastCluster - 1), k \in S PROVE k + 1 \in S
  <2>1. k \in Nat /\ k + 1 \in 1..LastCluster /\ (k + 1) - 1 = k
    BY Clusters
  <2>2. Goes(w[k], k, own, pos, len, x)
    BY <1>5, <2>1, Clusters
  <2>3. Goes(Onward(T, w[k]), k + 1, own, pos, len, x)
    BY <1>2, <2>1, <2>2, OnwardGoes DEF x
  <2>. QED
    BY <1>3, <2>1, <2>3
<1>6. LastCluster \in S
  <2>. HIDE DEF S
  <2>. QED
    BY <1>4, <1>5, UpTo, Clusters
<1>. DEFINE s == w[LastCluster]
            n == Len(s)
<1>7. /\ s \in Seq(Cluster) /\ n \in Nat
      /\ n = (IF LastCluster + 1 <= len[x] THEN LastCluster + 1 ELSE len[x])
      /\ \A i \in 1..n : s[i] \in Cluster /\ own[s[i]] = x /\ pos[s[i]] = i
  BY <1>6, Clusters DEF Goes
<1>. HIDE DEF s, n
<1>8. n < LastCluster
  <2>1. SUFFICES ASSUME n >= LastCluster PROVE FALSE
    BY <1>7, Clusters
  <2>. DEFINE f == [i \in 1..LastCluster |-> s[i]]
  <2>2. f \in [1..LastCluster -> Cluster]
    BY <1>7, <2>1, Clusters
  <2>3. IsFiniteSet(1..LastCluster) /\ Cardinality(1..LastCluster) = LastCluster
    BY FS_Interval, Clusters
  <2>4. IsFiniteSet(Cluster) /\ Cardinality(Cluster) = LastCluster - 1
    BY FS_Interval, Clusters DEF Cluster
  <2>5. PICK i \in 1..LastCluster, j \in 1..LastCluster : i # j /\ f[i] = f[j]
    <3>. HIDE DEF f
    <3>. DEFINE I == 1..LastCluster
    <3>1. IsFiniteSet(I) /\ Cardinality(Cluster) < Cardinality(I) /\ f \in [I -> Cluster]
      BY <2>2, <2>3, <2>4, Clusters
    <3>. HIDE DEF I
    <3>2. \E i, j \in I : i # j /\ f[i] = f[j]
      BY <2>4, <3>1, FS_PigeonHole, SMTT(30)
    <3>. QED
      BY <3>2 DEF I
  <2>6. i \in 1..n /\ j \in 1..n /\ s[i] = s[j]
    BY <1>7, <2>1, <2>5, Clusters
  <2>. QED
    BY <1>7, <2>5, <2>6
<1>9. n = len[x] /\ n >= 1
  BY <1>2, <1>7, <1>8, Clusters
<1>10. s[n] \in Cluster /\ own[s[n]] = x /\ pos[s[n]] = n
  BY <1>7, <1>9
<1>11. LinkOK(T, own, pos, len, s[n])
  BY <1>10, Zenon DEF Tree, x
<1>12. T[s[n]] = EOC
  BY <1>9, <1>10, <1>11 DEF LinkOK
<1>13. Chain(T, c) = s
  BY DEF Chain, s, w
<1>. QED
  BY <1>7, <1>8, <1>9, <1>12, <1>13, Clusters DEF OwnChain, Last, n, x


-----------------------------------------------------------------------------
(* What one write does to a tree.                                          *)

\* The same entries in the slots D2, with owners own2.
SameEntries(D, own, D2, own2) ==
  \A p \in Place : /\ IsEntry(D2, own2, p) <=> IsEntry(D, own, p)
                   /\ IsEntry(D, own, p) => EntryAt(D2, p) = EntryAt(D, p)

\* Nobody has a free cluster.
LEMMA FreeIsNobodys ==
  ASSUME NEW T, NEW D, NEW own, NEW pos, NEW len, Tree(T, D, own, pos, len),
         NEW c \in Cluster, T[c] = FREE
  PROVE  own[c] = Nobody
<1>1. SUFFICES ASSUME own[c] # Nobody PROVE FALSE
  OBVIOUS
<1>2. LinkOK(T, own, pos, len, c)
  BY <1>1, Zenon DEF Tree
<1>. QED
  BY <1>2, Clusters DEF LinkOK, FREE, EOC

\* A cluster nobody has is marked as the end of a chain.
LEMMA TreeMark ==
  ASSUME NEW T, NEW D, NEW own, NEW pos, NEW len, Tree(T, D, own, pos, len),
         NEW c \in Cluster, own[c] = Nobody
  PROVE  Tree([T EXCEPT ![c] = EOC], D, own, pos, len)
<1>. DEFINE T2 == [T EXCEPT ![c] = EOC]
<1>1. Typed(T, D, own, pos, len)
  BY DEF Tree
<1>2. T2 \in Fat /\ \A d \in Cluster : d # c => T2[d] = T[d]
  BY <1>1 DEF Typed, Fat
<1>. HIDE DEF T2
<1>3. ASSUME NEW d \in Cluster, own[d] # Nobody PROVE LinkOK(T2, own, pos, len, d)
  <2>1. LinkOK(T, own, pos, len, d) /\ d # c
    BY <1>3 DEF Tree
  <2>. QED
    BY <1>2, <2>1 DEF LinkOK
<1>4. Typed(T2, D, own, pos, len)
  BY <1>1, <1>2 DEF Typed
<1>. QED
  BY <1>3, <1>4 DEF Tree, T2

\* Slots are written in a cluster that is in no directory, or where there are no
\* entries before and after.
LEMMA TreeSlots ==
  ASSUME NEW T, NEW D, NEW own, NEW pos, NEW len, Tree(T, D, own, pos, len),
         NEW c \in Cluster, NEW v \in Slots,
         \/ ~DirOwner(D, own, own[c])
         \/ \A i \in Index : D[c][i].name \notin Name /\ v[i].name \notin Name \cup {"data"}
  PROVE  /\ Tree(T, [D EXCEPT ![c] = v], own, pos, len)
         /\ SameEntries(D, own, [D EXCEPT ![c] = v], own)
<1>. DEFINE D2 == [D EXCEPT ![c] = v]
<1>1. Typed(T, D, own, pos, len)
  BY DEF Tree
<1>2. D2 \in Disk /\ D2[c] = v /\ \A d \in Cluster : d # c => D2[d] = D[d]
  BY <1>1 DEF Typed, Disk
<1>. HIDE DEF D2
<1>3. ASSUME NEW x PROVE InRoot(D2, own, x) <=> InRoot(D, own, x)
  <2>1. CASE x \notin Place
    BY <2>1 DEF InRoot
  <2>2. CASE x \in Place /\ x.cluster # c
    BY <1>2, <2>2 DEF InRoot, EntryAt, Place
  <2>3. CASE x \in Place /\ x.cluster = c
    BY <1>2, <2>3 DEF InRoot, EntryAt, Place, DirOwner
  <2>. QED
    BY <2>1, <2>2, <2>3
<1>4. \A x : DirOwner(D2, own, x) <=> DirOwner(D, own, x)
  BY <1>3 DEF DirOwner
<1>5. ASSUME NEW p \in Place
      PROVE  /\ IsEntry(D2, own, p) <=> IsEntry(D, own, p)
             /\ IsEntry(D, own, p) => EntryAt(D2, p) = EntryAt(D, p)
  <2>1. p.cluster \in Cluster /\ p.slot \in Index
    BY DEF Place
  <2>2. CASE p.cluster # c
    BY <1>2, <1>4, <2>1, <2>2 DEF IsEntry, EntryAt
  <2>3. CASE p.cluster = c
    BY <1>2, <1>4, <2>1, <2>3 DEF IsEntry, EntryAt
  <2>. QED
    BY <2>2, <2>3
<1>6. ASSUME NEW p \in Place, IsEntry(D2, own, p) PROVE EntryOK(D2, own, pos, len, p)
  <2>1. EntryOK(D, own, pos, len, p) /\ EntryAt(D2, p) = EntryAt(D, p)
    BY <1>5, <1>6 DEF Tree
  <2>. QED
    BY <2>1 DEF EntryOK
<1>7. ASSUME NEW d \in Cluster, DirOwner(D2, own, own[d]), NEW i \in Index
      PROVE  D2[d][i].name # "data"
  BY <1>2, <1>4, <1>7 DEF Tree
<1>8. ASSUME NEW d \in Cluster, own[d] \notin {Root, Nobody} PROVE IsEntry(D2, own, own[d])
  <2>1. IsEntry(D, own, own[d])
    BY <1>8 DEF Tree
  <2>. QED
    BY <1>5, <2>1 DEF IsEntry
<1>9. Typed(T, D2, own, pos, len)
  BY <1>1, <1>2 DEF Typed
<1>10. Tree(T, D2, own, pos, len)
  BY <1>6, <1>7, <1>8, <1>9 DEF Tree
<1>. QED
  BY <1>5, <1>10 DEF SameEntries, D2


\* Longer chains back more.
LEMMA Backs ==
  ASSUME NEW a \in Nat, NEW b \in Nat, a <= b
  PROVE  PerCluster * a <= PerCluster * b /\ PerCluster * a \in Nat
<1>1. PerCluster \in Nat /\ b - a \in Nat
  BY Clusters
<1>2. PerCluster * (b - a) \in Nat /\ PerCluster * a \in Nat /\ PerCluster * b \in Nat
  BY <1>1
<1>3. PerCluster * b = PerCluster * a + PerCluster * (b - a)
  BY <1>1, SMTT(30)
<1>. QED
  BY <1>2, <1>3

\* Owners, positions and lengths when the cluster c becomes the last one of x.
WithOwner(own, c, x) == [own EXCEPT ![c] = x]
WithPos(pos, len, c, x) == [pos EXCEPT ![c] = len[x] + 1]
WithLen(len, x) == [len EXCEPT ![x] = @ + 1]

\* The chains then, and what changes.
Grown(T2, D, own, pos, len, c, x) ==
  LET own2 == WithOwner(own, c, x)
      pos2 == WithPos(pos, len, c, x)
      len2 == WithLen(len, x)
  IN  /\ \A d \in Cluster : own2[d] # Nobody => LinkOK(T2, own2, pos2, len2, d)
      /\ \A d, e \in Cluster :
           own2[d] # Nobody /\ own2[d] = own2[e] /\ pos2[d] = pos2[e] => d = e
      /\ Typed(T2, D, own2, pos2, len2)
      /\ own2[2] = Root /\ pos2[2] = 1
      /\ own2 = [d \in Cluster |-> IF d = c THEN x ELSE own[d]]
      /\ pos2 = [d \in Cluster |-> IF d = c THEN len[x] + 1 ELSE pos[d]]
      /\ len2 = [y \in Owner |-> IF y = x THEN len[x] + 1 ELSE len[y]]

\* The table T2 leads to c from the last cluster of x, and ends there.
LEMMA GrownLinks ==
  ASSUME NEW T, NEW D, NEW own, NEW pos, NEW len, Tree(T, D, own, pos, len),
         NEW c \in Cluster, own[c] = Nobody, NEW x \in Owner, x # Nobody,
         NEW T2 \in Fat, T2[c] = EOC,
         \A d \in Cluster : T2[d] = IF own[d] = x /\ pos[d] = len[x] THEN c
                                    ELSE IF d = c THEN EOC ELSE T[d]
  PROVE  Grown(T2, D, own, pos, len, c, x)
<1>. DEFINE own2 == WithOwner(own, c, x)
            pos2 == WithPos(pos, len, c, x)
            len2 == WithLen(len, x)
<1>1. Typed(T, D, own, pos, len)
  BY DEF Tree
<1>2. /\ own2 \in [Cluster -> Owner] /\ \A d \in Cluster : own2[d] = IF d = c THEN x ELSE own[d]
      /\ pos2 \in [Cluster -> Nat]
      /\ \A d \in Cluster : pos2[d] = IF d = c THEN len[x] + 1 ELSE pos[d]
      /\ len2 \in [Owner -> Nat] /\ \A y \in Owner : len2[y] = IF y = x THEN len[x] + 1 ELSE len[y]
  BY <1>1 DEF Typed, WithOwner, WithPos, WithLen
<1>3. /\ own2 = [d \in Cluster |-> IF d = c THEN x ELSE own[d]]
      /\ pos2 = [d \in Cluster |-> IF d = c THEN len[x] + 1 ELSE pos[d]]
      /\ len2 = [y \in Owner |-> IF y = x THEN len[x] + 1 ELSE len[y]]
  BY <1>2
<1>. HIDE DEF own2, pos2, len2
<1>4. len[x] \in Nat /\ own \in [Cluster -> Owner] /\ pos \in [Cluster -> Nat] /\ len \in [Owner -> Nat]
  BY <1>1 DEF Typed
<1>5. ASSUME NEW d \in Cluster, own2[d] # Nobody PROVE LinkOK(T2, own2, pos2, len2, d)
  <2>1. CASE d = c
    <3>1. own2[d] = x /\ pos2[d] = len[x] + 1 /\ len2[x] = len[x] + 1 /\ T2[d] = EOC
      BY <1>2, <2>1
    <3>. QED
      BY <1>4, <3>1 DEF LinkOK
  <2>2. CASE d # c
    <3>1. own[d] # Nobody /\ own2[d] = own[d] /\ pos2[d] = pos[d] /\ own[d] \in Owner
      BY <1>2, <1>4, <1>5, <2>2
    <3>2. LinkOK(T, own, pos, len, d)
      BY <3>1 DEF Tree
    <3>3. pos[d] \in 1..len[own[d]] /\ len[own[d]] \in Nat
      BY <1>4, <3>1, <3>2 DEF LinkOK
    <3>4. CASE own[d] = x /\ pos[d] = len[x]
      <4>1. T2[d] = c /\ len2[own2[d]] = len[x] + 1 /\ own2[c] = x /\ pos2[c] = len[x] + 1
        BY <1>2, <3>1, <3>4
      <4>2. pos2[d] \in 1..len2[own2[d]] /\ pos2[d] # len2[own2[d]] /\ pos2[c] = pos2[d] + 1
        BY <1>4, <3>1, <3>3, <3>4, <4>1
      <4>. QED
        BY <3>1, <3>4, <4>1, <4>2 DEF LinkOK
    <3>5. CASE ~(own[d] = x /\ pos[d] = len[x])
      <4>1. T2[d] = T[d] /\ (pos[d] = len[own[d]] => own[d] # x)
        BY <2>2, <3>5
      <4>2. CASE pos[d] = len[own[d]]
        <5>1. len2[own2[d]] = len[own[d]]
          BY <1>2, <3>1, <4>1, <4>2
        <5>. QED
          BY <3>1, <3>2, <3>3, <4>1, <4>2, <5>1 DEF LinkOK
      <4>3. CASE pos[d] # len[own[d]]
        <5>1. T[d] \in Cluster /\ own[T[d]] = own[d] /\ pos[T[d]] = pos[d] + 1
          BY <3>2, <4>3 DEF LinkOK
        <5>2. T[d] # c
          BY <3>1, <5>1
        <5>3. own2[T[d]] = own[T[d]] /\ pos2[T[d]] = pos[T[d]]
          BY <1>2, <5>1, <5>2
        <5>4. len2[own2[d]] >= len[own[d]] /\ len2[own2[d]] \in Nat
          BY <1>2, <1>4, <3>1
        <5>5. pos[d] < len[own[d]]
          BY <1>4, <3>1, <3>3, <4>3
        <5>6. pos2[d] \in 1..len2[own2[d]] /\ pos2[d] # len2[own2[d]]
          BY <1>4, <3>1, <3>3, <5>4, <5>5
        <5>. QED
          BY <3>1, <4>1, <5>1, <5>3, <5>6 DEF LinkOK
      <4>. QED
        BY <4>2, <4>3
    <3>. QED
      BY <3>4, <3>5
  <2>. QED
    BY <2>1, <2>2
<1>6. ASSUME NEW d \in Cluster, NEW e \in Cluster, own2[d] # Nobody, own2[d] = own2[e], pos2[d] = pos2[e]
      PROVE  d = e
  <2>1. \A f \in Cluster : own[f] = x => pos[f] # len[x] + 1
    <3>. TAKE f \in Cluster
    <3>. HAVE own[f] = x
    <3>1. LinkOK(T, own, pos, len, f)
      BY DEF Tree
    <3>. QED
      BY <1>4, <3>1 DEF LinkOK
  <2>2. CASE d # c /\ e # c
    BY <1>2, <1>6, <2>2 DEF Tree
  <2>3. CASE d = c /\ e # c
    BY <1>2, <1>6, <2>1, <2>3
  <2>4. CASE d # c /\ e = c
    BY <1>2, <1>6, <2>1, <2>4
  <2>. QED
    BY <2>2, <2>3, <2>4
<1>7. Typed(T2, D, own2, pos2, len2)
  BY <1>1, <1>2 DEF Typed
<1>8. own2[2] = Root /\ pos2[2] = 1
  <2>1. own[2] = Root /\ pos[2] = 1 /\ Root # Nobody
    BY DEF Tree, Root, Nobody
  <2>. QED
    BY <1>2, <2>1, Clusters
<1>. QED
  BY <1>3, <1>5, <1>6, <1>7, <1>8, Zenon DEF Grown, own2, pos2, len2


\* A cluster of no entries, or one that is in no directory.
Unlisted(D, own, c, x) ==
  DirOwner(D, own, x) => \A i \in Index : D[c][i].name \notin Name \cup {"data"}

\* The cluster c is linked to the last one of x.
LEMMA TreeLink ==
  ASSUME NEW T, NEW D, NEW own, NEW pos, NEW len, Tree(T, D, own, pos, len),
         NEW c \in Cluster, own[c] = Nobody, T[c] = EOC,
         NEW prev \in Cluster, own[prev] # Nobody, T[prev] = EOC,
         Unlisted(D, own, c, own[prev])
  PROVE  LET x == own[prev]
         IN  /\ Tree([T EXCEPT ![prev] = c], D, WithOwner(own, c, x), WithPos(pos, len, c, x),
                     WithLen(len, x))
             /\ SameEntries(D, own, D, WithOwner(own, c, x))
<1>. DEFINE x == own[prev]
            T2 == [T EXCEPT ![prev] = c]
            own2 == WithOwner(own, c, x)
            pos2 == WithPos(pos, len, c, x)
            len2 == WithLen(len, x)
<1>1. Typed(T, D, own, pos, len)
  BY DEF Tree
<1>2. T2 \in Fat /\ \A d \in Cluster : T2[d] = IF d = prev THEN c ELSE T[d]
  BY <1>1 DEF Typed, Fat
<1>3. x \in Owner /\ x # Nobody
  BY <1>1 DEF Typed
<1>4. pos[prev] = len[x]
  <2>1. LinkOK(T, own, pos, len, prev)
    BY DEF Tree
  <2>. QED
    BY <2>1, Clusters DEF LinkOK, EOC
<1>5. \A d \in Cluster : own[d] = x /\ pos[d] = len[x] <=> d = prev
  BY <1>3, <1>4 DEF Tree
<1>6. c # prev
  OBVIOUS
<1>. HIDE DEF T2, x
<1>7. Grown(T2, D, own, pos, len, c, x)
  <2>1. T2[c] = EOC
    BY <1>2, <1>6
  <2>2. \A d \in Cluster : T2[d] = IF own[d] = x /\ pos[d] = len[x] THEN c
                                   ELSE IF d = c THEN EOC ELSE T[d]
    BY <1>2, <1>5
  <2>. QED
    BY <1>2, <1>3, <2>1, <2>2, GrownLinks
<1>8. /\ \A d \in Cluster : own2[d] = IF d = c THEN x ELSE own[d]
      /\ \A d \in Cluster : pos2[d] = IF d = c THEN len[x] + 1 ELSE pos[d]
      /\ \A y \in Owner : len2[y] = IF y = x THEN len[x] + 1 ELSE len[y]
  BY <1>7 DEF Grown
<1>9. /\ \A d \in Cluster : own2[d] # Nobody => LinkOK(T2, own2, pos2, len2, d)
      /\ \A d, e \in Cluster :
           own2[d] # Nobody /\ own2[d] = own2[e] /\ pos2[d] = pos2[e] => d = e
      /\ Typed(T2, D, own2, pos2, len2)
      /\ own2[2] = Root /\ pos2[2] = 1
  BY <1>7, Zenon DEF Grown
<1>. HIDE DEF own2, pos2, len2
<1>10. ASSUME NEW y PROVE InRoot(D, own2, y) <=> InRoot(D, own, y)
  <2>1. CASE y \notin Place
    BY <2>1 DEF InRoot
  <2>2. CASE y \in Place /\ y.cluster # c
    BY <1>8, <2>2 DEF InRoot, Place
  <2>3. CASE y \in Place /\ y.cluster = c
    <3>1. own2[y.cluster] = x /\ own[y.cluster] # Root /\ y.slot \in Index
      BY <1>8, <2>3 DEF Place, Root, Nobody
    <3>2. x = Root => EntryAt(D, y).name \notin Name
      BY <2>3, <3>1 DEF Unlisted, DirOwner, EntryAt, x
    <3>. QED
      BY <3>1, <3>2 DEF InRoot
  <2>. QED
    BY <2>1, <2>2, <2>3
<1>11. \A y : DirOwner(D, own2, y) <=> DirOwner(D, own, y)
  BY <1>10 DEF DirOwner
<1>12. ASSUME NEW p \in Place PROVE IsEntry(D, own2, p) <=> IsEntry(D, own, p)
  <2>1. p.cluster \in Cluster /\ p.slot \in Index
    BY DEF Place
  <2>2. CASE p.cluster # c
    BY <1>8, <1>11, <2>1, <2>2 DEF IsEntry
  <2>3. CASE p.cluster = c
    <3>1. ~DirOwner(D, own, own[c])
      BY DEF DirOwner, InRoot, Root, Nobody, Place, Cluster
    <3>2. DirOwner(D, own, x) => EntryAt(D, p).name \notin Name
      BY <2>1, <2>3 DEF Unlisted, EntryAt, x
    <3>. QED
      BY <1>8, <1>11, <2>3, <3>1, <3>2 DEF IsEntry
  <2>. QED
    BY <2>2, <2>3
<1>13. ASSUME NEW p \in Place, IsEntry(D, own2, p) PROVE EntryOK(D, own2, pos2, len2, p)
  <2>. DEFINE e == EntryAt(D, p)
  <2>1. EntryOK(D, own, pos, len, p) /\ p \in Owner /\ e \in Slot
    BY <1>1, <1>12, <1>13 DEF Tree, Owner, EntryAt, Typed, Disk, Slots, Place
  <2>2. len[p] \in Nat /\ len2[p] \in Nat /\ len[p] <= len2[p] /\ e.size \in Nat
    BY <1>1, <1>8, <1>9, <2>1 DEF Typed, Slot
  <2>3. e.size <= PerCluster * len2[p]
    <3>1. PerCluster * len[p] <= PerCluster * len2[p] /\ PerCluster * len[p] \in Nat
      BY <2>2, Backs
    <3>2. e.size <= PerCluster * len[p]
      BY <2>1 DEF EntryOK
    <3>3. PerCluster * len2[p] \in Nat
      BY <2>2, Clusters
    <3>. HIDE DEF e
    <3>. QED
      BY <2>2, <3>1, <3>2, <3>3
  <2>4. CASE e.first = 0
    <3>1. ~e.dir /\ e.name \in Foreign /\ len[p] = 0
      BY <2>1, <2>4 DEF EntryOK
    <3>2. p # x
      <4>1. LinkOK(T, own, pos, len, prev)
        BY DEF Tree
      <4>. QED
        BY <3>1, <4>1 DEF LinkOK, x
    <3>3. len2[p] = 0
      BY <1>8, <2>1, <3>1, <3>2
    <3>. QED
      BY <2>3, <2>4, <3>1, <3>3 DEF EntryOK
  <2>5. CASE e.first # 0
    <3>1. e.first \in Cluster /\ own[e.first] = p /\ pos[e.first] = 1
      BY <2>1, <2>5 DEF EntryOK, Slot
    <3>2. e.first # c
      BY <3>1 DEF Place, Nobody, Cluster
    <3>. QED
      BY <1>8, <2>3, <2>5, <3>1, <3>2 DEF EntryOK
  <2>. QED
    BY <2>4, <2>5
<1>14. ASSUME NEW d \in Cluster, own2[d] \notin {Root, Nobody} PROVE IsEntry(D, own2, own2[d])
  <2>1. IsEntry(D, own, own2[d])
    BY <1>3, <1>8, <1>14 DEF Tree, x
  <2>. QED
    BY <1>12, <2>1 DEF IsEntry
<1>15. ASSUME NEW d \in Cluster, DirOwner(D, own2, own2[d]), NEW i \in Index
       PROVE  D[d][i].name # "data"
  <2>1. CASE d = c
    BY <1>8, <1>11, <1>15, <2>1 DEF Unlisted, x
  <2>2. CASE d # c
    BY <1>8, <1>11, <1>15, <2>2 DEF Tree
  <2>. QED
    BY <2>1, <2>2
<1>16. Tree(T2, D, own2, pos2, len2)
  BY <1>9, <1>13, <1>14, <1>15 DEF Tree
<1>. QED
  BY <1>12, <1>16 DEF SameEntries, T2, x, own2, pos2, len2


\* The slots D2 have e at the place p.
SlotPut(D, D2, p, e) ==
  D2 \in Disk /\ \A c \in Cluster, i \in Index :
    D2[c][i] = IF c = p.cluster /\ i = p.slot THEN e ELSE D[c][i]

\* An entry put into one slot is found there, and the others are as they were.
LEMMA SlotPutAt ==
  ASSUME NEW D, NEW D2, NEW p \in Place, NEW e, SlotPut(D, D2, p, e)
  PROVE  \A q \in Place : EntryAt(D2, q) = IF q = p THEN e ELSE EntryAt(D, q)
<1>. TAKE q \in Place
<1>1. /\ p.cluster \in Cluster /\ p.slot \in Index /\ q.cluster \in Cluster /\ q.slot \in Index
      /\ (q.cluster = p.cluster /\ q.slot = p.slot <=> q = p)
  BY DEF Place
<1>. QED
  BY <1>1 DEF SlotPut, EntryAt

\* The entry p has become e, everything else is as it was.
OnlyEntry(D, own, D2, own2, p, e) ==
  /\ IsEntry(D2, own2, p) /\ EntryAt(D2, p) = e
  /\ \A q \in Place : q # p => /\ IsEntry(D2, own2, q) <=> IsEntry(D, own, q)
                               /\ EntryAt(D2, q) = EntryAt(D, q)

\* The size of an entry changes within what its chain backs.
LEMMA TreeSize ==
  ASSUME NEW T, NEW D, NEW own, NEW pos, NEW len, Tree(T, D, own, pos, len),
         NEW p, IsEntry(D, own, p), NEW n \in 0..MaxSize, n <= PerCluster * len[p],
         NEW D2, SlotPut(D, D2, p, [EntryAt(D, p) EXCEPT !.size = n])
  PROVE  /\ Tree(T, D2, own, pos, len)
         /\ OnlyEntry(D, own, D2, own, p, [EntryAt(D, p) EXCEPT !.size = n])
<1>. DEFINE old == EntryAt(D, p)
            e == [old EXCEPT !.size = n]
<1>1. Typed(T, D, own, pos, len)
  BY DEF Tree
<1>2. p \in Place /\ old \in Slot /\ old.name \in Name
  BY <1>1 DEF IsEntry, Typed, Disk, Slots, Place, EntryAt
<1>3. e.name = old.name /\ e.dir = old.dir /\ e.first = old.first /\ e.size = n
  BY <1>2 DEF Slot
<1>a. SlotPut(D, D2, p, e)
  OBVIOUS
<1>. HIDE DEF e
<1>4. D2 \in Disk /\ \A q \in Place : EntryAt(D2, q) = IF q = p THEN e ELSE EntryAt(D, q)
  <2>1. D2 \in Disk
    BY <1>a DEF SlotPut
  <2>. QED
    BY <1>2, <1>a, <2>1, SlotPutAt
<1>5. \A q \in Place : /\ EntryAt(D2, q).name = EntryAt(D, q).name
                       /\ EntryAt(D2, q).dir = EntryAt(D, q).dir
                       /\ EntryAt(D2, q).first = EntryAt(D, q).first
  BY <1>3, <1>4
<1>6. \A x : DirOwner(D2, own, x) <=> DirOwner(D, own, x)
  BY <1>5 DEF DirOwner, InRoot
<1>7. \A q \in Place : IsEntry(D2, own, q) <=> IsEntry(D, own, q)
  BY <1>5, <1>6 DEF IsEntry
<1>8. ASSUME NEW q \in Place, IsEntry(D2, own, q) PROVE EntryOK(D2, own, pos, len, q)
  <2>1. EntryOK(D, own, pos, len, q)
    BY <1>7, <1>8 DEF Tree
  <2>. QED
    BY <1>3, <1>4, <1>5, <2>1 DEF EntryOK
<1>9. ASSUME NEW d \in Cluster, own[d] \notin {Root, Nobody} PROVE IsEntry(D2, own, own[d])
  <2>1. IsEntry(D, own, own[d])
    BY <1>9 DEF Tree
  <2>. QED
    BY <1>7, <2>1 DEF IsEntry
<1>10. ASSUME NEW d \in Cluster, DirOwner(D2, own, own[d]), NEW i \in Index
       PROVE  D2[d][i].name # "data"
  <2>. DEFINE q == [cluster |-> d, slot |-> i]
  <2>1. q \in Place /\ EntryAt(D2, q) = D2[d][i] /\ EntryAt(D, q) = D[d][i]
    BY DEF Place, EntryAt
  <2>2. D[d][i].name # "data"
    BY <1>6, <1>10 DEF Tree
  <2>. HIDE DEF q
  <2>. QED
    BY <1>5, <2>1, <2>2
<1>11. Typed(T, D2, own, pos, len)
  BY <1>1, <1>4 DEF Typed
<1>12. Tree(T, D2, own, pos, len)
  BY <1>8, <1>9, <1>10, <1>11 DEF Tree
<1>. QED
  BY <1>2, <1>4, <1>7, <1>12 DEF OnlyEntry, e

\* A file that has no cluster gets c as its first.
LEMMA TreeFirst ==
  ASSUME NEW T, NEW D, NEW own, NEW pos, NEW len, Tree(T, D, own, pos, len),
         NEW c \in Cluster, own[c] = Nobody, T[c] = EOC,
         NEW p, IsEntry(D, own, p), EntryAt(D, p).first = 0,
         NEW D2, SlotPut(D, D2, p, [EntryAt(D, p) EXCEPT !.first = c])
  PROVE  /\ Tree(T, D2, WithOwner(own, c, p), WithPos(pos, len, c, p), WithLen(len, p))
         /\ OnlyEntry(D, own, D2, WithOwner(own, c, p), p, [EntryAt(D, p) EXCEPT !.first = c])
<1>. DEFINE old == EntryAt(D, p)
            e == [old EXCEPT !.first = c]
            own2 == WithOwner(own, c, p)
            pos2 == WithPos(pos, len, c, p)
            len2 == WithLen(len, p)
<1>1. Typed(T, D, own, pos, len)
  BY DEF Tree
<1>2. p \in Place /\ old \in Slot /\ old.name \in Name /\ DirOwner(D, own, own[p.cluster])
  BY <1>1 DEF IsEntry, Typed, Disk, Slots, Place, EntryAt
<1>3. e.name = old.name /\ e.dir = old.dir /\ e.first = c /\ e.size = old.size
  BY <1>2 DEF Slot
<1>a. SlotPut(D, D2, p, e)
  OBVIOUS
<1>. HIDE DEF e
<1>4. D2 \in Disk /\ \A q \in Place : EntryAt(D2, q) = IF q = p THEN e ELSE EntryAt(D, q)
  <2>1. D2 \in Disk
    BY <1>a DEF SlotPut
  <2>. QED
    BY <1>2, <1>a, <2>1, SlotPutAt
<1>5. \A q \in Place : /\ EntryAt(D2, q).name = EntryAt(D, q).name
                       /\ EntryAt(D2, q).dir = EntryAt(D, q).dir
                       /\ EntryAt(D2, q).size = EntryAt(D, q).size
  BY <1>3, <1>4
<1>6. ~old.dir /\ len[p] = 0 /\ old.size <= PerCluster * len[p]
  <2>1. EntryOK(D, own, pos, len, p)
    BY <1>2 DEF Tree
  <2>. QED
    BY <2>1 DEF EntryOK
<1>7. \A d \in Cluster : own[d] # p
  <2>. SUFFICES ASSUME NEW d \in Cluster, own[d] = p PROVE FALSE
    OBVIOUS
  <2>1. LinkOK(T, own, pos, len, d)
    BY <1>2 DEF Tree, Place, Nobody, Cluster
  <2>. QED
    BY <1>6, <2>1 DEF LinkOK
<1>8. p \in Owner /\ p # Nobody /\ p # Root /\ Root # Nobody
  BY <1>2 DEF Owner, Place, Nobody, Root, Cluster
<1>9. Grown(T, D, own, pos, len, c, p)
  <2>1. T \in Fat /\ \A d \in Cluster : T[d] = IF own[d] = p /\ pos[d] = len[p] THEN c
                                               ELSE IF d = c THEN EOC ELSE T[d]
    BY <1>1, <1>7 DEF Typed
  <2>. QED
    BY <1>8, <2>1, GrownLinks
<1>10. /\ \A d \in Cluster : own2[d] = IF d = c THEN p ELSE own[d]
       /\ \A d \in Cluster : pos2[d] = IF d = c THEN len[p] + 1 ELSE pos[d]
       /\ \A y \in Owner : len2[y] = IF y = p THEN len[p] + 1 ELSE len[y]
  BY <1>9 DEF Grown
<1>11. /\ \A d \in Cluster : own2[d] # Nobody => LinkOK(T, own2, pos2, len2, d)
       /\ \A d, f \in Cluster :
            own2[d] # Nobody /\ own2[d] = own2[f] /\ pos2[d] = pos2[f] => d = f
       /\ Typed(T, D, own2, pos2, len2)
       /\ own2[2] = Root /\ pos2[2] = 1
  BY <1>9, Zenon DEF Grown
<1>. HIDE DEF own2, pos2, len2
<1>12. \A y : DirOwner(D2, own2, y) <=> DirOwner(D, own, y)
  <2>1. \A y \in Place : y.cluster \in Cluster /\ (own2[y.cluster] = Root <=> own[y.cluster] = Root)
    BY <1>8, <1>10 DEF Place
  <2>. QED
    BY <1>5, <2>1 DEF DirOwner, InRoot
<1>13. ~DirOwner(D, own, p) /\ ~DirOwner(D, own, Nobody)
  BY <1>6, <1>8 DEF DirOwner, InRoot, Nobody, Place, Cluster
<1>14. ASSUME NEW q \in Place PROVE IsEntry(D2, own2, q) <=> IsEntry(D, own, q)
  <2>1. q.cluster \in Cluster
    BY DEF Place
  <2>. QED
    BY <1>5, <1>10, <1>12, <1>13, <2>1 DEF IsEntry
<1>15. ASSUME NEW q \in Place, IsEntry(D2, own2, q) PROVE EntryOK(D2, own2, pos2, len2, q)
  <2>1. EntryOK(D, own, pos, len, q) /\ q \in Owner /\ EntryAt(D, q) \in Slot
    BY <1>1, <1>14, <1>15 DEF Tree, Owner, EntryAt, Typed, Disk, Slots, Place
  <2>2. CASE q = p
    <3>1. len2[p] = 1 /\ EntryAt(D2, p).first = c /\ c # 0 /\ own2[c] = p /\ pos2[c] = 1
      BY <1>3, <1>4, <1>6, <1>8, <1>10, <2>1, <2>2, Clusters
    <3>2. EntryAt(D2, p).size = old.size /\ old.size \in Nat
      BY <1>2, <1>5 DEF Slot
    <3>3. old.size <= PerCluster * 1
      BY <1>6, <3>2, Clusters, SMTT(30)
    <3>. QED
      BY <2>2, <3>1, <3>2, <3>3 DEF EntryOK
  <2>3. CASE q # p
    <3>1. EntryAt(D2, q) = EntryAt(D, q) /\ len2[q] = len[q]
      BY <1>4, <1>10, <2>1, <2>3
    <3>2. EntryAt(D, q).first # 0 =>
            /\ own2[EntryAt(D, q).first] = own[EntryAt(D, q).first]
            /\ pos2[EntryAt(D, q).first] = pos[EntryAt(D, q).first]
      <4>. HAVE EntryAt(D, q).first # 0
      <4>1. EntryAt(D, q).first \in Cluster /\ own[EntryAt(D, q).first] = q
        BY <2>1 DEF EntryOK, Slot
      <4>2. q # Nobody
        BY DEF Place, Nobody, Cluster
      <4>. QED
        BY <1>10, <4>1, <4>2
    <3>. QED
      BY <2>1, <3>1, <3>2 DEF EntryOK
  <2>. QED
    BY <2>2, <2>3
<1>16. ASSUME NEW d \in Cluster, own2[d] \notin {Root, Nobody} PROVE IsEntry(D2, own2, own2[d])
  <2>1. IsEntry(D, own, own2[d])
    BY <1>10, <1>16 DEF Tree
  <2>. QED
    BY <1>14, <2>1 DEF IsEntry
<1>17. ASSUME NEW d \in Cluster, DirOwner(D2, own2, own2[d]), NEW i \in Index
       PROVE  D2[d][i].name # "data"
  <2>. DEFINE q == [cluster |-> d, slot |-> i]
  <2>1. q \in Place /\ EntryAt(D2, q) = D2[d][i] /\ EntryAt(D, q) = D[d][i]
    BY DEF Place, EntryAt
  <2>2. DirOwner(D, own, own[d])
    BY <1>10, <1>12, <1>13, <1>17
  <2>3. D[d][i].name # "data"
    BY <2>2 DEF Tree
  <2>. HIDE DEF q
  <2>. QED
    BY <1>5, <2>1, <2>3
<1>18. Tree(T, D2, own2, pos2, len2)
  <2>1. Typed(T, D2, own2, pos2, len2)
    BY <1>4, <1>11 DEF Typed
  <2>. QED
    BY <1>11, <1>15, <1>16, <1>17, <2>1 DEF Tree
<1>. QED
  BY <1>2, <1>4, <1>14, <1>18 DEF OnlyEntry, e, own2, pos2, len2


\* The length of what owns nothing does not matter.
LEMMA TreeLen ==
  ASSUME NEW T, NEW D, NEW own, NEW pos, NEW len, Tree(T, D, own, pos, len),
         NEW p \in Place, ~IsEntry(D, own, p)
  PROVE  Tree(T, D, own, pos, [len EXCEPT ![p] = 0])
<1>. DEFINE len2 == [len EXCEPT ![p] = 0]
<1>1. Typed(T, D, own, pos, len)
  BY DEF Tree
<1>2. p # Root /\ p # Nobody
  BY DEF Place, Root, Nobody, Cluster
<1>3. len2 \in [Owner -> Nat] /\ \A y \in Owner : y # p => len2[y] = len[y]
  BY <1>1 DEF Typed
<1>. HIDE DEF len2
<1>4. \A d \in Cluster : own[d] # p /\ own[d] \in Owner
  BY <1>1, <1>2 DEF Tree, Typed
<1>5. ASSUME NEW d \in Cluster, own[d] # Nobody PROVE LinkOK(T, own, pos, len2, d)
  <2>1. LinkOK(T, own, pos, len, d) /\ len2[own[d]] = len[own[d]]
    BY <1>3, <1>4, <1>5 DEF Tree
  <2>. QED
    BY <2>1 DEF LinkOK
<1>6. ASSUME NEW q \in Place, IsEntry(D, own, q) PROVE EntryOK(D, own, pos, len2, q)
  <2>1. EntryOK(D, own, pos, len, q) /\ q # p /\ q \in Owner
    BY <1>6 DEF Tree, Owner
  <2>2. len2[q] = len[q]
    BY <1>3, <2>1
  <2>. QED
    BY <2>1, <2>2 DEF EntryOK
<1>7. Typed(T, D, own, pos, len2)
  BY <1>1, <1>3 DEF Typed
<1>. QED
  BY <1>5, <1>6, <1>7 DEF Tree, len2

\* A new entry with the cluster c is put in a directory.
LEMMA TreeNew ==
  ASSUME NEW T, NEW D, NEW own, NEW pos, NEW length, Tree(T, D, own, pos, length),
         NEW c \in Cluster, own[c] = Nobody, T[c] = EOC,
         NEW p \in Place, DirOwner(D, own, own[p.cluster]), EntryAt(D, p).name \notin Name,
         NEW e \in Slot, e.name \in Name, e.first = c, e.size = 0,
         e.dir => \A i \in Index : D[c][i].name \notin Name \cup {"data"},
         NEW D2, SlotPut(D, D2, p, e)
  PROVE  \E own2, pos2, len2 :
           Tree(T, D2, own2, pos2, len2) /\ OnlyEntry(D, own, D2, own2, p, e)
<1>. DEFINE len == [length EXCEPT ![p] = 0]
            own2 == WithOwner(own, c, p)
            pos2 == WithPos(pos, len, c, p)
            len2 == WithLen(len, p)
<1>0. ~IsEntry(D, own, p)
  BY DEF IsEntry
<1>1. Tree(T, D, own, pos, len) /\ Typed(T, D, own, pos, len)
  BY <1>0, TreeLen DEF Tree
<1>2. p \in Owner /\ p # Nobody /\ p # Root /\ Root # Nobody /\ len[p] = 0
  <2>1. p \in Owner /\ length \in [Owner -> Nat]
    BY DEF Owner, Tree, Typed
  <2>. QED
    BY <2>1 DEF Place, Nobody, Root, Cluster
<1>. HIDE DEF len
<1>3. D2 \in Disk /\ \A q \in Place : EntryAt(D2, q) = IF q = p THEN e ELSE EntryAt(D, q)
  <2>1. D2 \in Disk
    BY DEF SlotPut
  <2>. QED
    BY <2>1, SlotPutAt
<1>4. \A d \in Cluster : own[d] # p
  BY <1>0, <1>1, <1>2 DEF Tree
<1>5. Grown(T, D, own, pos, len, c, p)
  <2>1. T \in Fat /\ \A d \in Cluster : T[d] = IF own[d] = p /\ pos[d] = len[p] THEN c
                                               ELSE IF d = c THEN EOC ELSE T[d]
    BY <1>1, <1>4 DEF Typed
  <2>. QED
    BY <1>1, <1>2, <2>1, GrownLinks
<1>6. /\ \A d \in Cluster : own2[d] = IF d = c THEN p ELSE own[d]
      /\ \A d \in Cluster : pos2[d] = IF d = c THEN len[p] + 1 ELSE pos[d]
      /\ \A y \in Owner : len2[y] = IF y = p THEN len[p] + 1 ELSE len[y]
  BY <1>5 DEF Grown
<1>7. /\ \A d \in Cluster : own2[d] # Nobody => LinkOK(T, own2, pos2, len2, d)
      /\ \A d, f \in Cluster :
           own2[d] # Nobody /\ own2[d] = own2[f] /\ pos2[d] = pos2[f] => d = f
      /\ Typed(T, D, own2, pos2, len2)
      /\ own2[2] = Root /\ pos2[2] = 1
  BY <1>5, Zenon DEF Grown
<1>. HIDE DEF own2, pos2, len2
<1>8. p.cluster \in Cluster /\ p.cluster # c /\ ~DirOwner(D, own, Nobody)
  <2>1. ~DirOwner(D, own, Nobody)
    BY <1>2 DEF DirOwner, InRoot, Nobody, Place, Cluster
  <2>. QED
    BY <2>1 DEF Place
<1>9. \A y \in Place : y.cluster \in Cluster /\ (own2[y.cluster] = Root <=> own[y.cluster] = Root)
  BY <1>2, <1>6 DEF Place
<1>10. \A y : y # p => (DirOwner(D2, own2, y) <=> DirOwner(D, own, y))
  BY <1>3, <1>9 DEF DirOwner, InRoot
<1>11. DirOwner(D2, own2, p) => e.dir
  BY <1>2, <1>3 DEF DirOwner, InRoot
<1>12. IsEntry(D2, own2, p)
  <2>1. own2[p.cluster] = own[p.cluster] /\ own[p.cluster] # p
    BY <1>4, <1>6, <1>8
  <2>. QED
    BY <1>3, <1>10, <2>1 DEF IsEntry
<1>13. ASSUME NEW q \in Place, q # p PROVE IsEntry(D2, own2, q) <=> IsEntry(D, own, q)
  <2>1. q.cluster \in Cluster /\ q.slot \in Index /\ EntryAt(D2, q) = EntryAt(D, q)
    BY <1>3, <1>13 DEF Place
  <2>2. CASE q.cluster # c
    <3>1. own2[q.cluster] = own[q.cluster] /\ own[q.cluster] # p
      BY <1>4, <1>6, <2>1, <2>2
    <3>. QED
      BY <1>10, <2>1, <3>1 DEF IsEntry
  <2>3. CASE q.cluster = c
    <3>1. own2[q.cluster] = p /\ ~IsEntry(D, own, q)
      BY <1>6, <1>8, <2>3 DEF IsEntry
    <3>2. e.dir => EntryAt(D, q).name \notin Name
      BY <2>1, <2>3 DEF EntryAt
    <3>. QED
      BY <1>11, <2>1, <3>1, <3>2 DEF IsEntry
  <2>. QED
    BY <2>2, <2>3
<1>14. ASSUME NEW q \in Place, IsEntry(D2, own2, q) PROVE EntryOK(D2, own2, pos2, len2, q)
  <2>1. CASE q = p
    <3>1. len2[p] = 1 /\ EntryAt(D2, p) = e /\ c # 0 /\ own2[c] = p /\ pos2[c] = 1
      BY <1>2, <1>3, <1>6, Clusters
    <3>2. 0 <= PerCluster * 1
      BY Clusters
    <3>. QED
      BY <2>1, <3>1, <3>2 DEF EntryOK
  <2>2. CASE q # p
    <3>1. EntryOK(D, own, pos, len, q) /\ q \in Owner /\ EntryAt(D, q) \in Slot
      BY <1>1, <1>13, <1>14, <2>2 DEF Tree, Owner, EntryAt, Typed, Disk, Slots, Place
    <3>2. EntryAt(D2, q) = EntryAt(D, q) /\ len2[q] = len[q]
      BY <1>3, <1>6, <3>1, <2>2
    <3>3. EntryAt(D, q).first # 0 =>
            /\ own2[EntryAt(D, q).first] = own[EntryAt(D, q).first]
            /\ pos2[EntryAt(D, q).first] = pos[EntryAt(D, q).first]
      <4>. HAVE EntryAt(D, q).first # 0
      <4>1. EntryAt(D, q).first \in Cluster /\ own[EntryAt(D, q).first] = q
        BY <3>1 DEF EntryOK, Slot
      <4>2. q # Nobody
        BY DEF Place, Nobody, Cluster
      <4>. QED
        BY <1>6, <4>1, <4>2
    <3>. QED
      BY <3>1, <3>2, <3>3 DEF EntryOK
  <2>. QED
    BY <2>1, <2>2
<1>15. ASSUME NEW d \in Cluster, own2[d] \notin {Root, Nobody} PROVE IsEntry(D2, own2, own2[d])
  <2>1. CASE d = c
    BY <1>6, <1>12, <2>1
  <2>2. CASE d # c
    <3>1. IsEntry(D, own, own[d]) /\ own2[d] = own[d] /\ own[d] # p
      BY <1>1, <1>4, <1>6, <1>15, <2>2 DEF Tree
    <3>. QED
      BY <1>13, <3>1 DEF IsEntry
  <2>. QED
    BY <2>1, <2>2
<1>16. ASSUME NEW d \in Cluster, DirOwner(D2, own2, own2[d]), NEW i \in Index
       PROVE  D2[d][i].name # "data"
  <2>. DEFINE q == [cluster |-> d, slot |-> i]
  <2>1. q \in Place /\ EntryAt(D2, q) = D2[d][i] /\ EntryAt(D, q) = D[d][i]
    BY DEF Place, EntryAt
  <2>. HIDE DEF q
  <2>2. CASE q = p
    <3>1. "data" \notin Name
      BY Fat32Assumption DEF Marks
    <3>. QED
      BY <1>3, <2>1, <2>2, <3>1
  <2>3. CASE q # p
    <3>1. D2[d][i] = D[d][i]
      BY <1>3, <2>1, <2>3
    <3>2. CASE d = c
      BY <1>6, <1>11, <1>16, <3>1, <3>2
    <3>3. CASE d # c
      BY <1>1, <1>4, <1>6, <1>10, <1>16, <3>1, <3>3 DEF Tree
    <3>. QED
      BY <3>2, <3>3
  <2>. QED
    BY <2>2, <2>3
<1>17. Typed(T, D2, own2, pos2, len2)
  BY <1>3, <1>7 DEF Typed
<1>18. Tree(T, D2, own2, pos2, len2)
  BY <1>7, <1>14, <1>15, <1>16, <1>17 DEF Tree
<1>19. OnlyEntry(D, own, D2, own2, p, e)
  BY <1>3, <1>12, <1>13 DEF OnlyEntry
<1>. QED
  BY <1>18, <1>19

\* Who has a cluster when the entry p, and with it what is in it, has gone.
Without(own, p) ==
  [d \in Cluster |-> IF own[d] = p \/ (own[d] \in Place /\ own[own[d].cluster] = p)
                     THEN Nobody ELSE own[d]]

\* An entry is deleted, whatever becomes of its clusters.
LEMMA TreeRemove ==
  ASSUME NEW T, NEW D, NEW own, NEW pos, NEW len, Tree(T, D, own, pos, len),
         NEW p, IsEntry(D, own, p), NEW T2 \in Fat,
         \A d \in Cluster : own[d] # p => T2[d] = T[d],
         NEW e \in Slot, e.name \notin Name \cup {"data"}, NEW D2, SlotPut(D, D2, p, e)
  PROVE  /\ Tree(T2, D2, Without(own, p), pos, len)
         /\ \A q \in Place : /\ IsEntry(D2, Without(own, p), q)
                                  <=> q # p /\ IsEntry(D, own, q) /\ own[q.cluster] # p
                             /\ q # p => EntryAt(D2, q) = EntryAt(D, q)
<1>. DEFINE own2 == Without(own, p)
<1>1. Typed(T, D, own, pos, len) /\ own \in [Cluster -> Owner]
  BY DEF Tree, Typed
<1>2. p \in Place /\ p # Nobody /\ p # Root /\ Root # Nobody /\ Root \notin Place /\ Nobody \notin Place
  BY DEF IsEntry, Place, Nobody, Root, Cluster
<1>3. D2 \in Disk /\ \A q \in Place : EntryAt(D2, q) = IF q = p THEN e ELSE EntryAt(D, q)
  <2>1. D2 \in Disk
    BY DEF SlotPut
  <2>. QED
    BY <1>2, <2>1, SlotPutAt
<1>4. \A d \in Cluster :
        own2[d] = IF own[d] = p \/ (own[d] \in Place /\ own[own[d].cluster] = p) THEN Nobody ELSE own[d]
  BY DEF Without
<1>5. own2 \in [Cluster -> Owner]
  BY <1>1, Zenon DEF Without, Owner
<1>. HIDE DEF own2
<1>6. \A y \in Place : y.cluster \in Cluster /\ y.slot \in Index
  BY DEF Place
<1>7. \A d \in Cluster : own2[d] = Root <=> own[d] = Root
  BY <1>2, <1>4
<1>8. \A y \in Place : InRoot(D2, own2, y) <=> y # p /\ InRoot(D, own, y)
  BY <1>3, <1>6, <1>7 DEF InRoot
<1>9. \A y : DirOwner(D2, own2, y) <=> y # p /\ DirOwner(D, own, y)
  BY <1>2, <1>8 DEF DirOwner, InRoot
<1>10. ASSUME NEW q \in Place
       PROVE  IsEntry(D2, own2, q) <=> q # p /\ IsEntry(D, own, q) /\ own[q.cluster] # p
  <2>1. CASE q = p
    BY <1>3, <2>1 DEF IsEntry
  <2>2. CASE q # p
    <3>1. EntryAt(D2, q) = EntryAt(D, q) /\ q.cluster \in Cluster
      BY <1>3, <1>6, <2>2
    <3>2. ~DirOwner(D, own, Nobody)
      BY <1>2 DEF DirOwner, InRoot
    <3>3. CASE own[q.cluster] = p
      BY <1>4, <1>9, <3>1, <3>2, <3>3 DEF IsEntry
    <3>4. CASE own[q.cluster] # p /\ own2[q.cluster] = own[q.cluster]
      BY <1>9, <2>2, <3>1, <3>4 DEF IsEntry
    <3>5. CASE own[q.cluster] # p /\ own2[q.cluster] # own[q.cluster]
      <4>1. own2[q.cluster] = Nobody /\ own[q.cluster] \in Place /\ own[own[q.cluster].cluster] = p
        BY <1>4, <3>1, <3>5
      <4>2. ~DirOwner(D, own, own[q.cluster])
        BY <1>2, <4>1 DEF DirOwner, InRoot
      <4>. QED
        BY <1>9, <3>1, <3>2, <4>1, <4>2 DEF IsEntry
    <3>. QED
      BY <3>3, <3>4, <3>5
  <2>. QED
    BY <2>1, <2>2
<1>11. ASSUME NEW d \in Cluster, own2[d] # Nobody PROVE LinkOK(T2, own2, pos, len, d)
  <2>1. own2[d] = own[d] /\ own[d] # p /\ own[d] # Nobody
    BY <1>4, <1>11
  <2>2. LinkOK(T, own, pos, len, d) /\ T2[d] = T[d]
    BY <2>1 DEF Tree
  <2>3. \A f \in Cluster : own[f] = own[d] => own2[f] = own2[d]
    BY <1>4
  <2>. QED
    BY <2>1, <2>2, <2>3 DEF LinkOK
<1>12. ASSUME NEW d \in Cluster, NEW f \in Cluster, own2[d] # Nobody, own2[d] = own2[f], pos[d] = pos[f]
       PROVE  d = f
  BY <1>4, <1>12 DEF Tree
<1>13. ASSUME NEW d \in Cluster, own2[d] \notin {Root, Nobody} PROVE IsEntry(D2, own2, own2[d])
  <2>1. own2[d] = own[d] /\ own[d] # p
    BY <1>4, <1>13
  <2>2. IsEntry(D, own, own[d]) /\ own[d] \in Place
    BY <1>13, <2>1 DEF Tree, IsEntry
  <2>3. own[own[d].cluster] # p
    BY <1>2, <1>4, <1>13, <2>1, <2>2
  <2>. QED
    BY <1>10, <2>1, <2>2, <2>3
<1>14. ASSUME NEW q \in Place, IsEntry(D2, own2, q) PROVE EntryOK(D2, own2, pos, len, q)
  <2>1. q # p /\ IsEntry(D, own, q) /\ own[q.cluster] # p
    BY <1>10, <1>14
  <2>2. EntryOK(D, own, pos, len, q) /\ EntryAt(D2, q) = EntryAt(D, q) /\ EntryAt(D, q) \in Slot
    BY <1>1, <1>3, <2>1 DEF Tree, EntryAt, Typed, Disk, Slots, Place
  <2>3. \A d \in Cluster : own[d] = q => own2[d] = q
    BY <1>4, <2>1
  <2>4. EntryAt(D, q).first # 0 => EntryAt(D, q).first \in Cluster
    BY <2>2 DEF Slot
  <2>. QED
    BY <2>2, <2>3, <2>4 DEF EntryOK
<1>15. ASSUME NEW d \in Cluster, DirOwner(D2, own2, own2[d]), NEW i \in Index
       PROVE  D2[d][i].name # "data"
  <2>. DEFINE q == [cluster |-> d, slot |-> i]
  <2>1. q \in Place /\ EntryAt(D2, q) = D2[d][i] /\ EntryAt(D, q) = D[d][i]
    BY DEF Place, EntryAt
  <2>. HIDE DEF q
  <2>2. ~DirOwner(D, own, Nobody)
    BY <1>2 DEF DirOwner, InRoot
  <2>3. DirOwner(D, own, own[d])
    BY <1>4, <1>9, <1>15, <2>2
  <2>4. D[d][i].name # "data"
    BY <2>3 DEF Tree
  <2>. QED
    BY <1>3, <2>1, <2>4
<1>16. Typed(T2, D2, own2, pos, len) /\ own2[2] = Root /\ pos[2] = 1
  BY <1>1, <1>3, <1>5, <1>7, Clusters DEF Typed, Tree
<1>17. Tree(T2, D2, own2, pos, len)
  BY <1>11, <1>12, <1>13, <1>14, <1>15, <1>16 DEF Tree
<1>. QED
  BY <1>3, <1>10, <1>17 DEF own2



-----------------------------------------------------------------------------
(* The writes of a call, from the disk as it is to the disk as the call    *)
(* leaves it.                                                              *)

State(T, D) == [fat |-> T, disk |-> D]
After(s, w) ==
  State(IF w.at = "fat" THEN [s.fat EXCEPT ![w.cluster] = w.next] ELSE s.fat,
        CASE w.at = "fat" -> s.disk
          [] w.at = "slots" ->
               [s.disk EXCEPT ![w.cluster] =
                 [i \in Index |-> IF i \in DOMAIN w.slots THEN w.slots[i] ELSE @[i]]]
          [] w.at = "first" -> [s.disk EXCEPT ![w.cluster][w.slot].first = w.value]
          [] w.at = "size" -> [s.disk EXCEPT ![w.cluster][w.slot].size = w.value])

\* A disk that may be mounted.
Sound(s) == \E own, pos, len : Tree(s.fat, s.disk, own, pos, len)

\* R is what is on disk before each of the writes ws and after the last.
Stages(R, s, ws, t, safe) ==
  /\ R[0] = s /\ R[Len(ws)] = t
  /\ \A i \in 1..Len(ws) : R[i] = After(R[i - 1], ws[i])
  /\ safe => \A i \in 0..Len(ws) : Sound(R[i])
Leads(s, ws, t, safe) == ws \in Seq(Write) /\ \E R : Stages(R, s, ws, t, safe)

\* No writes lead from a state to itself.
LEMMA LeadsNone ==
  ASSUME NEW s, NEW safe, safe => Sound(s)
  PROVE  Leads(s, <<>>, s, safe)
<1>1. Stages([i \in {0} |-> s], s, <<>>, s, safe)
  BY DEF Stages
<1>. QED
  BY <1>1 DEF Leads

\* And to no other.
LEMMA LeadsEmpty ==
  ASSUME NEW s, NEW t, NEW safe, Leads(s, <<>>, t, safe)
  PROVE  s = t
BY DEF Leads, Stages

\* A write more leads one state further.
LEMMA LeadsAppend ==
  ASSUME NEW s, NEW t, NEW ws, NEW safe, Leads(s, ws, t, safe),
         NEW w \in Write, safe => Sound(After(t, w))
  PROVE  Leads(s, Append(ws, w), After(t, w), safe)
<1>. DEFINE n == Len(ws)
            v == Append(ws, w)
<1>1. PICK R : Stages(R, s, ws, t, safe)
  BY DEF Leads
<1>. DEFINE P == [i \in 0..(n + 1) |-> IF i = n + 1 THEN After(t, w) ELSE R[i]]
<1>2. /\ ws \in Seq(Write) /\ n \in Nat /\ v \in Seq(Write) /\ Len(v) = n + 1
      /\ (\A i \in 1..n : v[i] = ws[i]) /\ v[n + 1] = w
  BY AppendProperties DEF Leads
<1>3. /\ (\A i \in 0..n : P[i] = R[i]) /\ P[n + 1] = After(t, w)
      /\ R[0] = s /\ R[n] = t /\ (\A i \in 1..n : R[i] = After(R[i - 1], ws[i]))
      /\ (safe => \A i \in 0..n : Sound(R[i]))
  BY <1>1, <1>2 DEF Stages
<1>. HIDE DEF n, v, P
<1>4. ASSUME NEW i \in 1..(n + 1) PROVE P[i] = After(P[i - 1], v[i])
  <2>1. CASE i \in 1..n
    BY <1>2, <1>3, <2>1
  <2>2. CASE i = n + 1
    BY <1>2, <1>3, <2>2
  <2>. QED
    BY <1>2, <2>1, <2>2
<1>5. ASSUME safe, NEW i \in 0..(n + 1) PROVE Sound(P[i])
  <2>1. i \in 0..n \/ i = n + 1
    BY <1>2
  <2>. QED
    BY <1>3, <1>5, <2>1
<1>6. 0 \in 0..n
  BY <1>2
<1>7. Stages(P, s, v, After(t, w), safe)
  BY <1>2, <1>3, <1>4, <1>5, <1>6 DEF Stages
<1>. QED
  BY <1>2, <1>7 DEF Leads, v

\* When one is done the others lead to the same state.
LEMMA LeadsTail ==
  ASSUME NEW s, NEW t, NEW ws, NEW safe, Leads(s, ws, t, safe), ws # <<>>
  PROVE  Leads(After(s, Head(ws)), Tail(ws), t, safe)
<1>. DEFINE n == Len(ws)
            v == Tail(ws)
<1>1. PICK R : Stages(R, s, ws, t, safe)
  BY DEF Leads
<1>. DEFINE P == [i \in 0..(n - 1) |-> R[i + 1]]
<1>2. /\ ws \in Seq(Write) /\ n \in Nat \ {0} /\ v \in Seq(Write) /\ Len(v) = n - 1
      /\ (\A i \in 1..(n - 1) : v[i] = ws[i + 1]) /\ Head(ws) = ws[1]
  BY HeadTailProperties, EmptySeq DEF Leads
<1>3. /\ (\A i \in 0..(n - 1) : P[i] = R[i + 1])
      /\ R[0] = s /\ R[n] = t /\ (\A i \in 1..n : R[i] = After(R[i - 1], ws[i]))
      /\ (safe => \A i \in 0..n : Sound(R[i]))
  BY <1>1, <1>2 DEF Stages
<1>. HIDE DEF n, v, P
<1>4. P[0] = After(s, Head(ws)) /\ P[n - 1] = t
  BY <1>2, <1>3
<1>5. ASSUME NEW i \in 1..(n - 1) PROVE P[i] = After(P[i - 1], v[i])
  <2>1. P[i] = R[i + 1] /\ P[i - 1] = R[i] /\ R[i + 1] = After(R[(i + 1) - 1], ws[i + 1])
    BY <1>2, <1>3
  <2>. QED
    BY <1>2, <2>1
<1>6. ASSUME safe, NEW i \in 0..(n - 1) PROVE Sound(P[i])
  BY <1>2, <1>3, <1>6
<1>7. Stages(P, After(s, Head(ws)), v, t, safe)
  BY <1>2, <1>4, <1>5, <1>6 DEF Stages
<1>. QED
  BY <1>2, <1>7 DEF Leads, v

\* What is on disk may be mounted at once.
LEMMA LeadsSound ==
  ASSUME NEW s, NEW t, NEW ws, NEW safe, Leads(s, ws, t, safe), safe
  PROVE  Sound(s)
<1>1. PICK R : Stages(R, s, ws, t, safe)
  BY DEF Leads
<1>2. Len(ws) \in Nat
  BY DEF Leads
<1>. QED
  BY <1>1, <1>2 DEF Stages

\* The promise may be weakened.
LEMMA LeadsWeaker ==
  ASSUME NEW s, NEW t, NEW ws, NEW safe, NEW less, less => safe, Leads(s, ws, t, safe)
  PROVE  Leads(s, ws, t, less)
BY Zenon DEF Leads, Stages


\* An entry of the table.
LEMMA AfterFat ==
  ASSUME NEW T, NEW D, NEW c \in Cluster, NEW n \in Cluster \cup {FREE, EOC}
  PROVE  /\ PutFat(c, n) \in Write
         /\ After(State(T, D), PutFat(c, n)) = State([T EXCEPT ![c] = n], D)
BY DEF PutFat, Write, After, State

\* All slots of a cluster.
LEMMA AfterSlots ==
  ASSUME NEW T, NEW D \in Disk, NEW c \in Cluster, NEW v \in Slots
  PROVE  /\ PutSlots(c, v) \in Write
         /\ After(State(T, D), PutSlots(c, v)) = State(T, [D EXCEPT ![c] = v])
<1>1. PutSlots(c, v) \in Write
  BY Zenon DEF PutSlots, Write, Slots
<1>2. v = [i \in Index |-> IF i \in DOMAIN v THEN v[i] ELSE D[c][i]]
  BY DEF Slots
<1>. DEFINE w == PutSlots(c, v)
<1>3. w.at = "slots" /\ w.cluster = c /\ w.slots = v
  BY DEF PutSlots
<1>. HIDE DEF w
<1>4. After(State(T, D), w)
        = State(T, [D EXCEPT ![c] = [i \in Index |-> IF i \in DOMAIN v THEN v[i] ELSE D[c][i]]])
  BY <1>3 DEF After, State
<1>. QED
  BY <1>1, <1>2, <1>4 DEF w

\* One slot.
LEMMA AfterEntry ==
  ASSUME NEW T, NEW D \in Disk, NEW p \in Place, NEW e \in Slot
  PROVE  /\ PutSlots(p.cluster, [i \in {p.slot} |-> e]) \in Write
         /\ \E D2 : /\ After(State(T, D), PutSlots(p.cluster, [i \in {p.slot} |-> e])) = State(T, D2)
                    /\ SlotPut(D, D2, p, e)
<1>. DEFINE v == [i \in {p.slot} |-> e]
            w == PutSlots(p.cluster, v)
<1>1. p.cluster \in Cluster /\ p.slot \in Index
  BY DEF Place
<1>2. v \in [{p.slot} -> Slot] /\ {p.slot} \in SUBSET Index
  BY <1>1
<1>3. DOMAIN v = {p.slot} /\ v[p.slot] = e
  OBVIOUS
<1>. HIDE DEF v
<1>4. w \in Write
  BY <1>1, <1>2, Zenon DEF PutSlots, Write
<1>5. w.at = "slots" /\ w.cluster = p.cluster /\ w.slots = v
  BY DEF PutSlots
<1>. HIDE DEF w
<1>. DEFINE u == [i \in Index |-> IF i \in DOMAIN v THEN v[i] ELSE D[p.cluster][i]]
            D2 == [D EXCEPT ![p.cluster] = u]
<1>6. After(State(T, D), w) = State(T, D2)
  BY <1>5 DEF After, State
<1>7. u \in Slots /\ \A i \in Index : u[i] = IF i = p.slot THEN e ELSE D[p.cluster][i]
  BY <1>1, <1>3 DEF Slots, Disk
<1>. HIDE DEF u
<1>8. SlotPut(D, D2, p, e)
  BY <1>1, <1>7 DEF SlotPut, Disk
<1>. QED
  BY <1>4, <1>6, <1>8 DEF w, v

\* The first cluster or the size in a slot.
LEMMA AfterFirst ==
  ASSUME NEW T, NEW D \in Disk, NEW p \in Place, NEW c \in Cluster
  PROVE  /\ PutField(p, "first", c) \in Write
         /\ \E D2 : /\ After(State(T, D), PutField(p, "first", c)) = State(T, D2)
                    /\ SlotPut(D, D2, p, [EntryAt(D, p) EXCEPT !.first = c])
<1>. DEFINE w == PutField(p, "first", c)
            D2 == [D EXCEPT ![p.cluster][p.slot].first = c]
<1>1. p.cluster \in Cluster /\ p.slot \in Index /\ c \in Nat
  BY Clusters DEF Place
<1>2. w \in Write
  BY <1>1 DEF PutField, Write
<1>3. w.at = "first" /\ w.cluster = p.cluster /\ w.slot = p.slot /\ w.value = c
  BY DEF PutField
<1>. HIDE DEF w
<1>4. After(State(T, D), w) = State(T, D2)
  BY <1>3 DEF After, State
<1>5. D[p.cluster][p.slot] \in Slot
  BY <1>1 DEF Disk, Slots
<1>. DEFINE e == [D[p.cluster][p.slot] EXCEPT !.first = c]
<1>6. e \in Slot
  BY <1>5 DEF Slot
<1>. HIDE DEF e
<1>7. D2 = [D EXCEPT ![p.cluster] = [D[p.cluster] EXCEPT ![p.slot] = e]]
  BY <1>1 DEF e
<1>8. [D[p.cluster] EXCEPT ![p.slot] = e] \in Slots
  BY <1>1, <1>6 DEF Disk, Slots
<1>9. SlotPut(D, D2, p, e)
  BY <1>1, <1>6, <1>7, <1>8 DEF SlotPut, Disk, Slots
<1>. QED
  BY <1>2, <1>4, <1>9 DEF w, e, EntryAt

\* A write of a size changes the one entry.
LEMMA AfterSize ==
  ASSUME NEW T, NEW D \in Disk, NEW p \in Place, NEW n \in 0..MaxSize
  PROVE  /\ PutField(p, "size", n) \in Write
         /\ \E D2 : /\ After(State(T, D), PutField(p, "size", n)) = State(T, D2)
                    /\ SlotPut(D, D2, p, [EntryAt(D, p) EXCEPT !.size = n])
<1>. DEFINE w == PutField(p, "size", n)
            D2 == [D EXCEPT ![p.cluster][p.slot].size = n]
<1>1. p.cluster \in Cluster /\ p.slot \in Index /\ n \in Nat
  BY Fat32Assumption DEF Place
<1>2. w \in Write
  BY <1>1 DEF PutField, Write
<1>3. w.at = "size" /\ w.cluster = p.cluster /\ w.slot = p.slot /\ w.value = n
  BY DEF PutField
<1>. HIDE DEF w
<1>4. After(State(T, D), w) = State(T, D2)
  BY <1>3 DEF After, State
<1>5. D[p.cluster][p.slot] \in Slot
  BY <1>1 DEF Disk, Slots
<1>. DEFINE e == [D[p.cluster][p.slot] EXCEPT !.size = n]
<1>6. e \in Slot
  BY <1>5 DEF Slot
<1>. HIDE DEF e
<1>7. D2 = [D EXCEPT ![p.cluster] = [D[p.cluster] EXCEPT ![p.slot] = e]]
  BY <1>1 DEF e
<1>8. [D[p.cluster] EXCEPT ![p.slot] = e] \in Slots
  BY <1>1, <1>6 DEF Disk, Slots
<1>9. SlotPut(D, D2, p, e)
  BY <1>1, <1>6, <1>7, <1>8 DEF SlotPut, Disk, Slots
<1>. QED
  BY <1>2, <1>4, <1>9 DEF w, e, EntryAt


\* Two writes added are added one after the other.
LEMMA TwoMore ==
  ASSUME NEW ws \in Seq(Write), NEW a \in Write, NEW b \in Write
  PROVE  ws \o (<<a>> \o <<>> \o <<b>>) = Append(Append(ws, a), b)
<1>1. <<a>> \in Seq(Write) /\ <<b>> \in Seq(Write) /\ <<>> \in Seq(Write)
  OBVIOUS
<1>2. <<a>> \o <<>> \o <<b>> = <<a, b>> /\ <<a, b>> \in Seq(Write)
  <2>1. <<a>> \o <<>> = <<a>>
    BY <1>1, ConcatEmptySeq
  <2>2. <<a>> \o <<b>> \in Seq(Write) /\ Len(<<a>> \o <<b>>) = 2 /\ <<a, b>> \in Seq(Write)
    BY <1>1, ConcatProperties
  <2>3. \A i \in 1..2 : (<<a>> \o <<b>>)[i] = <<a, b>>[i]
    OBVIOUS
  <2>4. <<a>> \o <<b>> = <<a, b>>
    BY <2>2, <2>3, SeqEqual
  <2>. QED
    BY <2>1, <2>2, <2>4
<1>3. ws \o <<a, b>> \in Seq(Write) /\ Len(ws \o <<a, b>>) = Len(ws) + 2
  BY <1>2
<1>4. /\ Append(ws, a) \in Seq(Write) /\ Append(Append(ws, a), b) \in Seq(Write)
      /\ Len(Append(Append(ws, a), b)) = Len(ws) + 2
  BY <1>1
<1>5. \A i \in 1..(Len(ws) + 2) : (ws \o <<a, b>>)[i] = Append(Append(ws, a), b)[i]
  OBVIOUS
<1>6. ws \o <<a, b>> = Append(Append(ws, a), b)
  BY <1>3, <1>4, <1>5, SeqEqual
<1>. QED
  BY <1>2, <1>6

\* So are three.
LEMMA ThreeMore ==
  ASSUME NEW ws \in Seq(Write), NEW a \in Write, NEW b \in Write, NEW c \in Write
  PROVE  ws \o (<<a>> \o <<b>> \o <<c>>) = Append(Append(Append(ws, a), b), c)
<1>2. <<a>> \o <<b>> \o <<c>> = <<a, b, c>> /\ <<a, b, c>> \in Seq(Write)
  <2>1. <<a>> \o <<b>> \in Seq(Write) /\ Len(<<a>> \o <<b>>) = 2
    OBVIOUS
  <2>2. /\ <<a>> \o <<b>> \o <<c>> \in Seq(Write) /\ Len(<<a>> \o <<b>> \o <<c>>) = 3
        /\ <<a, b, c>> \in Seq(Write)
    BY <2>1
  <2>3. \A i \in 1..3 : (<<a>> \o <<b>> \o <<c>>)[i] = <<a, b, c>>[i]
    OBVIOUS
  <2>. QED
    BY <2>2, <2>3, SeqEqual
<1>3. ws \o <<a, b, c>> \in Seq(Write) /\ Len(ws \o <<a, b, c>>) = Len(ws) + 3
  BY <1>2
<1>4. /\ Append(ws, a) \in Seq(Write) /\ Append(Append(ws, a), b) \in Seq(Write)
      /\ Append(Append(Append(ws, a), b), c) \in Seq(Write)
      /\ Len(Append(Append(Append(ws, a), b), c)) = Len(ws) + 3
  OBVIOUS
<1>5. \A i \in 1..(Len(ws) + 3) : (ws \o <<a, b, c>>)[i] = Append(Append(Append(ws, a), b), c)[i]
  OBVIOUS
<1>6. ws \o <<a, b, c>> = Append(Append(Append(ws, a), b), c)
  BY <1>3, <1>4, <1>5, SeqEqual
<1>. QED
  BY <1>2, <1>6

-----------------------------------------------------------------------------
(* Plans: the writes lead from the disk as it is to a tree.                *)

PlanType == [fat : Fat, todo : Seq(Write), at : Cluster \cup {0}, done : Nat]
Planned(plan, s, D, own, pos, len, safe) ==
  /\ plan \in PlanType
  /\ Leads(s, plan.todo, State(plan.fat, D), safe)
  /\ Tree(plan.fat, D, own, pos, len)

Cleared(D, c) == [D EXCEPT ![c] = [i \in Index |-> Zero]]

\* No cluster was left.
Unserved(r, plan) == r = [plan EXCEPT !.at = 0]

\* The plan r has taken the cluster r.at, which nobody had.
Fresh(r, plan, own) ==
  /\ r \in PlanType /\ r.at \in Cluster /\ own[r.at] = Nobody
  /\ plan.fat[r.at] = FREE /\ r.fat[r.at] = EOC /\ r.done = plan.done
  /\ \A d \in Cluster : own[d] = Nobody /\ d # r.at => r.fat[d] = plan.fat[d]

\* An entry that is at most a mark.
Marked(m, isdir, c) == [name |-> m, dir |-> isdir, first |-> c, size |-> 0]

\* A slot with a mark is no entry.
LEMMA MarkedSlot ==
  ASSUME NEW m \in Marks, NEW isdir \in BOOLEAN, NEW c \in Cluster \cup {0}
  PROVE  Marked(m, isdir, c) \in Slot /\ Marked(m, isdir, c).name = m /\ m \notin Name
<1>1. 0 \in 0..MaxSize
  BY Fat32Assumption
<1>. QED
  BY <1>1, Fat32Assumption DEF Marked, Slot

\* The marks, and the entries with them.
LEMMA MarkNames ==
  /\ "" \in Marks /\ "E5" \in Marks /\ "." \in Marks /\ ".." \in Marks /\ "data" \in Marks
  /\ "" # "data" /\ "E5" # "data" /\ "." # "data" /\ ".." # "data"
  /\ Zero = Marked("", FALSE, 0)
BY Zenon DEF Marks, Zero, Marked

\* Data of a file is marked so.
LEMMA DataMarked == Data = Marked("data", FALSE, 0)
<1>. DEFINE blank == ""
<1>1. Data = [Zero EXCEPT !.name = "data"] /\ Zero = Marked(blank, FALSE, 0)
  BY MarkNames, Zenon DEF Data
<1>. HIDE DEF blank
<1>. QED
  BY <1>1 DEF Marked

\* So is a slot that is empty but for its name.
LEMMA NamedZero ==
  ASSUME NEW m
  PROVE  [Zero EXCEPT !.name = m] = Marked(m, FALSE, 0)
<1>. DEFINE blank == ""
<1>1. Zero = Marked(blank, FALSE, 0)
  BY MarkNames, Zenon
<1>. HIDE DEF blank
<1>. QED
  BY <1>1 DEF Marked

\* Cleared sectors and those with data have no entries.
LEMMA ZeroSlots ==
  /\ [i \in Index |-> Zero] \in Slots /\ [i \in Index |-> Data] \in Slots
  /\ Zero.name \notin Name \cup {"data"} /\ "data" \notin Name
<1>1. Zero \in Slot /\ Zero.name = "" /\ "" \notin Name /\ Data \in Slot /\ "data" \notin Name
  <2>1. 0 \in Cluster \cup {0} /\ FALSE \in BOOLEAN
    OBVIOUS
  <2>. QED
    BY <2>1, MarkedSlot, MarkNames, DataMarked, Zenon
<1>2. Zero.name \notin Name \cup {"data"}
  BY <1>1, MarkNames, Zenon
<1>. QED
  BY <1>1, <1>2, Zenon DEF Slots

\* What nobody owns is no directory.
LEMMA NobodyNoDir ==
  ASSUME NEW D, NEW own PROVE ~DirOwner(D, own, Nobody)
BY DEF DirOwner, InRoot, Nobody, Root, Place, Index

\* What no cluster before it has: marked, and cleared.
LEMMA AllocateFirst ==
  ASSUME NEW plan, NEW s, NEW D, NEW own, NEW pos, NEW len, NEW safe,
         Planned(plan, s, D, own, pos, len, safe)
  PROVE  LET r == fat32_allocate_cluster(plan, 0)
         IN  \/ Unserved(r, plan)
             \/ /\ Fresh(r, plan, own)
                /\ Planned(r, s, Cleared(D, r.at), own, pos, len, safe)
                /\ SameEntries(D, own, Cleared(D, r.at), own)
<1>. DEFINE r == fat32_allocate_cluster(plan, 0)
            F == FreeClusters(plan)
            c == Lowest(F)
            T == plan.fat
            T2 == [T EXCEPT ![c] = EOC]
            z == [i \in Index |-> Zero]
            D2 == [D EXCEPT ![c] = z]
            m == PutFat(c, EOC)
            k == PutSlots(c, z)
<1>1. CASE F = {}
  BY <1>1 DEF fat32_allocate_cluster, Unserved
<1>2. CASE F # {}
  <2>1. F \in SUBSET Nat
    BY Clusters DEF FreeClusters
  <2>2. c \in F
    BY <1>2, <2>1, LowestIn
  <2>3. c \in Cluster /\ T[c] = FREE
    BY <2>2 DEF FreeClusters
  <2>4. r = [plan EXCEPT !.fat = T2, !.todo = @ \o (Mark(c) \o Link(0, c) \o Clear(c)), !.at = c]
    BY <1>2 DEF fat32_allocate_cluster, Taken
  <2>. HIDE DEF F, c, r
  <2>5. plan \in PlanType /\ Tree(T, D, own, pos, len) /\ Leads(s, plan.todo, State(T, D), safe)
    BY DEF Planned
  <2>6. plan.todo \in Seq(Write) /\ T \in Fat /\ D \in Disk /\ own \in [Cluster -> Owner]
    BY <2>5 DEF PlanType, Tree, Typed
  <2>7. own[c] = Nobody
    BY <2>3, <2>5, FreeIsNobodys
  <2>8. T2 \in Fat /\ T2[c] = EOC /\ EOC \in Cluster \cup {FREE, EOC}
    BY <2>3, <2>6 DEF Fat
  <2>9. z \in Slots
    BY ZeroSlots
  <2>10. Tree(T2, D, own, pos, len)
    BY <2>3, <2>5, <2>7, TreeMark
  <2>11. Tree(T2, D2, own, pos, len) /\ SameEntries(D, own, D2, own)
    <3>. HIDE DEF T2, z
    <3>. QED
      BY <2>3, <2>7, <2>9, <2>10, NobodyNoDir, TreeSlots
  <2>12. m \in Write /\ After(State(T, D), m) = State(T2, D)
    BY <2>3, <2>8, AfterFat
  <2>13. k \in Write /\ After(State(T2, D), k) = State(T2, D2)
    BY <2>3, <2>6, <2>9, AfterSlots
  <2>14. Sound(State(T2, D)) /\ Sound(State(T2, D2))
    BY <2>10, <2>11, Zenon DEF Sound, State
  <2>15. plan.todo \o (Mark(c) \o Link(0, c) \o Clear(c)) = Append(Append(plan.todo, m), k)
    BY <2>6, <2>12, <2>13, TwoMore DEF Mark, Link, Clear
  <2>. HIDE DEF T2, z, D2, m, k
  <2>16. Leads(s, Append(plan.todo, m), State(T2, D), safe)
    BY <2>5, <2>12, <2>14, LeadsAppend
  <2>17. Leads(s, Append(Append(plan.todo, m), k), State(T2, D2), safe)
    BY <2>13, <2>14, <2>16, LeadsAppend
  <2>18. /\ r \in PlanType /\ r.fat = T2 /\ r.todo = Append(Append(plan.todo, m), k)
         /\ r.at = c /\ r.done = plan.done
    <3>1. Append(Append(plan.todo, m), k) \in Seq(Write)
      BY <2>6, <2>12, <2>13
    <3>. QED
      BY <2>3, <2>4, <2>5, <2>8, <2>15, <3>1 DEF PlanType
  <2>19. Fresh(r, plan, own)
    <3>1. \A d \in Cluster : d # c => T2[d] = T[d]
      BY <2>6 DEF T2, Fat
    <3>. QED
      BY <2>3, <2>7, <2>8, <2>18, <3>1 DEF Fresh
  <2>20. Planned(r, s, Cleared(D, r.at), own, pos, len, safe)
    BY <2>11, <2>17, <2>18 DEF Planned, Cleared, D2, z
  <2>. QED
    BY <2>11, <2>18, <2>19, <2>20 DEF Cleared, D2, z, r
<1>. QED
  BY <1>1, <1>2


\* The plan r has made the cluster r.at the last one of x.
Linked(r, s, D, own, pos, len, x, safe) ==
  /\ Planned(r, s, Cleared(D, r.at), WithOwner(own, r.at, x), WithPos(pos, len, r.at, x),
             WithLen(len, x), safe)
  /\ SameEntries(D, own, Cleared(D, r.at), WithOwner(own, r.at, x))

\* A further cluster of what owns prev: marked, linked and cleared.
LEMMA AllocateNext ==
  ASSUME NEW plan, NEW s, NEW D, NEW own, NEW pos, NEW len, NEW safe,
         Planned(plan, s, D, own, pos, len, safe),
         NEW prev \in Cluster, own[prev] # Nobody, plan.fat[prev] = EOC,
         safe => ~DirOwner(D, own, own[prev])
  PROVE  LET r == fat32_allocate_cluster(plan, prev)
         IN  \/ Unserved(r, plan)
             \/ Fresh(r, plan, own) /\ Linked(r, s, D, own, pos, len, own[prev], safe)
<1>. DEFINE r == fat32_allocate_cluster(plan, prev)
            F == FreeClusters(plan)
            c == Lowest(F)
            T == plan.fat
            T1 == [T EXCEPT ![c] = EOC]
            T2 == [T1 EXCEPT ![prev] = c]
            z == [i \in Index |-> Zero]
            D2 == [D EXCEPT ![c] = z]
            m == PutFat(c, EOC)
            l == PutFat(prev, c)
            k == PutSlots(c, z)
            x == own[prev]
            own2 == WithOwner(own, c, x)
            pos2 == WithPos(pos, len, c, x)
            len2 == WithLen(len, x)
<1>1. CASE F = {}
  <2>1. Unserved(r, plan)
    BY <1>1 DEF fat32_allocate_cluster, Unserved
  <2>. QED
    BY <2>1, Zenon
<1>2. CASE F # {}
  <2>1. F \in SUBSET Nat
    BY Clusters DEF FreeClusters
  <2>2. c \in F
    BY <1>2, <2>1, LowestIn
  <2>3. c \in Cluster /\ T[c] = FREE /\ prev # 0
    BY <2>2, Clusters DEF FreeClusters
  <2>4. r = [plan EXCEPT !.fat = T2, !.todo = @ \o (Mark(c) \o Link(prev, c) \o Clear(c)), !.at = c]
    BY <1>2, <2>3 DEF fat32_allocate_cluster, Taken
  <2>. HIDE DEF F, c, r
  <2>5. plan \in PlanType /\ Tree(T, D, own, pos, len) /\ Leads(s, plan.todo, State(T, D), safe)
    BY DEF Planned
  <2>6. plan.todo \in Seq(Write) /\ T \in Fat /\ D \in Disk /\ own \in [Cluster -> Owner]
    BY <2>5 DEF PlanType, Tree, Typed
  <2>7. own[c] = Nobody
    BY <2>3, <2>5, FreeIsNobodys
  <2>8. c # prev
    BY <2>7
  <2>9. T1 \in Fat /\ T1[c] = EOC /\ T1[prev] = EOC /\ EOC \in Cluster \cup {FREE, EOC}
    BY <2>3, <2>6, <2>8 DEF Fat
  <2>. HIDE DEF T1
  <2>10. T2 \in Fat /\ T2[c] = EOC
    BY <2>3, <2>8, <2>9 DEF Fat
  <2>11. z \in Slots
    BY ZeroSlots
  <2>12. Tree(T1, D, own, pos, len)
    BY <2>3, <2>5, <2>7, TreeMark DEF T1
  <2>13. Tree(T1, D2, own, pos, len) /\ SameEntries(D, own, D2, own)
    <3>. HIDE DEF z
    <3>. QED
      BY <2>3, <2>7, <2>11, <2>12, NobodyNoDir, TreeSlots
  <2>14. D2 \in Disk /\ \A i \in Index : D2[c][i].name \notin Name \cup {"data"}
    <3>1. D2 \in Disk /\ D2[c] = z
      <4>. HIDE DEF z
      <4>. QED
        BY <2>3, <2>6, <2>11 DEF Disk
    <3>2. \A i \in Index : z[i] = Zero
      OBVIOUS
    <3>. HIDE DEF z, D2
    <3>. QED
      BY <3>1, <3>2, ZeroSlots
  <2>. HIDE DEF z, D2
  <2>15. Tree(T2, D2, own2, pos2, len2) /\ SameEntries(D2, own, D2, own2)
    <3>1. Unlisted(D2, own, c, own[prev])
      BY <2>14 DEF Unlisted
    <3>. QED
      BY <2>3, <2>7, <2>9, <2>13, <3>1, TreeLink
  <2>16. safe => Sound(State(T2, D))
    <3>1. SUFFICES ASSUME safe PROVE Sound(State(T2, D))
      OBVIOUS
    <3>2. Unlisted(D, own, c, own[prev])
      BY <3>1 DEF Unlisted
    <3>3. Tree(T2, D, own2, pos2, len2)
      BY <2>3, <2>7, <2>9, <2>12, <3>2, TreeLink
    <3>. QED
      BY <3>3, Zenon DEF Sound, State
  <2>17. SameEntries(D, own, D2, own2)
    BY <2>13, <2>15, Zenon DEF SameEntries
  <2>. HIDE DEF T2, x, own2, pos2, len2
  <2>18. m \in Write /\ After(State(T, D), m) = State(T1, D)
    BY <2>3, <2>9, AfterFat DEF T1
  <2>19. l \in Write /\ After(State(T1, D), l) = State(T2, D)
    BY <2>3, AfterFat DEF T2
  <2>20. k \in Write /\ After(State(T2, D), k) = State(T2, D2)
    BY <2>3, <2>6, <2>11, AfterSlots DEF D2
  <2>21. Sound(State(T1, D)) /\ Sound(State(T2, D2))
    BY <2>12, <2>15, Zenon DEF Sound, State
  <2>22. plan.todo \o (Mark(c) \o Link(prev, c) \o Clear(c)) = Append(Append(Append(plan.todo, m), l), k)
    <3>1. Mark(c) = <<m>> /\ Link(prev, c) = <<l>> /\ Clear(c) = <<k>>
      BY <2>3 DEF Mark, Link, Clear, z
    <3>. HIDE DEF m, l, k
    <3>2. plan.todo \o (<<m>> \o <<l>> \o <<k>>) = Append(Append(Append(plan.todo, m), l), k)
      <4>1. plan.todo \in Seq(Write) /\ m \in Write /\ l \in Write /\ k \in Write
        BY <2>6, <2>18, <2>19, <2>20
      <4>. QED
        BY <4>1, ThreeMore
    <3>. QED
      BY <3>1, <3>2
  <2>. HIDE DEF m, l, k
  <2>23. Leads(s, Append(plan.todo, m), State(T1, D), safe)
    BY <2>5, <2>18, <2>21, LeadsAppend
  <2>24. Leads(s, Append(Append(plan.todo, m), l), State(T2, D), safe)
    BY <2>16, <2>19, <2>23, LeadsAppend
  <2>25. Leads(s, Append(Append(Append(plan.todo, m), l), k), State(T2, D2), safe)
    BY <2>20, <2>21, <2>24, LeadsAppend
  <2>26. /\ r \in PlanType /\ r.fat = T2 /\ r.todo = Append(Append(Append(plan.todo, m), l), k)
         /\ r.at = c /\ r.done = plan.done
    <3>1. Append(Append(Append(plan.todo, m), l), k) \in Seq(Write)
      BY <2>6, <2>18, <2>19, <2>20
    <3>. QED
      BY <2>3, <2>4, <2>5, <2>10, <2>22, <3>1 DEF PlanType
  <2>27. Fresh(r, plan, own)
    <3>1. \A d \in Cluster : d # c /\ own[d] = Nobody => T2[d] = T[d]
      BY <2>6, <2>9 DEF T1, T2, Fat
    <3>. QED
      BY <2>3, <2>7, <2>10, <2>26, <3>1 DEF Fresh
  <2>28. Planned(r, s, D2, own2, pos2, len2, safe)
    BY <2>15, <2>25, <2>26 DEF Planned
  <2>29. D2 = Cleared(D, c)
    BY DEF D2, z, Cleared
  <2>30. Linked(r, s, D, own, pos, len, x, safe)
    BY <2>17, <2>26, <2>28, <2>29, Zenon DEF Linked, own2, pos2, len2
  <2>. QED
    BY <2>27, <2>30 DEF r, x
<1>. QED
  BY <1>1, <1>2


-----------------------------------------------------------------------------
(* What lookups find.                                                      *)

\* What % and \div say of each other.
LEMMA DivMod ==
  ASSUME NEW a \in Nat
  PROVE  /\ a \div PerCluster \in Nat /\ a % PerCluster \in 0..(PerCluster - 1)
         /\ a = PerCluster * (a \div PerCluster) + (a % PerCluster)
BY Clusters

\* An offset below the end of a chain lies in one of its clusters.
LEMMA DivBelow ==
  ASSUME NEW a \in Nat, NEW l \in Nat, a < l * PerCluster
  PROVE  a \div PerCluster < l
<1>. DEFINE q == a \div PerCluster
<1>1. q \in Nat /\ a >= PerCluster * q
  <2>1. PerCluster * q \in Int
    BY DivMod, Clusters
  <2>. QED
    BY <2>1, DivMod, Clusters
<1>. HIDE DEF q
<1>2. SUFFICES ASSUME q >= l PROVE FALSE
  BY <1>1 DEF q
<1>3. PerCluster * l <= PerCluster * q /\ PerCluster * l \in Nat
  BY <1>1, <1>2, Backs
<1>4. PerCluster * l = l * PerCluster
  BY Clusters
<1>5. PerCluster * q \in Int
  BY <1>1, Clusters
<1>. HIDE DEF q
<1>. QED
  BY <1>1, <1>3, <1>4, <1>5

\* The slots of an owner's chain.
PlacesOf(c, own) ==
  /\ Len(Places(c)) \in Nat
  /\ \A k \in 1..Len(Places(c)) : Places(c)[k] \in Place /\ own[Places(c)[k].cluster] = own[c]

\* The entries in a directory are its places.
LEMMA PlacesOwned ==
  ASSUME NEW own, NEW pos, NEW len, Tree(fat, disk, own, pos, len),
         NEW c \in Cluster, own[c] # Nobody, pos[c] = 1
  PROVE  PlacesOf(c, own)
<1>. DEFINE cs == Chain(fat, c)
            n == Len(cs) * PerCluster
            at(k) == [cluster |-> cs[((k - 1) \div PerCluster) + 1], slot |-> ((k - 1) % PerCluster) + 1]
<1>1. OwnChain(cs, fat, own, pos, len, own[c])
  BY ChainOwned
<1>. HIDE DEF cs
<1>2. cs \in Seq(Cluster) /\ Len(cs) \in Nat /\ \A i \in 1..Len(cs) : cs[i] \in Cluster /\ own[cs[i]] = own[c]
  BY <1>1 DEF OwnChain
<1>3. n \in Nat
  BY <1>2, Clusters
<1>4. ASSUME NEW k \in 1..n PROVE at(k) \in Place /\ own[at(k).cluster] = own[c]
  <2>1. k - 1 \in Nat /\ k - 1 < n
    BY <1>3
  <2>2. (k - 1) \div PerCluster < Len(cs)
    BY <1>2, <2>1, DivBelow
  <2>3. (k - 1) \div PerCluster \in Nat /\ (k - 1) % PerCluster \in 0..(PerCluster - 1)
    BY <2>1, DivMod
  <2>4. ((k - 1) \div PerCluster) + 1 \in 1..Len(cs) /\ ((k - 1) % PerCluster) + 1 \in Index
    BY <1>2, <2>2, <2>3, Clusters DEF Index
  <2>. QED
    BY <1>2, <2>4 DEF Place
<1>5. Places(c) = [k \in 1..n |-> at(k)]
  BY DEF Places, cs
<1>. HIDE DEF n, at
<1>6. Len(Places(c)) = n /\ \A k \in 1..n : Places(c)[k] = at(k)
  BY <1>3, <1>5
<1>. QED
  BY <1>3, <1>4, <1>6 DEF PlacesOf

\* A lookup finds an entry of that name, in the directory it looks in.
LEMMA LookupFinds ==
  ASSUME NEW own, NEW pos, NEW len, Tree(fat, disk, own, pos, len),
         NEW c \in Cluster, DirOwner(disk, own, own[c]), pos[c] = 1, NEW name \in Name,
         fat32_vnode_lookup(c, name) # NoPlace
  PROVE  LET p == fat32_vnode_lookup(c, name)
         IN  IsEntry(disk, own, p) /\ EntryAt(disk, p).name = name /\ own[p.cluster] = own[c]
<1>. DEFINE V == Visible(c)
            found == {k \in V : At(Places(c)[k]).name = name}
            k == Lowest(found)
<1>1. own[c] # Nobody
  BY NobodyNoDir
<1>2. PlacesOf(c, own)
  BY <1>1, PlacesOwned
<1>3. V \subseteq 1..Len(Places(c))
  BY Zenon DEF Visible
<1>. HIDE DEF V
<1>4. found # {} /\ fat32_vnode_lookup(c, name) = Places(c)[k]
  BY Zenon DEF fat32_vnode_lookup, V
<1>5. found \in SUBSET Nat
  <2>1. 1..Len(Places(c)) \subseteq Nat
    BY <1>2 DEF PlacesOf
  <2>. QED
    BY <1>3, <2>1, Zenon
<1>6. k \in found
  BY <1>4, <1>5, LowestIn
<1>7. k \in 1..Len(Places(c)) /\ At(Places(c)[k]).name = name
  BY <1>3, <1>6
<1>. HIDE DEF found, k
<1>8. Places(c)[k] \in Place /\ own[Places(c)[k].cluster] = own[c]
  BY <1>2, <1>7 DEF PlacesOf
<1>. QED
  BY <1>4, <1>7, <1>8, Zenon DEF IsEntry, EntryAt, At

\* What is in a path.
LEMMA PathNames ==
  ASSUME NEW path \in Paths
  PROVE  Len(path) \in {1, 2} /\ path[1] \in Name /\ Last(path) \in Name
<1>1. CASE path \in Name \X Name
  BY <1>1 DEF Last
<1>2. CASE \E n \in Name : path = <<n>>
  BY <1>2 DEF Last
<1>. QED
  BY <1>1, <1>2, Fat32Assumption

\* Paths lead into directories that are searched.
LEMMA ParentDir ==
  ASSUME NEW own, NEW pos, NEW len, Tree(fat, disk, own, pos, len), NEW path \in Paths,
         Parent(path) # 0
  PROVE  LET c == Parent(path)
         IN  c \in Cluster /\ DirOwner(disk, own, own[c]) /\ pos[c] = 1
<1>1. 2 \in Cluster /\ own[2] = Root /\ pos[2] = 1
  BY Clusters DEF Tree
<1>2. DirOwner(disk, own, own[2])
  BY <1>1 DEF DirOwner
<1>3. CASE Len(path) = 1
  BY <1>1, <1>2, <1>3 DEF Parent
<1>4. CASE Len(path) # 1
  <2>. DEFINE p == fat32_vnode_lookup(2, path[1])
  <2>1. p # NoPlace /\ At(p).dir /\ Parent(path) = At(p).first
    BY <1>4, Zenon DEF Parent
  <2>2. IsEntry(disk, own, p) /\ own[p.cluster] = Root /\ EntryAt(disk, p).name \in Name
    BY <1>1, <1>2, <2>1, LookupFinds, PathNames
  <2>. HIDE DEF p
  <2>3. p \in Place /\ EntryAt(disk, p) = At(p)
    BY <2>2 DEF IsEntry, EntryAt, At
  <2>4. InRoot(disk, own, p)
    BY <2>1, <2>2, <2>3, Zenon DEF InRoot
  <2>5. EntryOK(disk, own, pos, len, p) /\ disk \in Disk
    BY <2>2, <2>3 DEF Tree, Typed
  <2>6. At(p) \in Slot
    BY <2>3, <2>5 DEF At, Disk, Slots, Place
  <2>7. At(p).first \in Cluster
    BY <2>1, <2>6 DEF Slot
  <2>8. own[At(p).first] = p /\ pos[At(p).first] = 1
    BY <2>1, <2>3, <2>5 DEF EntryOK
  <2>. QED
    BY <2>1, <2>4, <2>7, <2>8 DEF DirOwner
<1>. QED
  BY <1>3, <1>4

\* A path that resolves leads to an entry of that name.
LEMMA ResolveFinds ==
  ASSUME NEW own, NEW pos, NEW len, Tree(fat, disk, own, pos, len), NEW path \in Paths,
         Resolve(path) # NoPlace
  PROVE  IsEntry(disk, own, Resolve(path)) /\ EntryAt(disk, Resolve(path)).name = Last(path)
<1>1. Parent(path) # 0 /\ Resolve(path) = fat32_vnode_lookup(Parent(path), Last(path))
  BY DEF Resolve
<1>2. Parent(path) \in Cluster /\ DirOwner(disk, own, own[Parent(path)]) /\ pos[Parent(path)] = 1
  BY <1>1, ParentDir
<1>. QED
  BY <1>1, <1>2, LookupFinds, PathNames


-----------------------------------------------------------------------------
(* What descriptors have open.                                             *)

PlaceOf(n) == [cluster |-> n.cluster, slot |-> n.slot]

\* A node knows where its entry is, and the first cluster the entry has.
NodeOK(n, D, own) ==
  /\ IsEntry(D, own, PlaceOf(n))
  /\ n.first = EntryAt(D, PlaceOf(n)).first /\ n.dir = EntryAt(D, PlaceOf(n)).dir

\* Nodes of the same entry are of one that has a cluster: the first cluster that a
\* write gives an entry is noted in the writer's node only.
Nodes(N, D, own) ==
  /\ N \in [Fd -> FatNode]
  /\ \A d \in Fd : N[d].is_open => NodeOK(N[d], D, own)
  /\ \A d, e \in Fd : d # e /\ N[d].is_open /\ N[e].is_open /\ PlaceOf(N[d]) = PlaceOf(N[e])
                        => N[d].first # 0

\* The entry at p has become e, and the other entries are as they were.
Changed(D, own, D2, own2, p, e) ==
  /\ IsEntry(D2, own2, p) /\ EntryAt(D2, p) = e
  /\ \A q \in Place : q # p => /\ IsEntry(D2, own2, q) <=> IsEntry(D, own, q)
                               /\ IsEntry(D, own, q) => EntryAt(D2, q) = EntryAt(D, q)

\* Descriptors refer to the same entries after a change to others.
LEMMA NodesSame ==
  ASSUME NEW N, NEW D, NEW own, NEW D2, NEW own2, Nodes(N, D, own), SameEntries(D, own, D2, own2)
  PROVE  Nodes(N, D2, own2)
<1>1. ASSUME NEW n, NodeOK(n, D, own) PROVE NodeOK(n, D2, own2)
  <2>1. PlaceOf(n) \in Place /\ IsEntry(D, own, PlaceOf(n))
    BY <1>1 DEF NodeOK, IsEntry
  <2>. QED
    BY <1>1, <2>1 DEF NodeOK, SameEntries
<1>. QED
  BY <1>1, Zenon DEF Nodes

\* Nothing has the entry open that changes.
LEMMA NodesAside ==
  ASSUME NEW N, NEW D, NEW own, NEW D2, NEW own2, Nodes(N, D, own),
         NEW p, NEW e, Changed(D, own, D2, own2, p, e),
         \A d \in Fd : N[d].is_open => PlaceOf(N[d]) # p
  PROVE  Nodes(N, D2, own2)
<1>1. ASSUME NEW n, NodeOK(n, D, own), PlaceOf(n) # p PROVE NodeOK(n, D2, own2)
  <2>1. PlaceOf(n) \in Place /\ IsEntry(D, own, PlaceOf(n))
    BY <1>1 DEF NodeOK, IsEntry
  <2>. QED
    BY <1>1, <2>1 DEF NodeOK, Changed
<1>. QED
  BY <1>1, Zenon DEF Nodes

\* One more is open.
LEMMA NodesOpen ==
  ASSUME NEW N, NEW D, NEW own, Nodes(N, D, own), NEW d \in Fd, ~N[d].is_open,
         NEW n \in FatNode, NodeOK(n, D, own),
         \A k \in Fd : N[k].is_open /\ PlaceOf(N[k]) = PlaceOf(n) => n.first # 0
  PROVE  Nodes([N EXCEPT ![d] = n], D, own)
<1>. DEFINE M == [N EXCEPT ![d] = n]
<1>1. N \in [Fd -> FatNode]
  BY DEF Nodes
<1>2. M \in [Fd -> FatNode] /\ \A k \in Fd : M[k] = IF k = d THEN n ELSE N[k]
  BY <1>1
<1>. HIDE DEF M
<1>3. ASSUME NEW k \in Fd, M[k].is_open PROVE NodeOK(M[k], D, own)
  BY <1>2, <1>3, Zenon DEF Nodes
<1>4. ASSUME NEW k \in Fd, NEW j \in Fd, k # j, M[k].is_open, M[j].is_open, PlaceOf(M[k]) = PlaceOf(M[j])
      PROVE  M[k].first # 0
  <2>1. CASE k # d /\ j # d
    BY <1>2, <1>4, <2>1, Zenon DEF Nodes
  <2>2. CASE k = d
    BY <1>2, <1>4, <2>2, Zenon
  <2>3. CASE k # d /\ j = d
    <3>1. M[k] = N[k] /\ M[j] = n /\ n.first # 0
      BY <1>2, <1>4, <2>3, Zenon
    <3>2. NodeOK(N[k], D, own)
      BY <1>4, <3>1, Zenon DEF Nodes
    <3>. QED
      BY <1>4, <3>1, <3>2, Zenon DEF NodeOK
  <2>. QED
    BY <2>1, <2>2, <2>3
<1>. QED
  BY <1>2, <1>3, <1>4, Zenon DEF Nodes, M

\* One is closed.
LEMMA NodesClose ==
  ASSUME NEW N, NEW D, NEW own, Nodes(N, D, own), NEW d \in Fd
  PROVE  Nodes([N EXCEPT ![d] = ClosedNode], D, own)
<1>. DEFINE M == [N EXCEPT ![d] = ClosedNode]
<1>1. N \in [Fd -> FatNode]
  BY DEF Nodes
<1>2. ClosedNode \in FatNode /\ ~ClosedNode.is_open
  BY Fat32Assumption DEF ClosedNode, FatNode, Index
<1>3. M \in [Fd -> FatNode] /\ \A k \in Fd : M[k] = IF k = d THEN ClosedNode ELSE N[k]
  BY <1>1, <1>2
<1>4. \A k \in Fd : M[k].is_open => M[k] = N[k]
  BY <1>2, <1>3
<1>. HIDE DEF M
<1>. QED
  BY <1>3, <1>4, Zenon DEF Nodes, M

\* Closed descriptors refer to none.
LEMMA NodesClosed ==
  ASSUME NEW D, NEW own
  PROVE  Nodes([d \in Fd |-> ClosedNode], D, own)
<1>1. ClosedNode \in FatNode /\ ~ClosedNode.is_open
  BY Fat32Assumption DEF ClosedNode, FatNode, Index
<1>. QED
  BY <1>1, Zenon DEF Nodes

\* The node that writes notes what has become of its entry.
LEMMA NodesWrite ==
  ASSUME NEW N, NEW D, NEW own, Nodes(N, D, own), NEW d \in Fd, N[d].is_open,
         NEW D2, NEW own2, NEW e, Changed(D, own, D2, own2, PlaceOf(N[d]), e), e.dir = N[d].dir,
         NEW n \in FatNode, n.is_open, n.dir = N[d].dir, PlaceOf(n) = PlaceOf(N[d]), n.first = e.first,
         N[d].first # 0 => n.first = N[d].first
  PROVE  Nodes([N EXCEPT ![d] = n], D2, own2)
<1>. DEFINE M == [N EXCEPT ![d] = n]
            p == PlaceOf(N[d])
<1>1. N \in [Fd -> FatNode]
  BY DEF Nodes
<1>2. M \in [Fd -> FatNode] /\ \A k \in Fd : M[k] = IF k = d THEN n ELSE N[k]
  BY <1>1
<1>3. IsEntry(D2, own2, p) /\ EntryAt(D2, p) = e
  BY DEF Changed
<1>. HIDE DEF M, p
<1>4. \A k \in Fd : PlaceOf(M[k]) = PlaceOf(N[k]) /\ (M[k].is_open <=> N[k].is_open)
  BY <1>2, Zenon
<1>5. ASSUME NEW k \in Fd, M[k].is_open PROVE NodeOK(M[k], D2, own2)
  <2>1. CASE PlaceOf(N[k]) # p
    <3>1. k # d /\ M[k] = N[k] /\ NodeOK(N[k], D, own)
      BY <1>2, <1>4, <1>5, <2>1, Zenon DEF Nodes, p
    <3>2. PlaceOf(N[k]) \in Place /\ IsEntry(D, own, PlaceOf(N[k]))
      BY <3>1, Zenon DEF NodeOK, IsEntry
    <3>. QED
      BY <2>1, <3>1, <3>2, Zenon DEF NodeOK, Changed, p
  <2>2. CASE k = d
    BY <1>2, <1>3, <2>2, Zenon DEF NodeOK, p
  <2>3. CASE k # d /\ PlaceOf(N[k]) = p
    <3>1. M[k] = N[k] /\ N[k].is_open /\ NodeOK(N[k], D, own) /\ NodeOK(N[d], D, own) /\ N[d].first # 0
      BY <1>2, <1>4, <1>5, <2>3, Zenon DEF Nodes, p
    <3>2. N[k].first = N[d].first /\ N[k].dir = N[d].dir
      BY <2>3, <3>1, Zenon DEF NodeOK, p
    <3>. QED
      BY <1>3, <2>3, <3>1, <3>2, Zenon DEF NodeOK
  <2>. QED
    BY <2>1, <2>2, <2>3, Zenon
<1>6. ASSUME NEW k \in Fd, NEW j \in Fd, k # j, M[k].is_open, M[j].is_open, PlaceOf(M[k]) = PlaceOf(M[j])
      PROVE  M[k].first # 0
  <2>1. N[k].first # 0
    BY <1>4, <1>6, Zenon DEF Nodes
  <2>. QED
    BY <1>2, <2>1, Zenon
<1>. QED
  BY <1>2, <1>5, <1>6, Zenon DEF Nodes, M


-----------------------------------------------------------------------------
(* Writes to a file.                                                       *)

\* The power may fail between any two of the writes.
Safely == TRUE

\* A call begins with nothing planned.
LEMMA PlanStart ==
  ASSUME NEW own, NEW pos, NEW len, Tree(fat, disk, own, pos, len), NEW c \in Cluster \cup {0}
  PROVE  /\ Planned(Plan(c), State(fat, disk), disk, own, pos, len, Safely)
         /\ Plan(c).at = c /\ Plan(c).done = 0 /\ Plan(c).fat = fat /\ Plan(c).todo = <<>>
<1>1. fat \in Fat
  BY DEF Tree, Typed
<1>2. Plan(c) \in PlanType /\ Plan(c).todo = <<>> /\ Plan(c).fat = fat /\ Plan(c).at = c /\ Plan(c).done = 0
  BY <1>1 DEF Plan, PlanType
<1>3. Sound(State(fat, disk))
  BY Zenon DEF Sound, State
<1>4. Leads(State(fat, disk), <<>>, State(fat, disk), Safely)
  BY <1>3, LeadsNone
<1>. QED
  BY <1>2, <1>4, Zenon DEF Planned

\* One more write, which leaves the table alone.
Puts(T, D, w, D2) == w \in Write /\ After(State(T, D), w) = State(T, D2)

\* A write added to a plan leads to the tree it makes.
LEMMA PlanDo ==
  ASSUME NEW plan, NEW s, NEW D, NEW own, NEW pos, NEW len, NEW safe,
         Planned(plan, s, D, own, pos, len, safe),
         NEW w, NEW D2, Puts(plan.fat, D, w, D2),
         NEW own2, NEW pos2, NEW len2, Tree(plan.fat, D2, own2, pos2, len2)
  PROVE  /\ Planned(Do(plan, w), s, D2, own2, pos2, len2, safe)
         /\ Do(plan, w).at = plan.at /\ Do(plan, w).done = plan.done /\ Do(plan, w).fat = plan.fat
<1>1. plan \in PlanType /\ Leads(s, plan.todo, State(plan.fat, D), safe)
  BY DEF Planned
<1>2. Sound(State(plan.fat, D2))
  BY Zenon DEF Sound, State
<1>3. Leads(s, Append(plan.todo, w), State(plan.fat, D2), safe)
  BY <1>1, <1>2, LeadsAppend DEF Puts
<1>4. /\ Do(plan, w) \in PlanType /\ Do(plan, w).todo = Append(plan.todo, w)
      /\ Do(plan, w).at = plan.at /\ Do(plan, w).done = plan.done /\ Do(plan, w).fat = plan.fat
  <2>. DEFINE t == Append(plan.todo, w)
  <2>1. t \in Seq(Write)
    BY <1>1 DEF PlanType, Puts
  <2>2. Do(plan, w) = [plan EXCEPT !.todo = t]
    BY DEF Do
  <2>. HIDE DEF t
  <2>3. /\ [plan EXCEPT !.todo = t] \in PlanType /\ [plan EXCEPT !.todo = t].todo = t
        /\ [plan EXCEPT !.todo = t].at = plan.at /\ [plan EXCEPT !.todo = t].done = plan.done
        /\ [plan EXCEPT !.todo = t].fat = plan.fat
    BY <1>1, <2>1 DEF PlanType
  <2>. QED
    BY <2>2, <2>3 DEF t
<1>. QED
  BY <1>3, <1>4, Zenon DEF Planned

\* The file at p, whose entry has become e, is being written: the plan has come
\* to the j-th cluster of its chain, which backs a size of b.
Writing(plan, D0, own0, p, e, j, b) ==
  \E D, own, pos, len :
    /\ Planned(plan, State(fat, disk), D, own, pos, len, Safely)
    /\ Changed(D0, own0, D, own, p, e)
    /\ plan.at # 0 => own[plan.at] = p /\ pos[plan.at] = j
    /\ b <= PerCluster * len[p]

\* A file that is written has its first cluster.
LEMMA WithFirstWriting ==
  ASSUME NEW own, NEW pos, NEW len, Tree(fat, disk, own, pos, len), NEW p, IsEntry(disk, own, p),
         NEW first, first = EntryAt(disk, p).first
  PROVE  LET r == WithFirst(p, first)
         IN  /\ Writing(r, disk, own, p, [EntryAt(disk, p) EXCEPT !.first = r.at], 1, 0)
             /\ r.done = 0 /\ r.at \in Cluster \cup {0} /\ (first # 0 => r.at = first)
<1>. DEFINE r == WithFirst(p, first)
            s == State(fat, disk)
            e == EntryAt(disk, p)
            made == fat32_allocate_cluster(Plan(0), 0)
<1>1. p \in Place /\ disk \in Disk /\ EntryOK(disk, own, pos, len, p)
  BY DEF IsEntry, Tree, Typed
<1>2. e \in Slot
  BY <1>1 DEF EntryAt, Disk, Slots, Place
<1>3. first \in Cluster \cup {0} /\ [e EXCEPT !.first = first] = e
  BY <1>2 DEF Slot
<1>4. len \in [Owner -> Nat] /\ p \in Owner
  BY <1>1 DEF Tree, Typed, Owner
<1>5. 0 <= PerCluster * len[p]
  BY <1>4, Clusters
<1>6. Changed(disk, own, disk, own, p, e)
  BY <1>1 DEF Changed
<1>7. CASE first # 0
  <2>1. r = Plan(first)
    BY <1>7 DEF WithFirst
  <2>2. Planned(r, s, disk, own, pos, len, Safely) /\ r.at = first /\ r.done = 0
    BY <1>3, <2>1, PlanStart
  <2>3. own[first] = p /\ pos[first] = 1
    BY <1>1, <1>7 DEF EntryOK
  <2>. HIDE DEF r, e
  <2>4. Writing(r, disk, own, p, e, 1, 0)
    BY <1>5, <1>6, <2>2, <2>3, Zenon DEF Writing, s
  <2>. QED
    BY <1>3, <2>2, <2>4 DEF r, e
<1>8. CASE first = 0
  <2>1. /\ Planned(Plan(0), s, disk, own, pos, len, Safely) /\ Plan(0).done = 0 /\ Plan(0).fat = fat
        /\ Plan(0).at = 0
    BY PlanStart
  <2>2. CASE Unserved(made, Plan(0))
    <3>1. made = Plan(0)
      BY <2>1, <2>2 DEF Unserved, Planned, PlanType
    <3>2. r = Plan(0)
      BY <1>8, <2>1, <3>1 DEF WithFirst
    <3>. HIDE DEF r, e
    <3>3. Writing(r, disk, own, p, e, 1, 0)
      BY <1>5, <1>6, <2>1, <3>2, Zenon DEF Writing, s
    <3>. QED
      BY <1>3, <1>8, <2>1, <3>2, <3>3 DEF r, e
  <2>3. CASE /\ Fresh(made, Plan(0), own)
             /\ Planned(made, s, Cleared(disk, made.at), own, pos, len, Safely)
             /\ SameEntries(disk, own, Cleared(disk, made.at), own)
    <3>. DEFINE c == made.at
                D1 == Cleared(disk, c)
                w == PutField(p, "first", c)
                f == [e EXCEPT !.first = c]
                own2 == WithOwner(own, c, p)
                pos2 == WithPos(pos, len, c, p)
                len2 == WithLen(len, p)
    <3>1. c \in Cluster /\ own[c] = Nobody /\ made.fat[c] = EOC /\ made.done = 0 /\ c # 0
      BY <2>1, <2>3, Clusters DEF Fresh
    <3>2. r = Do(made, w)
      BY <1>8, <3>1 DEF WithFirst
    <3>. HIDE DEF made, r, c
    <3>3. Planned(made, s, D1, own, pos, len, Safely) /\ SameEntries(disk, own, D1, own)
      BY <2>3 DEF c
    <3>. HIDE DEF D1
    <3>4. Tree(made.fat, D1, own, pos, len) /\ D1 \in Disk /\ IsEntry(D1, own, p) /\ EntryAt(D1, p) = e
      BY <1>1, <3>3 DEF Planned, Tree, Typed, SameEntries
    <3>5. PICK D2 : After(State(made.fat, D1), w) = State(made.fat, D2) /\ SlotPut(D1, D2, p, f)
      BY <1>1, <3>1, <3>4, AfterFirst
    <3>6. w \in Write
      BY <1>1, <3>1, <3>4, AfterFirst
    <3>7. Tree(made.fat, D2, own2, pos2, len2) /\ OnlyEntry(D1, own, D2, own2, p, f)
      <4>1. EntryAt(D1, p).first = 0
        BY <1>8, <3>4
      <4>2. SlotPut(D1, D2, p, [EntryAt(D1, p) EXCEPT !.first = c])
        BY <3>4, <3>5
      <4>. HIDE DEF e
      <4>3. own[c] = Nobody /\ made.fat[c] = EOC /\ c \in Cluster
        BY <3>1
      <4>. QED
        BY <3>4, <4>1, <4>2, <4>3, TreeFirst
    <3>8. own2[c] = p /\ pos2[c] = 1 /\ 0 <= PerCluster * len2[p]
      <4>1. len[p] = 0
        BY <1>1, <1>8 DEF EntryOK
      <4>2. own \in [Cluster -> Owner] /\ pos \in [Cluster -> Nat]
        BY DEF Tree, Typed
      <4>3. own2[c] = p /\ pos2[c] = 1 /\ len2[p] = 1
        BY <1>4, <3>1, <4>1, <4>2 DEF WithOwner, WithPos, WithLen
      <4>. QED
        BY <4>3, Clusters
    <3>. HIDE DEF own2, pos2, len2, w, f, e, s
    <3>9. Planned(r, s, D2, own2, pos2, len2, Safely) /\ r.at = c /\ r.done = 0
      <4>1. /\ Planned(made, s, D1, own, pos, len, Safely) /\ Puts(made.fat, D1, w, D2)
            /\ Tree(made.fat, D2, own2, pos2, len2)
        BY <3>3, <3>5, <3>6, <3>7 DEF Puts
      <4>2. /\ Planned(Do(made, w), s, D2, own2, pos2, len2, Safely)
            /\ Do(made, w).at = made.at /\ Do(made, w).done = made.done
        BY <4>1, PlanDo
      <4>. QED
        BY <3>1, <3>2, <4>2 DEF c
    <3>10. Changed(disk, own, D2, own2, p, f)
      BY <3>3, <3>7, Zenon DEF OnlyEntry, SameEntries, Changed
    <3>11. Writing(r, disk, own, p, f, 1, 0)
      BY <3>8, <3>9, <3>10, Zenon DEF Writing, s
    <3>. QED
      BY <1>8, <3>1, <3>9, <3>11 DEF r, f, e
  <2>4. \/ Unserved(made, Plan(0))
        \/ /\ Fresh(made, Plan(0), own)
           /\ Planned(made, s, Cleared(disk, made.at), own, pos, len, Safely)
           /\ SameEntries(disk, own, Cleared(disk, made.at), own)
    <3>. HIDE DEF s
    <3>. QED
      BY <2>1, AllocateFirst
  <2>. HIDE DEF made, s, r
  <2>. QED
    BY <2>2, <2>3, <2>4, Zenon
<1>. QED
  BY <1>7, <1>8


\* A file's clusters are in no directory.
LEMMA FileNoDir ==
  ASSUME NEW D0, NEW own0, NEW D, NEW own, NEW p, NEW e, Changed(D0, own0, D, own, p, e), ~e.dir
  PROVE  ~DirOwner(D, own, p)
<1>1. p \in Place /\ EntryAt(D, p) = e
  BY DEF Changed, IsEntry
<1>2. p # Root
  BY <1>1, Clusters DEF Place, Root
<1>. QED
  BY <1>1, <1>2 DEF DirOwner, InRoot

\* The next cluster of the file, which a plan may have to add.
LEMMA ForwardWriting ==
  ASSUME NEW plan, NEW D0, NEW own0, NEW p, NEW e, ~e.dir, NEW j \in Nat \ {0}, NEW b \in Nat,
         Writing(plan, D0, own0, p, e, j, b)
  PROVE  Writing(Forward(plan), D0, own0, p, e, j + 1, b) /\ Forward(plan).done = plan.done
<1>. DEFINE s == State(fat, disk)
            T == plan.fat
            at == plan.at
<1>1. PICK D, own, pos, len :
        /\ Planned(plan, s, D, own, pos, len, Safely) /\ Changed(D0, own0, D, own, p, e)
        /\ (at # 0 => own[at] = p /\ pos[at] = j) /\ b <= PerCluster * len[p]
  BY Zenon DEF Writing
<1>. HIDE DEF s
<1>2. plan \in PlanType /\ Tree(T, D, own, pos, len) /\ Typed(T, D, own, pos, len)
  BY <1>1 DEF Planned, Tree
<1>3. at \in Cluster \cup {0} /\ p \in Place /\ p \in Owner /\ len[p] \in Nat /\ p # Nobody
  BY <1>1, <1>2, Clusters DEF PlanType, Changed, IsEntry, Owner, Typed, Place, Nobody
<1>4. CASE at = 0
  <2>1. Forward(plan) = plan
    BY <1>4 DEF Forward
  <2>2. Writing(plan, D0, own0, p, e, j + 1, b)
    BY <1>1, <1>4, Zenon DEF Writing, s
  <2>. QED
    BY <2>1, <2>2
<1>5. CASE at # 0
  <2>1. at \in Cluster /\ own[at] = p /\ pos[at] = j /\ own[at] # Nobody
    BY <1>1, <1>3, <1>5
  <2>2. LinkOK(T, own, pos, len, at)
    BY <1>2, <2>1, Zenon DEF Tree
  <2>3. CASE Ends(T[at])
    <3>. DEFINE r == fat32_allocate_cluster(plan, at)
    <3>1. Forward(plan) = r
      BY <1>5, <2>3 DEF Forward
    <3>2. j = len[p] /\ T[at] = EOC
      BY <2>1, <2>2, <2>3 DEF LinkOK, Ends
    <3>3. ~DirOwner(D, own, own[at])
      BY <1>1, <2>1, FileNoDir
    <3>4. \/ Unserved(r, plan)
          \/ Fresh(r, plan, own) /\ Linked(r, s, D, own, pos, len, own[at], Safely)
      BY <1>1, <2>1, <3>2, <3>3, AllocateNext
    <3>. HIDE DEF r
    <3>5. CASE Unserved(r, plan)
      <4>1. r \in PlanType /\ r.at = 0 /\ r.done = plan.done /\ r.fat = T /\ r.todo = plan.todo
        BY <1>2, <3>5 DEF Unserved, PlanType
      <4>2. Planned(r, s, D, own, pos, len, Safely)
        BY <1>1, <4>1, Zenon DEF Planned
      <4>3. Writing(r, D0, own0, p, e, j + 1, b)
        BY <1>1, <4>1, <4>2, Zenon DEF Writing, s
      <4>. QED
        BY <3>1, <4>1, <4>3
    <3>6. CASE Fresh(r, plan, own) /\ Linked(r, s, D, own, pos, len, own[at], Safely)
      <4>. DEFINE c == r.at
                  D2 == Cleared(D, c)
                  own2 == WithOwner(own, c, p)
                  pos2 == WithPos(pos, len, c, p)
                  len2 == WithLen(len, p)
      <4>1. c \in Cluster /\ r.done = plan.done
        BY <3>6 DEF Fresh
      <4>2. Planned(r, s, D2, own2, pos2, len2, Safely) /\ SameEntries(D, own, D2, own2)
        BY <2>1, <3>6 DEF Linked
      <4>3. own2[c] = p /\ pos2[c] = len[p] + 1 /\ len2[p] = len[p] + 1
        BY <1>2, <1>3, <4>1 DEF Typed, WithOwner, WithPos, WithLen
      <4>. HIDE DEF D2, own2, pos2, len2
      <4>4. Changed(D0, own0, D2, own2, p, e)
        <5>1. p \in Place
          BY <1>3
        <5>. QED
          BY <1>1, <4>2, <5>1, Zenon DEF Changed, SameEntries
      <4>5. b <= PerCluster * len2[p]
        <5>1. PerCluster * len[p] <= PerCluster * (len[p] + 1) /\ PerCluster * len[p] \in Nat
          BY <1>3, Backs
        <5>2. PerCluster * (len[p] + 1) \in Nat
          BY <1>3, Clusters
        <5>. QED
          BY <1>1, <4>3, <5>1, <5>2
      <4>6. own2[r.at] = p /\ pos2[r.at] = j + 1
        BY <3>2, <4>3
      <4>7. Writing(r, D0, own0, p, e, j + 1, b)
        BY <4>2, <4>4, <4>5, <4>6, Zenon DEF Writing, s
      <4>. QED
        BY <3>1, <4>1, <4>7
    <3>. QED
      BY <3>4, <3>5, <3>6
  <2>4. CASE ~Ends(T[at])
    <3>. DEFINE r == [plan EXCEPT !.at = T[at]]
    <3>1. Forward(plan) = r
      BY <1>5, <2>4 DEF Forward
    <3>2. T[at] \in Cluster
      BY <2>4 DEF Ends
    <3>3. own[T[at]] = p /\ pos[T[at]] = j + 1
      BY <2>1, <2>2, <3>2, Clusters DEF LinkOK, EOC
    <3>4. r \in PlanType /\ r.at = T[at] /\ r.done = plan.done /\ r.fat = T /\ r.todo = plan.todo
      BY <1>2, <3>2 DEF PlanType
    <3>. HIDE DEF r
    <3>5. Planned(r, s, D, own, pos, len, Safely)
      BY <1>1, <3>4, Zenon DEF Planned
    <3>6. Writing(r, D0, own0, p, e, j + 1, b)
      BY <1>1, <3>3, <3>4, <3>5, Zenon DEF Writing, s
    <3>. QED
      BY <3>1, <3>4, <3>6
  <2>. QED
    BY <2>3, <2>4
<1>. QED
  BY <1>4, <1>5

\* The pieces in a cluster, after which the chain is known to back j clusters.
LEMMA PutHereWriting ==
  ASSUME NEW plan, NEW D0, NEW own0, NEW p, NEW e, ~e.dir, NEW j \in Nat, NEW b \in Nat,
         Writing(plan, D0, own0, p, e, j, b), NEW H, Cardinality(H) \in Nat
  PROVE  LET r == PutHere(plan, H)
         IN  IF plan.at = 0 THEN r = plan
             ELSE /\ Writing(r, D0, own0, p, e, j, PerCluster * j)
                  /\ r.at # 0 /\ r.done = plan.done + Cardinality(H)
<1>. DEFINE s == State(fat, disk)
            T == plan.fat
            c == plan.at
            v == [i \in Index |-> Data]
            w == PutSlots(c, v)
            r == PutHere(plan, H)
<1>1. CASE c = 0
  BY <1>1 DEF PutHere
<1>2. CASE c # 0
  <2>1. PICK D, own, pos, len :
          /\ Planned(plan, s, D, own, pos, len, Safely) /\ Changed(D0, own0, D, own, p, e)
          /\ own[c] = p /\ pos[c] = j /\ b <= PerCluster * len[p]
    BY <1>2, Zenon DEF Writing
  <2>. HIDE DEF s
  <2>2. plan \in PlanType /\ Tree(T, D, own, pos, len) /\ Typed(T, D, own, pos, len)
    BY <2>1 DEF Planned, Tree
  <2>3. c \in Cluster /\ p \in Place /\ p \in Owner /\ len[p] \in Nat /\ p # Nobody /\ D \in Disk
    BY <1>2, <2>1, <2>2, Clusters DEF PlanType, Changed, IsEntry, Owner, Typed, Place, Nobody
  <2>4. ~DirOwner(D, own, own[c])
    BY <2>1, FileNoDir
  <2>5. v \in Slots
    BY ZeroSlots
  <2>. HIDE DEF v
  <2>. DEFINE D2 == [D EXCEPT ![c] = v]
  <2>6. Tree(T, D2, own, pos, len) /\ SameEntries(D, own, D2, own)
    BY <2>2, <2>3, <2>4, <2>5, TreeSlots
  <2>7. Puts(T, D, w, D2)
    BY <2>3, <2>5, AfterSlots, SMTT(30) DEF Puts
  <2>. HIDE DEF D2, w
  <2>8. /\ Planned(Do(plan, w), s, D2, own, pos, len, Safely)
        /\ Do(plan, w).at = c /\ Do(plan, w).done = plan.done /\ Do(plan, w).fat = T
    BY <2>1, <2>6, <2>7, PlanDo
  <2>9. r = [Do(plan, w) EXCEPT !.done = @ + Cardinality(H)]
    BY <1>2 DEF PutHere, w, v
  <2>. HIDE DEF r
  <2>10. Do(plan, w) \in PlanType /\ plan.done \in Nat
    BY <2>2, <2>8 DEF Planned, PlanType
  <2>11. /\ r \in PlanType /\ r.todo = Do(plan, w).todo /\ r.fat = T /\ r.at = c
         /\ r.done = plan.done + Cardinality(H)
    BY <2>8, <2>9, <2>10 DEF PlanType
  <2>12. Planned(r, s, D2, own, pos, len, Safely)
    BY <2>8, <2>11, Zenon DEF Planned
  <2>13. Changed(D0, own0, D2, own, p, e)
    BY <2>1, <2>3, <2>6, Zenon DEF Changed, SameEntries
  <2>14. PerCluster * j <= PerCluster * len[p]
    <3>1. LinkOK(T, own, pos, len, c)
      BY <2>1, <2>2, <2>3, Zenon DEF Tree
    <3>2. j <= len[p]
      BY <2>1, <2>3, <3>1 DEF LinkOK
    <3>. QED
      BY <2>3, <3>2, Backs
  <2>15. Writing(r, D0, own0, p, e, j, PerCluster * j)
    BY <2>1, <2>11, <2>12, <2>13, <2>14, Zenon DEF Writing, s
  <2>. QED
    BY <1>2, <2>11, <2>15 DEF r
<1>. QED
  BY <1>1, <1>2

\* Less than what is backed is backed too.
LEMMA WritingLess ==
  ASSUME NEW plan, NEW D0, NEW own0, NEW p, NEW e, NEW j, NEW b \in Nat, NEW a \in Nat, a <= b,
         Writing(plan, D0, own0, p, e, j, b)
  PROVE  Writing(plan, D0, own0, p, e, j, a)
<1>1. PICK D, own, pos, len :
        /\ Planned(plan, State(fat, disk), D, own, pos, len, Safely) /\ Changed(D0, own0, D, own, p, e)
        /\ (plan.at # 0 => own[plan.at] = p /\ pos[plan.at] = j) /\ b <= PerCluster * len[p]
  BY Zenon DEF Writing
<1>2. len[p] \in Nat
  BY <1>1 DEF Planned, Changed, IsEntry, Owner, Tree, Typed
<1>3. PerCluster * len[p] \in Nat
  BY <1>2, Clusters
<1>4. a <= PerCluster * len[p]
  BY <1>1, <1>3
<1>. QED
  BY <1>1, <1>4, Zenon DEF Writing

\* The size comes last.
LEMMA SizedWriting ==
  ASSUME NEW plan, NEW D0, NEW own0, NEW e, NEW j, NEW end \in 0..MaxSize, NEW n, n.size \in Nat,
         Writing(plan, D0, own0, PlaceOf(n), e, j, end)
  PROVE  LET r == Sized(plan, n, end)
         IN  \E D, own, pos, len, f :
               /\ Planned(r, State(fat, disk), D, own, pos, len, Safely)
               /\ Changed(D0, own0, D, own, PlaceOf(n), f) /\ f.first = e.first /\ f.dir = e.dir
<1>. DEFINE r == Sized(plan, n, end)
            s == State(fat, disk)
            p == PlaceOf(n)
            w == PutField(p, "size", end)
            T == plan.fat
<1>1. PICK D, own, pos, len :
        /\ Planned(plan, s, D, own, pos, len, Safely) /\ Changed(D0, own0, D, own, p, e)
        /\ end <= PerCluster * len[p]
  BY Zenon DEF Writing
<1>. HIDE DEF s, p
<1>2. CASE ~(end > n.size)
  <2>1. r = plan
    BY <1>2 DEF Sized
  <2>. HIDE DEF r
  <2>. QED
    BY <1>1, <2>1, Zenon DEF s, p, r
<1>3. CASE end > n.size
  <2>1. r = Do(plan, w)
    BY <1>3 DEF Sized, PutField, PlaceOf, p
  <2>2. Tree(T, D, own, pos, len) /\ D \in Disk /\ IsEntry(D, own, p) /\ p \in Place /\ EntryAt(D, p) = e
    BY <1>1 DEF Planned, Tree, Typed, Changed, IsEntry
  <2>. DEFINE f == [e EXCEPT !.size = end]
  <2>3. PICK D2 : After(State(T, D), w) = State(T, D2) /\ SlotPut(D, D2, p, f)
    BY <2>2, AfterSize
  <2>4. w \in Write
    BY <2>2, AfterSize
  <2>5. Tree(T, D2, own, pos, len) /\ OnlyEntry(D, own, D2, own, p, f)
    BY <1>1, <2>2, <2>3, TreeSize
  <2>6. e \in Slot
    BY <2>2 DEF EntryAt, Disk, Slots, Place
  <2>7. f.first = e.first /\ f.dir = e.dir
    BY <2>6 DEF Slot
  <2>. HIDE DEF f, w, r
  <2>8. Puts(T, D, w, D2)
    BY <2>3, <2>4 DEF Puts
  <2>9. Planned(r, s, D2, own, pos, len, Safely)
    BY <1>1, <2>1, <2>5, <2>8, PlanDo
  <2>10. Changed(D0, own0, D2, own, p, f)
    BY <1>1, <2>2, <2>5, Zenon DEF Changed, OnlyEntry
  <2>. QED
    BY <2>7, <2>9, <2>10, Zenon DEF s, p, r
<1>. QED
  BY <1>2, <1>3


\* The offset at which the k-th cluster after the one of the offset begins, and
\* how many of the pieces have been written when that cluster has been.
Base(offset, k) == (offset \div PerCluster + k) * PerCluster
Till(offset, n, k) ==
  IF n <= Base(offset, k) + PerCluster - offset THEN n ELSE Base(offset, k) + PerCluster - offset

\* The bytes of a chain's clusters follow one another.
LEMMA Bases ==
  ASSUME NEW offset \in Nat, NEW k \in Nat
  PROVE  /\ Base(offset, k) \in Nat /\ Base(offset, k + 1) = Base(offset, k) + PerCluster
         /\ Base(offset, k) + PerCluster = PerCluster * (offset \div PerCluster + k + 1)
         /\ Base(offset, 0) <= offset /\ offset < Base(offset, k) + PerCluster
         /\ k >= 1 => offset < Base(offset, k)
<1>. DEFINE q == offset \div PerCluster
            x == PerCluster * q
<1>1. q \in Nat /\ offset % PerCluster \in 0..(PerCluster - 1) /\ offset = PerCluster * q + (offset % PerCluster)
  BY DivMod
<1>. HIDE DEF q
<1>2. x \in Nat
  BY <1>1, Clusters
<1>3. x <= offset /\ offset < x + PerCluster
  BY <1>1, <1>2, Clusters
<1>4. /\ (q + k) * PerCluster = x + k * PerCluster /\ k * PerCluster \in Nat
      /\ (q + (k + 1)) * PerCluster = x + k * PerCluster + PerCluster
      /\ PerCluster * (q + k + 1) = x + k * PerCluster + PerCluster
      /\ (q + 0) * PerCluster = x
  BY <1>1, Clusters, SMTT(30)
<1>5. k >= 1 => k * PerCluster >= PerCluster
  <2>1. SUFFICES ASSUME k >= 1 PROVE k * PerCluster >= PerCluster
    OBVIOUS
  <2>2. PerCluster * 1 <= PerCluster * k
    BY <2>1, Backs
  <2>. QED
    BY <2>2, Clusters
<1>. HIDE DEF x
<1>6. /\ Base(offset, k) = x + k * PerCluster /\ Base(offset, k + 1) = x + k * PerCluster + PerCluster
      /\ Base(offset, 0) = x
  BY <1>4 DEF Base, q
<1>7. PerCluster * (offset \div PerCluster + k + 1) = x + k * PerCluster + PerCluster
  BY <1>4 DEF q
<1>. DEFINE y == k * PerCluster
<1>8. y \in Nat /\ (k >= 1 => y >= PerCluster)
  BY <1>4, <1>5
<1>9. Base(offset, k) = x + y /\ Base(offset, k + 1) = x + y + PerCluster
  BY <1>6
<1>10. PerCluster * (offset \div PerCluster + k + 1) = x + y + PerCluster
  BY <1>7
<1>. HIDE DEF y
<1>. QED
  BY <1>2, <1>3, <1>6, <1>8, <1>9, <1>10, Clusters

\* The slots that pieces take in the cluster that begins at B, from Low to Top.
Span(B, offset, n) == {i \in Index : B + i - 1 \in offset..(offset + n - 1)}
Low(B, offset) == IF B <= offset THEN offset ELSE B
Top(B, offset, n) == IF B + PerCluster <= offset + n THEN B + PerCluster ELSE offset + n

\* The bytes written in a cluster, counted.
LEMMA SpanCount ==
  ASSUME NEW B \in Nat, NEW offset \in Nat, NEW n \in Nat \ {0}
  PROVE  /\ Span(B, offset, n) = {} <=> Top(B, offset, n) <= Low(B, offset)
         /\ Top(B, offset, n) > Low(B, offset)
              => Cardinality(Span(B, offset, n)) = Top(B, offset, n) - Low(B, offset)
<1>. DEFINE H == Span(B, offset, n)
            lo == Low(B, offset)
            hi == Top(B, offset, n)
            l == lo - B + 1
            h == hi - B
<1>1. l \in Int /\ h \in Int /\ l >= 1 /\ h <= PerCluster /\ lo \in Nat /\ hi \in Nat
  BY Clusters DEF Low, Top
<1>2. H = l..h
  <2>1. ASSUME NEW i PROVE i \in H <=> i \in l..h
    <3>1. i \in H <=> i \in Int /\ i >= 1 /\ i <= PerCluster /\ B + i - 1 >= offset /\ B + i - 1 <= offset + n - 1
      BY Clusters DEF Index, Span
    <3>. QED
      BY <3>1, Clusters DEF Low, Top
  <2>. HIDE DEF H, l, h
  <2>. QED
    BY <2>1
<1>. HIDE DEF H, lo, hi
<1>3. h - l + 1 = hi - lo
  BY <1>1
<1>. HIDE DEF l, h
<1>4. H = {} <=> h < l
  BY <1>1, <1>2
<1>5. h >= l => Cardinality(H) = h - l + 1
  BY <1>1, <1>2, FS_Interval
<1>6. hi > lo <=> h >= l
  BY <1>1, <1>3
<1>7. (H = {} <=> hi <= lo) /\ (hi > lo => Cardinality(H) = hi - lo)
  BY <1>1, <1>3, <1>4, <1>5, <1>6
<1>. QED
  BY <1>7 DEF H, lo, hi

\* Those in the first cluster are the first.
LEMMA HereFirst ==
  ASSUME NEW offset \in Nat, NEW n \in Nat \ {0}
  PROVE  Cardinality(Here(offset, n, 0)) = Till(offset, n, 0)
<1>. DEFINE B == Base(offset, 0)
<1>1. B \in Nat /\ B <= offset /\ offset < B + PerCluster
  BY Bases
<1>2. Here(offset, n, 0) = Span(B, offset, n)
  BY DEF Here, Base, Span
<1>3. Till(offset, n, 0) = IF n <= B + PerCluster - offset THEN n ELSE B + PerCluster - offset
  BY DEF Till
<1>. HIDE DEF B
<1>4. Top(B, offset, n) > Low(B, offset) /\ Top(B, offset, n) - Low(B, offset) = Till(offset, n, 0)
  BY <1>1, <1>3, Clusters DEF Top, Low
<1>. QED
  BY <1>1, <1>2, <1>4, SpanCount

\* Those in the next cluster follow them.
LEMMA HereNext ==
  ASSUME NEW offset \in Nat, NEW n \in Nat \ {0}, NEW k \in Nat
  PROVE  IF Here(offset, n, k + 1) = {} THEN Till(offset, n, k + 1) = Till(offset, n, k)
         ELSE /\ Till(offset, n, k + 1) = Till(offset, n, k) + Cardinality(Here(offset, n, k + 1))
              /\ Cardinality(Here(offset, n, k + 1)) \in Nat /\ Here(offset, n, k) # {}
<1>. DEFINE A == Base(offset, k)
            B == Base(offset, k + 1)
<1>1. A \in Nat /\ B \in Nat /\ B = A + PerCluster /\ offset < B
  <2>1. A \in Nat /\ B = A + PerCluster /\ offset < A + PerCluster
    BY Bases
  <2>. HIDE DEF A, B
  <2>. QED
    BY <2>1, Clusters
<1>2. Here(offset, n, k) = Span(A, offset, n) /\ Here(offset, n, k + 1) = Span(B, offset, n)
  BY DEF Here, Base, Span
<1>3. /\ Till(offset, n, k) = (IF n <= A + PerCluster - offset THEN n ELSE A + PerCluster - offset)
      /\ Till(offset, n, k + 1) = (IF n <= B + PerCluster - offset THEN n ELSE B + PerCluster - offset)
  BY DEF Till
<1>. HIDE DEF A, B
<1>4. /\ Here(offset, n, k) = {} <=> Top(A, offset, n) <= Low(A, offset)
      /\ Here(offset, n, k + 1) = {} <=> Top(B, offset, n) <= Low(B, offset)
      /\ Top(B, offset, n) > Low(B, offset)
           => Cardinality(Here(offset, n, k + 1)) = Top(B, offset, n) - Low(B, offset)
  BY <1>1, <1>2, SpanCount
<1>5. Low(B, offset) = B /\ Top(B, offset, n) \in Nat /\ Top(A, offset, n) \in Nat /\ Low(A, offset) \in Nat
  BY <1>1, Clusters DEF Low, Top
<1>6. CASE Top(B, offset, n) <= B
  <2>1. Till(offset, n, k + 1) = Till(offset, n, k)
    BY <1>1, <1>3, <1>6, Clusters DEF Top
  <2>. QED
    BY <1>4, <1>5, <1>6, <2>1
<1>7. CASE Top(B, offset, n) > B
  <2>1. offset + n > B
    BY <1>1, <1>7, Clusters DEF Top
  <2>2. Top(A, offset, n) > Low(A, offset)
    BY <1>1, <2>1, Clusters DEF Top, Low
  <2>3. Here(offset, n, k + 1) # {} /\ Here(offset, n, k) # {}
    BY <1>1, <1>4, <1>5, <1>7, <2>2
  <2>4. /\ Cardinality(Here(offset, n, k + 1)) = Top(B, offset, n) - B
        /\ Top(B, offset, n) - B \in Nat
    BY <1>1, <1>4, <1>5, <1>7
  <2>5. Till(offset, n, k + 1) = Till(offset, n, k) + (Top(B, offset, n) - B)
    BY <1>1, <1>3, <2>1, Clusters DEF Top
  <2>. QED
    BY <2>3, <2>4, <2>5
<1>. QED
  BY <1>1, <1>5, <1>6, <1>7

\* Till is within the pieces, and within what so many clusters back.
LEMMA TillBounds ==
  ASSUME NEW offset \in Nat, NEW n \in Nat \ {0}, NEW k \in Nat
  PROVE  /\ Till(offset, n, k) \in 0..n
         /\ offset + Till(offset, n, k) <= PerCluster * (offset \div PerCluster + k + 1)
<1>1. /\ Base(offset, k) \in Nat /\ offset < Base(offset, k) + PerCluster
      /\ Base(offset, k) + PerCluster = PerCluster * (offset \div PerCluster + k + 1)
  BY Bases
<1>. DEFINE B == Base(offset, k)
            Z == PerCluster * (offset \div PerCluster + k + 1)
<1>2. /\ B \in Nat /\ offset < B + PerCluster /\ Z = B + PerCluster
      /\ Till(offset, n, k) = (IF n <= B + PerCluster - offset THEN n ELSE B + PerCluster - offset)
  BY <1>1 DEF Till
<1>. HIDE DEF B, Z
<1>3. Till(offset, n, k) \in 0..n /\ offset + Till(offset, n, k) <= Z
  BY <1>2, Clusters
<1>. QED
  BY <1>3 DEF Z


\* The functions that a way and the pieces are.
IsWay(plan, n, w) == w = [k \in 0..n |-> IF k = 0 THEN plan ELSE Forward(w[k - 1])]
Piece(plan, offset, len, k) ==
  IF Here(offset, len, k) = {} THEN plan ELSE PutHere(Forward(plan), Here(offset, len, k))
IsPieces(plan, offset, len, n, w) ==
  w = [k \in 0..n |-> IF k = 0 THEN PutHere(plan, Here(offset, len, 0))
                      ELSE Piece(w[k - 1], offset, len, k)]

\* The way of a write is followed one cluster after another.
LEMMA WayIs ==
  ASSUME NEW plan, NEW n \in Nat
  PROVE  IsWay(plan, n, Way(plan, n))
<1>. DEFINE S == {m \in Nat : \E w : IsWay(plan, m, w)}
<1>1. 0 \in S
  <2>1. IsWay(plan, 0, [k \in 0..0 |-> plan])
    BY DEF IsWay
  <2>. QED
    BY <2>1
<1>2. ASSUME NEW m \in Nat, m \in S PROVE m + 1 \in S
  <2>1. PICK w : IsWay(plan, m, w)
    BY <1>2
  <2>. DEFINE v == [k \in 0..(m + 1) |-> IF k = m + 1 THEN Forward(w[m]) ELSE w[k]]
  <2>2. ASSUME NEW k \in 0..(m + 1) PROVE v[k] = IF k = 0 THEN plan ELSE Forward(v[k - 1])
    <3>1. CASE k = m + 1
      BY <3>1
    <3>2. CASE k # m + 1
      <4>1. k \in 0..m /\ v[k] = w[k] /\ (k # 0 => k - 1 \in 0..m /\ v[k - 1] = w[k - 1])
        BY <3>2
      <4>2. w[k] = IF k = 0 THEN plan ELSE Forward(w[k - 1])
        BY <2>1, <4>1 DEF IsWay
      <4>. HIDE DEF v
      <4>. QED
        BY <4>1, <4>2
    <3>. QED
      BY <3>1, <3>2
  <2>3. IsWay(plan, m + 1, v)
    BY <2>2, Zenon DEF IsWay
  <2>. QED
    BY <2>3
<1>. HIDE DEF S
<1>3. n \in S
  BY <1>1, <1>2, UpTo
<1>4. \E w : IsWay(plan, n, w)
  BY <1>3 DEF S
<1>. QED
  BY <1>4, Zenon DEF IsWay, Way

\* A write is followed one byte after another.
LEMMA PiecesIs ==
  ASSUME NEW plan, NEW offset, NEW len \in Nat
  PROVE  IsPieces(plan, offset, len, len, Pieces(plan, offset, len))
<1>. DEFINE start == PutHere(plan, Here(offset, len, 0))
            S == {m \in Nat : \E w : IsPieces(plan, offset, len, m, w)}
<1>1. 0 \in S
  <2>1. IsPieces(plan, offset, len, 0, [k \in 0..0 |-> start])
    BY DEF IsPieces
  <2>. QED
    BY <2>1
<1>2. ASSUME NEW m \in Nat, m \in S PROVE m + 1 \in S
  <2>1. PICK w : IsPieces(plan, offset, len, m, w)
    BY <1>2
  <2>. HIDE DEF start
  <2>. DEFINE v == [k \in 0..(m + 1) |-> IF k = m + 1 THEN Piece(w[m], offset, len, m + 1) ELSE w[k]]
  <2>2. ASSUME NEW k \in 0..(m + 1)
        PROVE  v[k] = IF k = 0 THEN start ELSE Piece(v[k - 1], offset, len, k)
    <3>1. CASE k = m + 1
      BY <3>1
    <3>2. CASE k # m + 1
      <4>1. k \in 0..m /\ v[k] = w[k] /\ (k # 0 => k - 1 \in 0..m /\ v[k - 1] = w[k - 1])
        BY <3>2
      <4>2. w[k] = IF k = 0 THEN start ELSE Piece(w[k - 1], offset, len, k)
        BY <2>1, <4>1 DEF IsPieces, start
      <4>. HIDE DEF v
      <4>. QED
        BY <4>1, <4>2
    <3>. QED
      BY <3>1, <3>2
  <2>3. IsPieces(plan, offset, len, m + 1, v)
    BY <2>2, Zenon DEF IsPieces, start
  <2>. QED
    BY <2>3
<1>. HIDE DEF S
<1>3. len \in S
  BY <1>1, <1>2, UpTo
<1>4. \E w : IsPieces(plan, offset, len, len, w)
  BY <1>3 DEF S
<1>. QED
  BY <1>4, Zenon DEF IsPieces, Piece, Pieces

\* The way to the offset: the plan has come to the cluster of the offset, if there
\* were clusters enough.
LEMMA WayWriting ==
  ASSUME NEW plan, NEW D0, NEW own0, NEW p, NEW e, ~e.dir, plan.done = 0,
         Writing(plan, D0, own0, p, e, 1, 0), NEW n \in Nat
  PROVE  Writing(Way(plan, n)[n], D0, own0, p, e, n + 1, 0) /\ Way(plan, n)[n].done = 0
<1>. DEFINE w == Way(plan, n)
            S == {k \in Nat : k <= n => Writing(w[k], D0, own0, p, e, k + 1, 0) /\ w[k].done = 0}
<1>1. IsWay(plan, n, w)
  BY WayIs
<1>. HIDE DEF w
<1>2. w[0] = plan /\ \A k \in 0..(n - 1) : w[k + 1] = Forward(w[k])
  <2>1. \A k \in 0..n : w[k] = IF k = 0 THEN plan ELSE Forward(w[k - 1])
    BY <1>1 DEF IsWay
  <2>2. \A k \in 0..(n - 1) : k + 1 \in 0..n /\ k + 1 # 0 /\ (k + 1) - 1 = k
    OBVIOUS
  <2>3. 0 \in 0..n
    OBVIOUS
  <2>. QED
    BY <2>1, <2>2, <2>3
<1>3. 0 \in S
  BY <1>2
<1>4. ASSUME NEW k \in 0..(n - 1), k \in S PROVE k + 1 \in S
  <2>1. k + 1 \in Nat \ {0} /\ k <= n
    OBVIOUS
  <2>2. Writing(w[k], D0, own0, p, e, k + 1, 0) /\ w[k].done = 0
    BY <1>4, <2>1
  <2>3. Writing(Forward(w[k]), D0, own0, p, e, (k + 1) + 1, 0) /\ Forward(w[k]).done = 0
    <3>1. 0 \in Nat
      OBVIOUS
    <3>. QED
      BY <2>1, <2>2, <3>1, ForwardWriting
  <2>. QED
    BY <1>2, <2>1, <2>3
<1>. HIDE DEF S
<1>5. n \in S
  BY <1>3, <1>4, UpTo
<1>. QED
  BY <1>5 DEF S, w

\* The pieces written so far, of n pieces from offset on, are backed by the chain.
PutSoFar(plan, D0, own0, p, e, offset, n, k) ==
  \E j \in Nat \ {0} :
    /\ Writing(plan, D0, own0, p, e, j, IF plan.done = 0 THEN 0 ELSE offset + plan.done)
    /\ plan.done \in 0..n
    /\ plan.at # 0 => /\ plan.done = Till(offset, n, k)
                      /\ Here(offset, n, k) # {} => j = offset \div PerCluster + k + 1


\* With the bytes of one cluster put, all bytes up to its end are.
LEMMA PutHereSoFar ==
  ASSUME NEW plan, NEW D0, NEW own0, NEW p, NEW e, ~e.dir, NEW offset \in Nat, NEW n \in Nat \ {0},
         NEW k \in Nat, NEW j \in Nat \ {0}, j = offset \div PerCluster + k + 1 \/ plan.at = 0,
         Writing(plan, D0, own0, p, e, j, IF plan.done = 0 THEN 0 ELSE offset + plan.done),
         plan.done \in 0..n, Cardinality(Here(offset, n, k)) \in Nat,
         plan.at # 0 => plan.done + Cardinality(Here(offset, n, k)) = Till(offset, n, k)
  PROVE  PutSoFar(PutHere(plan, Here(offset, n, k)), D0, own0, p, e, offset, n, k)
<1>. DEFINE H == Here(offset, n, k)
            r == PutHere(plan, H)
            b == IF plan.done = 0 THEN 0 ELSE offset + plan.done
            a == IF r.done = 0 THEN 0 ELSE offset + r.done
<1>1. b \in Nat
  OBVIOUS
<1>. HIDE DEF b
<1>2. Writing(plan, D0, own0, p, e, j, b)
  BY DEF b
<1>. HIDE DEF H, r
<1>3. IF plan.at = 0 THEN r = plan
      ELSE /\ Writing(r, D0, own0, p, e, j, PerCluster * j)
           /\ r.at # 0 /\ r.done = plan.done + Cardinality(H)
  <2>1. Cardinality(H) \in Nat /\ j \in Nat
    BY DEF H
  <2>. QED
    BY <1>1, <1>2, <2>1, PutHereWriting DEF r
<1>4. CASE plan.at = 0
  <2>1. r = plan
    BY <1>3, <1>4
  <2>2. PutSoFar(plan, D0, own0, p, e, offset, n, k)
    BY <1>4 DEF PutSoFar
  <2>. QED
    BY <2>1, <2>2 DEF r, H
<1>5. CASE plan.at # 0
  <2>1. /\ Writing(r, D0, own0, p, e, j, PerCluster * j) /\ r.at # 0
        /\ r.done = Till(offset, n, k) /\ j = offset \div PerCluster + k + 1
    BY <1>3, <1>5 DEF H
  <2>2. r.done \in 0..n /\ offset + r.done <= PerCluster * j
    BY <2>1, TillBounds
  <2>3. a \in Nat /\ a <= PerCluster * j /\ PerCluster * j \in Nat
    <3>1. PerCluster * j \in Nat
      BY Clusters
    <3>. QED
      BY <2>2, <3>1
  <2>. HIDE DEF a
  <2>4. Writing(r, D0, own0, p, e, j, a)
    BY <2>1, <2>3, WritingLess
  <2>5. PutSoFar(r, D0, own0, p, e, offset, n, k)
    BY <2>1, <2>2, <2>4, Zenon DEF PutSoFar, a
  <2>. QED
    BY <2>5 DEF r, H
<1>. QED
  BY <1>4, <1>5

\* The pieces, cluster by cluster.
LEMMA PieceSoFar ==
  ASSUME NEW plan, NEW D0, NEW own0, NEW p, NEW e, ~e.dir, NEW offset \in Nat, NEW n \in Nat \ {0},
         NEW k \in Nat, PutSoFar(plan, D0, own0, p, e, offset, n, k)
  PROVE  PutSoFar(Piece(plan, offset, n, k + 1), D0, own0, p, e, offset, n, k + 1)
<1>. DEFINE H == Here(offset, n, k + 1)
            q == offset \div PerCluster
<1>1. PICK j \in Nat \ {0} :
        /\ Writing(plan, D0, own0, p, e, j, IF plan.done = 0 THEN 0 ELSE offset + plan.done)
        /\ plan.done \in 0..n
        /\ plan.at # 0 => /\ plan.done = Till(offset, n, k)
                          /\ Here(offset, n, k) # {} => j = q + k + 1
  BY DEF PutSoFar
<1>2. q \in Nat
  BY DivMod
<1>. HIDE DEF q
<1>3. CASE H = {}
  <2>1. Till(offset, n, k + 1) = Till(offset, n, k)
    BY <1>3, HereNext
  <2>2. PutSoFar(plan, D0, own0, p, e, offset, n, k + 1)
    BY <1>1, <1>3, <2>1 DEF PutSoFar
  <2>. QED
    BY <1>3, <2>2 DEF Piece
<1>4. CASE H # {}
  <2>. DEFINE f == Forward(plan)
              b == IF plan.done = 0 THEN 0 ELSE offset + plan.done
  <2>1. /\ Till(offset, n, k + 1) = Till(offset, n, k) + Cardinality(H)
        /\ Cardinality(H) \in Nat /\ Here(offset, n, k) # {}
    BY <1>4, HereNext
  <2>2. b \in Nat
    BY <1>1
  <2>. HIDE DEF f
  <2>3. Writing(f, D0, own0, p, e, j + 1, b) /\ f.done = plan.done
    <3>1. Writing(plan, D0, own0, p, e, j, b)
      BY <1>1
    <3>. HIDE DEF b
    <3>. QED
      BY <2>2, <3>1, ForwardWriting DEF f
  <2>4. f.at # 0 => plan.at # 0
    BY DEF f, Forward
  <2>5. Piece(plan, offset, n, k + 1) = PutHere(f, H)
    BY <1>4 DEF Piece, f
  <2>6. /\ f.at # 0 => f.done + Cardinality(H) = Till(offset, n, k + 1)
        /\ f.at # 0 => j + 1 = q + (k + 1) + 1
        /\ f.done \in 0..n /\ j + 1 \in Nat \ {0} /\ k + 1 \in Nat
    BY <1>1, <1>2, <2>1, <2>3, <2>4
  <2>7. Writing(f, D0, own0, p, e, j + 1, IF f.done = 0 THEN 0 ELSE offset + f.done)
    BY <2>3
  <2>. HIDE DEF H
  <2>8. PutSoFar(PutHere(f, H), D0, own0, p, e, offset, n, k + 1)
    BY <2>1, <2>6, <2>7, PutHereSoFar DEF H, q
  <2>. QED
    BY <2>5, <2>8
<1>. QED
  BY <1>3, <1>4

\* All bytes have been put, or as many as there is room for.
LEMMA PiecesWriting ==
  ASSUME NEW plan, NEW D0, NEW own0, NEW p, NEW e, ~e.dir, NEW offset \in Nat, NEW n \in Nat \ {0},
         plan.done = 0, Writing(plan, D0, own0, p, e, offset \div PerCluster + 1, 0)
  PROVE  PutSoFar(Pieces(plan, offset, n)[n], D0, own0, p, e, offset, n, n)
<1>. DEFINE w == Pieces(plan, offset, n)
            S == {k \in Nat : k <= n => PutSoFar(w[k], D0, own0, p, e, offset, n, k)}
<1>1. IsPieces(plan, offset, n, n, w)
  BY PiecesIs
<1>. HIDE DEF w
<1>2. /\ w[0] = PutHere(plan, Here(offset, n, 0))
      /\ \A k \in 0..(n - 1) : w[k + 1] = Piece(w[k], offset, n, k + 1)
  <2>1. \A k \in 0..n : w[k] = IF k = 0 THEN PutHere(plan, Here(offset, n, 0))
                               ELSE Piece(w[k - 1], offset, n, k)
    BY <1>1 DEF IsPieces
  <2>2. \A k \in 0..(n - 1) : k + 1 \in 0..n /\ k + 1 # 0 /\ (k + 1) - 1 = k
    OBVIOUS
  <2>3. 0 \in 0..n
    OBVIOUS
  <2>. QED
    BY <2>1, <2>2, <2>3
<1>3. 0 \in S
  <2>. DEFINE j == offset \div PerCluster + 1
  <2>1. j \in Nat \ {0} /\ j = offset \div PerCluster + 0 + 1
    <3>1. offset \div PerCluster \in Nat
      BY DivMod
    <3>. QED
      BY <3>1
  <2>2. /\ Cardinality(Here(offset, n, 0)) = Till(offset, n, 0) /\ Till(offset, n, 0) \in 0..n
    <3>1. Cardinality(Here(offset, n, 0)) = Till(offset, n, 0)
      BY HereFirst
    <3>2. 0 \in Nat
      OBVIOUS
    <3>3. Till(offset, n, 0) \in 0..n
      BY <3>2, TillBounds
    <3>. QED
      BY <3>1, <3>3
  <2>3. Writing(plan, D0, own0, p, e, j, IF plan.done = 0 THEN 0 ELSE offset + plan.done)
    OBVIOUS
  <2>. HIDE DEF j
  <2>4. /\ Cardinality(Here(offset, n, 0)) \in Nat /\ plan.done \in 0..n
        /\ plan.done + Cardinality(Here(offset, n, 0)) = Till(offset, n, 0)
    BY <2>2
  <2>5. PutSoFar(PutHere(plan, Here(offset, n, 0)), D0, own0, p, e, offset, n, 0)
    <3>1. 0 \in Nat
      OBVIOUS
    <3>. QED
      BY <2>1, <2>3, <2>4, <3>1, PutHereSoFar
  <2>. QED
    BY <1>2, <2>5
<1>4. ASSUME NEW k \in 0..(n - 1), k \in S PROVE k + 1 \in S
  <2>1. k \in Nat /\ k <= n
    OBVIOUS
  <2>2. PutSoFar(w[k], D0, own0, p, e, offset, n, k)
    BY <1>4, <2>1
  <2>3. PutSoFar(Piece(w[k], offset, n, k + 1), D0, own0, p, e, offset, n, k + 1)
    BY <2>1, <2>2, PieceSoFar
  <2>. QED
    BY <1>2, <2>1, <2>3
<1>. HIDE DEF S
<1>5. n \in S
  BY <1>3, <1>4, UpTo
<1>. QED
  BY <1>5 DEF S, w


-----------------------------------------------------------------------------
(* New files and directories.                                              *)

\* A directory's first two entries.
LEMMA DirMarked ==
  ASSUME NEW m, NEW c
  PROVE  DirEntry(m, c) = Marked(m, TRUE, c)
<1>. DEFINE blank == ""
<1>1. /\ DirEntry(m, c) = [Zero EXCEPT !.name = m, !.dir = TRUE, !.first = c]
      /\ Zero = Marked(blank, FALSE, 0)
  BY MarkNames, Zenon DEF DirEntry
<1>. HIDE DEF blank
<1>. QED
  BY <1>1 DEF Marked

Dots(new, parent) ==
  [i \in Index |-> IF i = 1 THEN DirEntry(".", new) ELSE IF i = 2 THEN DirEntry("..", parent) ELSE Zero]

\* The two slots a new directory begins with are no entries.
LEMMA DotsSlots ==
  ASSUME NEW new \in Cluster, NEW parent \in Cluster
  PROVE  Dots(new, parent) \in Slots /\ \A i \in Index : Dots(new, parent)[i].name \notin Name \cup {"data"}
<1>. DEFINE a == DirEntry(".", new)
            b == DirEntry("..", parent)
<1>1. a \in Slot /\ a.name = "." /\ "." \notin Name /\ b \in Slot /\ b.name = ".." /\ ".." \notin Name
  <2>1. new \in Cluster \cup {0} /\ parent \in Cluster \cup {0} /\ TRUE \in BOOLEAN
    OBVIOUS
  <2>. QED
    BY <2>1, MarkedSlot, MarkNames, DirMarked, Zenon
<1>2. a.name \notin Name \cup {"data"} /\ b.name \notin Name \cup {"data"}
  BY <1>1, MarkNames, Zenon
<1>3. Zero \in Slot /\ Zero.name \notin Name \cup {"data"}
  <2>1. 0 \in Cluster \cup {0} /\ FALSE \in BOOLEAN
    OBVIOUS
  <2>2. Zero \in Slot
    BY <2>1, MarkedSlot, MarkNames, Zenon
  <2>. QED
    BY <2>2, ZeroSlots
<1>4. a \in Slot /\ b \in Slot
  BY <1>1, Zenon
<1>5. Dots(new, parent) = [i \in Index |-> IF i = 1 THEN a ELSE IF i = 2 THEN b ELSE Zero]
  BY Zenon DEF Dots
<1>. HIDE DEF a, b
<1>. QED
  BY <1>2, <1>3, <1>4, <1>5 DEF Slots

\* The searched directories are the same when the entries are.
LEMMA SameDirs ==
  ASSUME NEW D, NEW own, NEW D2, NEW own2, SameEntries(D, own, D2, own2), NEW x,
         DirOwner(D, own, x),
         x \in Place => own2[x.cluster] = own[x.cluster]
  PROVE  DirOwner(D2, own2, x)
<1>1. CASE x = Root
  BY <1>1 DEF DirOwner
<1>2. CASE x # Root
  <2>1. InRoot(D, own, x) /\ x \in Place
    BY <1>2 DEF DirOwner, InRoot
  <2>2. IsEntry(D, own, x)
    BY <2>1 DEF InRoot, IsEntry, DirOwner
  <2>3. IsEntry(D2, own2, x) /\ EntryAt(D2, x) = EntryAt(D, x)
    BY <2>1, <2>2 DEF SameEntries
  <2>. QED
    BY <2>1, <2>3 DEF DirOwner, InRoot
<1>. QED
  BY <1>1, <1>2

NewEntry(name, isdir, new) == [name |-> name, dir |-> isdir, first |-> new, size |-> 0]
ListedIn(plan, p, name, isdir, new, parent) ==
  LET listed == Do(plan, PutSlots(p.cluster, [i \in {p.slot} |-> NewEntry(name, isdir, new)]))
  IN  IF isdir THEN Do(listed, PutSlots(new, Dots(new, parent))) ELSE listed

\* The entry is put in its place, and the dots of a directory in its cluster.
LEMMA ListNew ==
  ASSUME NEW plan, NEW s, NEW D, NEW own, NEW pos, NEW len, NEW safe,
         Planned(plan, s, D, own, pos, len, safe),
         NEW new \in Cluster, own[new] = Nobody, plan.fat[new] = EOC,
         \A i \in Index : D[new][i] = Zero,
         NEW p \in Place, DirOwner(D, own, own[p.cluster]), EntryAt(D, p).name \notin Name,
         NEW parent \in Cluster, NEW name \in Name, NEW isdir \in BOOLEAN
  PROVE  \E D2, own2, pos2, len2 :
           /\ Planned(ListedIn(plan, p, name, isdir, new, parent), s, D2, own2, pos2, len2, safe)
           /\ Changed(D, own, D2, own2, p, NewEntry(name, isdir, new))
<1>. DEFINE e == NewEntry(name, isdir, new)
            w == PutSlots(p.cluster, [i \in {p.slot} |-> e])
            T == plan.fat
            listed == Do(plan, w)
<1>1. Tree(T, D, own, pos, len) /\ D \in Disk
  BY DEF Planned, Tree, Typed
<1>2. e \in Slot /\ e.name \in Name /\ e.first = new /\ e.size = 0
  BY Fat32Assumption DEF NewEntry, Slot
<1>. HIDE DEF e
<1>3. p.cluster \in Cluster /\ p.slot \in Index /\ p.cluster # new
  BY NobodyNoDir DEF Place
<1>4. PICK D1 : After(State(T, D), w) = State(T, D1) /\ SlotPut(D, D1, p, e)
  BY <1>1, <1>2, AfterEntry
<1>5. w \in Write
  BY <1>1, <1>2, AfterEntry
<1>6. \A i \in Index : D[new][i].name \notin Name \cup {"data"}
  BY ZeroSlots
<1>7. PICK own2, pos2, len2 : Tree(T, D1, own2, pos2, len2) /\ OnlyEntry(D, own, D1, own2, p, e)
  <2>1. e.dir => \A i \in Index : D[new][i].name \notin Name \cup {"data"}
    BY <1>6
  <2>. QED
    BY <1>1, <1>2, <1>4, <2>1, TreeNew
<1>8. Puts(T, D, w, D1)
  BY <1>4, <1>5 DEF Puts
<1>. HIDE DEF w
<1>9. Planned(listed, s, D1, own2, pos2, len2, safe) /\ listed.fat = T
  BY <1>7, <1>8, PlanDo
<1>10. Changed(D, own, D1, own2, p, e)
  BY <1>7, Zenon DEF OnlyEntry, Changed
<1>11. CASE ~isdir
  <2>1. ListedIn(plan, p, name, isdir, new, parent) = listed
    BY <1>11 DEF ListedIn, w, e
  <2>. HIDE DEF listed
  <2>. QED
    BY <1>9, <1>10, <2>1, Zenon DEF e
<1>12. CASE isdir
  <2>. DEFINE v == Dots(new, parent)
              k == PutSlots(new, v)
              D2 == [D1 EXCEPT ![new] = v]
              r == Do(listed, k)
  <2>1. v \in Slots /\ \A i \in Index : v[i].name \notin Name \cup {"data"}
    BY DotsSlots
  <2>. HIDE DEF v
  <2>2. D1 \in Disk /\ \A i \in Index : D1[new][i].name \notin Name
    BY <1>3, <1>4, <1>6 DEF SlotPut
  <2>3. Tree(T, D2, own2, pos2, len2) /\ SameEntries(D1, own2, D2, own2)
    BY <1>7, <2>1, <2>2, TreeSlots
  <2>4. Puts(listed.fat, D1, k, D2)
    BY <1>9, <2>1, <2>2, AfterSlots DEF Puts
  <2>5. Tree(listed.fat, D2, own2, pos2, len2)
    BY <1>9, <2>3
  <2>6. ListedIn(plan, p, name, isdir, new, parent) = r
    BY <1>12 DEF ListedIn, w, e, v
  <2>. HIDE DEF listed, D2, k
  <2>7. Planned(r, s, D2, own2, pos2, len2, safe)
    BY <1>9, <2>4, <2>5, PlanDo
  <2>8. Changed(D, own, D2, own2, p, e)
    BY <1>10, <2>3, Zenon DEF Changed, SameEntries, IsEntry
  <2>. HIDE DEF r
  <2>. QED
    BY <2>6, <2>7, <2>8, Zenon DEF e
<1>. QED
  BY <1>11, <1>12


\* A plan of which less is promised.
LEMMA PlanWeaker ==
  ASSUME NEW plan, NEW s, NEW D, NEW own, NEW pos, NEW len, NEW safe,
         Planned(plan, s, D, own, pos, len, Safely)
  PROVE  Planned(plan, s, D, own, pos, len, safe)
<1>1. plan \in PlanType /\ Leads(s, plan.todo, State(plan.fat, D), Safely) /\ Tree(plan.fat, D, own, pos, len)
  BY DEF Planned
<1>2. Leads(s, plan.todo, State(plan.fat, D), safe)
  BY <1>1, LeadsWeaker DEF Safely
<1>. QED
  BY <1>1, <1>2, Zenon DEF Planned

\* What fat32_vnode_create makes of the disk.
Created(r, own, name, isdir, safe) ==
  \E D, own2, pos2, len2 :
    /\ Planned(r.plan, State(fat, disk), D, own2, pos2, len2, safe)
    /\ IF r.ok THEN /\ ~IsEntry(disk, own, r.place) /\ r.place \in Place /\ r.first \in Cluster
                    /\ Changed(disk, own, D, own2, r.place, NewEntry(name, isdir, r.first))
       ELSE SameEntries(disk, own, D, own2)

\* Creating a file or directory plans writes that make it.
LEMMA CreateMakes ==
  ASSUME NEW own, NEW pos, NEW len, Tree(fat, disk, own, pos, len),
         NEW parent \in Cluster, DirOwner(disk, own, own[parent]), pos[parent] = 1,
         NEW name \in Name, NEW isdir \in BOOLEAN,
         NEW safe, safe => ~fat32_vnode_create(parent, name, isdir).grows
  PROVE  Created(fat32_vnode_create(parent, name, isdir), own, name, isdir, safe)
<1>. DEFINE r == fat32_vnode_create(parent, name, isdir)
            s == State(fat, disk)
            made == fat32_allocate_cluster(Plan(0), 0)
            new == made.at
            ps == Places(parent)
            free == {"", "E5"}
            open == {k \in 1..Len(ps) : At(ps[k]).name \in free}
            last == Last(Chain(fat, parent))
            room == IF new = 0 \/ open # {} THEN made ELSE fat32_allocate_cluster(made, last)
            p == IF open # {} THEN ps[Lowest(open)] ELSE [cluster |-> room.at, slot |-> 1]
<1>1. /\ r.ok = (new # 0 /\ room.at # 0) /\ r.place = p /\ r.first = new /\ r.grows = (open = {})
      /\ r.plan = IF new = 0 \/ room.at = 0 THEN room ELSE ListedIn(room, p, name, isdir, new, parent)
  BY Zenon DEF fat32_vnode_create, ListedIn, NewEntry, Dots
<1>2. free \cap Name = {}
  <2>1. "" \notin Name /\ "E5" \notin Name
    <3>1. 0 \in Cluster \cup {0} /\ FALSE \in BOOLEAN
      OBVIOUS
    <3>. QED
      BY <3>1, MarkedSlot, MarkNames, Zenon
  <2>. QED
    BY <2>1, Zenon
<1>. HIDE DEF free
<1>3. /\ Planned(Plan(0), s, disk, own, pos, len, Safely) /\ Plan(0).done = 0 /\ Plan(0).fat = fat
      /\ Plan(0).at = 0
  BY PlanStart
<1>4. Planned(Plan(0), s, disk, own, pos, len, safe)
  BY <1>3, PlanWeaker
<1>5. \/ Unserved(made, Plan(0))
      \/ /\ Fresh(made, Plan(0), own)
         /\ Planned(made, s, Cleared(disk, made.at), own, pos, len, safe)
         /\ SameEntries(disk, own, Cleared(disk, made.at), own)
  <2>. HIDE DEF s
  <2>. QED
    BY <1>4, AllocateFirst
<1>6. own[parent] # Nobody /\ PlacesOf(parent, own) /\ disk \in Disk
  <2>1. own[parent] # Nobody /\ disk \in Disk
    BY NobodyNoDir DEF Tree, Typed
  <2>. QED
    BY <2>1, PlacesOwned
<1>. HIDE DEF made, r, last
<1>7. CASE Unserved(made, Plan(0))
  <2>1. made = Plan(0)
    BY <1>3, <1>7 DEF Unserved, Planned, PlanType
  <2>2. new = 0 /\ room = made
    BY <1>3, <2>1
  <2>3. ~r.ok /\ r.plan = Plan(0)
    BY <1>1, <2>1, <2>2
  <2>4. SameEntries(disk, own, disk, own)
    BY DEF SameEntries
  <2>. QED
    BY <1>4, <2>3, <2>4, Zenon DEF Created, r, s
<1>8. CASE /\ Fresh(made, Plan(0), own)
           /\ Planned(made, s, Cleared(disk, made.at), own, pos, len, safe)
           /\ SameEntries(disk, own, Cleared(disk, made.at), own)
  <2>. DEFINE D1 == Cleared(disk, new)
  <2>1. new \in Cluster /\ own[new] = Nobody /\ new # 0 /\ made.fat[new] = EOC
    BY <1>8, Clusters DEF Fresh
  <2>2. Planned(made, s, D1, own, pos, len, safe) /\ SameEntries(disk, own, D1, own)
    BY <1>8
  <2>3. \A i \in Index : D1[new][i] = Zero
    BY <1>6, <2>1 DEF Cleared, Disk
  <2>4. \A q \in Place : q.cluster # new => EntryAt(D1, q) = EntryAt(disk, q)
    BY <1>6, <2>1 DEF Cleared, Disk, EntryAt, Place
  <2>5. DirOwner(D1, own, own[parent])
    BY <2>2, SameDirs
  <2>. HIDE DEF D1
  <2>6. CASE open # {}
    <3>1. room = made /\ p = ps[Lowest(open)]
      BY <2>6
    <3>2. open \in SUBSET Nat
      BY <1>6 DEF PlacesOf
    <3>3. Lowest(open) \in open
      BY <2>6, <3>2, LowestIn
    <3>4. Lowest(open) \in 1..Len(ps) /\ At(p).name \in free
      BY <3>1, <3>3
    <3>. HIDE DEF open, room, p
    <3>5. p \in Place /\ own[p.cluster] = own[parent]
      BY <1>6, <3>1, <3>4 DEF PlacesOf
    <3>6. EntryAt(disk, p).name \notin Name /\ p.cluster # new
      BY <1>2, <1>6, <2>1, <3>4, <3>5 DEF At, EntryAt
    <3>7. EntryAt(D1, p).name \notin Name /\ DirOwner(D1, own, own[p.cluster])
      BY <2>4, <2>5, <3>5, <3>6
    <3>8. PICK D2, own2, pos2, len2 :
            /\ Planned(ListedIn(made, p, name, isdir, new, parent), s, D2, own2, pos2, len2, safe)
            /\ Changed(D1, own, D2, own2, p, NewEntry(name, isdir, new))
      <4>. HIDE DEF new
      <4>. QED
        BY <2>1, <2>2, <2>3, <3>5, <3>7, ListNew
    <3>9. Changed(disk, own, D2, own2, p, NewEntry(name, isdir, new))
      BY <2>2, <3>8, Zenon DEF Changed, SameEntries
    <3>10. r.ok /\ r.plan = ListedIn(made, p, name, isdir, new, parent) /\ r.place = p /\ r.first = new
      BY <1>1, <2>1, <3>1
    <3>11. ~IsEntry(disk, own, p)
      BY <3>6 DEF IsEntry
    <3>12. Planned(r.plan, s, D2, own2, pos2, len2, safe)
      BY <3>8, <3>10
    <3>13. Changed(disk, own, D2, own2, r.place, NewEntry(name, isdir, r.first))
      BY <3>9, <3>10
    <3>14. ~IsEntry(disk, own, r.place) /\ r.place \in Place /\ r.first \in Cluster
      BY <2>1, <3>5, <3>10, <3>11
    <3>. QED
      BY <3>10, <3>12, <3>13, <3>14, Zenon DEF Created, r, s
  <2>7. CASE open = {}
    <3>. DEFINE c == room.at
    <3>1. room = fat32_allocate_cluster(made, last) /\ p = [cluster |-> c, slot |-> 1] /\ r.grows /\ ~safe
      <4>1. r.grows
        BY <1>1, <2>7
      <4>. QED
        BY <2>1, <2>7, <4>1 DEF r
    <3>2. last \in Cluster /\ own[last] = own[parent] /\ made.fat[last] = EOC
      <4>1. OwnChain(Chain(fat, parent), fat, own, pos, len, own[parent])
        BY <1>6, ChainOwned
      <4>2. last \in Cluster /\ own[last] = own[parent] /\ pos[last] = len[own[parent]]
        BY <4>1 DEF OwnChain, last, Last
      <4>3. LinkOK(made.fat, own, pos, len, last)
        BY <1>6, <2>2, <4>2 DEF Planned, Tree
      <4>. QED
        BY <4>2, <4>3 DEF LinkOK
    <3>. HIDE DEF open, room, p
    <3>3. \/ Unserved(room, made)
          \/ Fresh(room, made, own) /\ Linked(room, s, D1, own, pos, len, own[last], safe)
      <4>1. own[last] # Nobody
        BY <1>6, <3>2
      <4>. HIDE DEF s
      <4>. QED
        BY <2>2, <3>1, <3>2, <4>1, AllocateNext
    <3>4. CASE Unserved(room, made)
      <4>1. made \in PlanType
        BY <2>2 DEF Planned
      <4>2. room \in PlanType /\ room.at = 0 /\ room.fat = made.fat /\ room.todo = made.todo
        BY <3>4, <4>1 DEF Unserved, PlanType
      <4>3. ~r.ok /\ r.plan = room
        BY <1>1, <4>2
      <4>4. Planned(room, s, D1, own, pos, len, safe)
        BY <2>2, <4>2, Zenon DEF Planned
      <4>5. Planned(r.plan, s, D1, own, pos, len, safe)
        BY <4>3, <4>4
      <4>. QED
        BY <2>2, <4>3, <4>5, Zenon DEF Created, r, s
    <3>5. CASE Fresh(room, made, own) /\ Linked(room, s, D1, own, pos, len, own[last], safe)
      <4>. DEFINE x == own[parent]
                  D3 == Cleared(D1, c)
                  own3 == WithOwner(own, c, x)
                  pos3 == WithPos(pos, len, c, x)
                  len3 == WithLen(len, x)
      <4>1. /\ c \in Cluster /\ own[c] = Nobody /\ made.fat[c] = FREE /\ c # 0
            /\ \A d \in Cluster : own[d] = Nobody /\ d # c => room.fat[d] = made.fat[d]
        BY <3>5, Clusters DEF Fresh
      <4>2. Planned(room, s, D3, own3, pos3, len3, safe) /\ SameEntries(D1, own, D3, own3)
        BY <3>2, <3>5 DEF Linked
      <4>3. new # c
        BY <2>1, <4>1, Clusters DEF EOC, FREE
      <4>4. D1 \in Disk /\ own \in [Cluster -> Owner]
        BY <2>2 DEF Planned, Tree, Typed
      <4>5. own3[c] = x /\ \A d \in Cluster : d # c => own3[d] = own[d]
        BY <4>1, <4>4 DEF WithOwner
      <4>6. (\A i \in Index : D3[c][i] = Zero) /\ \A i \in Index : D3[new][i] = Zero
        BY <2>1, <2>3, <4>1, <4>3, <4>4 DEF Cleared, Disk
      <4>. HIDE DEF c, D3, own3, pos3, len3
      <4>7. p \in Place /\ p.cluster = c /\ p.slot \in Index
        BY <3>1, <4>1, Clusters DEF Place, Index
      <4>8. EntryAt(D3, p).name \notin Name /\ EntryAt(D3, p) = Zero
        BY <4>6, <4>7, ZeroSlots DEF EntryAt
      <4>9. DirOwner(D3, own3, own3[p.cluster])
        <5>1. DirOwner(D1, own, x)
          BY <2>5
        <5>2. x \in Place => own3[x.cluster] = own[x.cluster]
          <6>1. SUFFICES ASSUME x \in Place PROVE x.cluster \in Cluster /\ x.cluster # c
            BY <4>5
          <6>2. x # Root
            BY <6>1, Clusters DEF Place, Root
          <6>3. own[x.cluster] = Root
            BY <5>1, <6>2 DEF DirOwner, InRoot
          <6>4. Root # Nobody
            BY DEF Root, Nobody
          <6>. QED
            BY <4>1, <6>1, <6>3, <6>4 DEF Place
        <5>. HIDE DEF x
        <5>3. DirOwner(D3, own3, x)
          BY <4>2, <5>1, <5>2, SameDirs
        <5>. QED
          BY <4>5, <4>7, <5>3
      <4>10. own3[new] = Nobody /\ room.fat[new] = EOC
        BY <2>1, <4>1, <4>3, <4>5
      <4>11. PICK D2, own2, pos2, len2 :
              /\ Planned(ListedIn(room, p, name, isdir, new, parent), s, D2, own2, pos2, len2, safe)
              /\ Changed(D3, own3, D2, own2, p, NewEntry(name, isdir, new))
        <5>. HIDE DEF new
        <5>. QED
          BY <2>1, <4>2, <4>6, <4>7, <4>8, <4>9, <4>10, ListNew
      <4>12. Changed(disk, own, D2, own2, p, NewEntry(name, isdir, new))
        BY <2>2, <4>2, <4>11, Zenon DEF Changed, SameEntries
      <4>13. r.ok /\ r.plan = ListedIn(room, p, name, isdir, new, parent) /\ r.place = p /\ r.first = new
        BY <1>1, <2>1, <4>1 DEF c
      <4>14. ~IsEntry(disk, own, p)
        BY <4>1, <4>7, NobodyNoDir DEF IsEntry
      <4>15. Planned(r.plan, s, D2, own2, pos2, len2, safe)
        BY <4>11, <4>13
      <4>16. Changed(disk, own, D2, own2, r.place, NewEntry(name, isdir, r.first))
        BY <4>12, <4>13
      <4>17. ~IsEntry(disk, own, r.place) /\ r.place \in Place /\ r.first \in Cluster
        BY <2>1, <4>7, <4>13, <4>14
      <4>. QED
        BY <4>13, <4>15, <4>16, <4>17, Zenon DEF Created, r, s
    <3>. QED
      BY <3>3, <3>4, <3>5
  <2>. QED
    BY <2>6, <2>7
<1>. QED
  BY <1>5, <1>7, <1>8


-----------------------------------------------------------------------------
(* The invariant: the writes still to do lead to a tree that the open      *)
(* nodes agree with, through trees if the power may fail on the way.       *)

\* Power fails only in calls that add to the disk and do not make a directory
\* longer, nothing open is removed, and files without clusters are open once.
Orderly ==
  /\ CrashIn \subseteq {"open", "mkdir", "write"}
  /\ ~RemoveOpen
  /\ Shared \cap Foreign = {}

IInv ==
  \E T, D, own, pos, len :
    /\ Leads(State(fat, disk), todo, State(T, D), call \in CrashIn)
    /\ Tree(T, D, own, pos, len)
    /\ Nodes(node, D, own)

\* Between calls the disk is the tree.
LEMMA IdleTree ==
  ASSUME IInv, Idle
  PROVE  \E own, pos, len : Tree(fat, disk, own, pos, len) /\ Nodes(node, disk, own)
<1>1. PICK T, D, own, pos, len :
        /\ Leads(State(fat, disk), todo, State(T, D), call \in CrashIn)
        /\ Tree(T, D, own, pos, len) /\ Nodes(node, D, own)
  BY DEF IInv
<1>2. State(fat, disk) = State(T, D)
  BY <1>1, LeadsEmpty DEF Idle
<1>3. State(fat, disk).fat = fat /\ State(fat, disk).disk = disk /\ State(T, D).fat = T /\ State(T, D).disk = D
  BY DEF State
<1>4. fat = T /\ disk = D
  BY <1>2, <1>3
<1>. QED
  BY <1>1, <1>4

\* A call that has planned its writes has settled what the disk will be.
LEMMA BeginInv ==
  ASSUME Orderly, NEW plan, NEW kind, Begin(kind, plan.todo),
         NEW D, NEW own, NEW pos, NEW len, NEW safe, kind \in CrashIn => safe,
         Planned(plan, State(fat, disk), D, own, pos, len, safe), Nodes(node', D, own)
  PROVE  IInv'
<1>1. Leads(State(fat, disk), plan.todo, State(plan.fat, D), safe) /\ Tree(plan.fat, D, own, pos, len)
  BY DEF Planned
<1>2. fat' = fat /\ disk' = disk /\ todo' = plan.todo
  BY DEF Begin
<1>3. call' \in CrashIn => safe
  <2>1. "idle" \notin CrashIn
    BY DEF Orderly
  <2>. QED
    BY <2>1 DEF Begin
<1>4. Leads(State(fat, disk), plan.todo, State(plan.fat, D), call' \in CrashIn)
  <2>. DEFINE less == call' \in CrashIn
  <2>1. less => safe
    BY <1>3
  <2>. HIDE DEF less
  <2>2. Leads(State(fat, disk), plan.todo, State(plan.fat, D), less)
    BY <1>1, <2>1, LeadsWeaker
  <2>. QED
    BY <2>2 DEF less
<1>. QED
  BY <1>1, <1>2, <1>4, Zenon DEF IInv

\* The descriptor that vfs_alloc_fd takes.
LEMMA OpenNodes ==
  ASSUME NEW D, NEW own, Nodes(node, D, own), NEW n \in FatNode, NodeOK(n, D, own), Open(n),
         \A k \in Fd : node[k].is_open /\ PlaceOf(node[k]) = PlaceOf(n) => n.first # 0
  PROVE  Nodes(node', D, own)
<1>1. CASE Closed = {}
  BY <1>1 DEF Open
<1>2. CASE Closed # {}
  <2>. DEFINE d == Lowest(Closed)
  <2>1. Closed \in SUBSET Nat
    BY Fat32Assumption DEF Closed, Fd
  <2>2. d \in Closed
    BY <1>2, <2>1, LowestIn
  <2>3. d \in Fd /\ ~node[d].is_open
    BY <2>2 DEF Closed
  <2>4. node' = [node EXCEPT ![d] = n]
    BY <1>2 DEF Open
  <2>. HIDE DEF d
  <2>. QED
    BY <2>3, <2>4, NodesOpen
<1>. QED
  BY <1>1, <1>2

\* The fields of an entry.
LEMMA EntryFields ==
  ASSUME NEW own, NEW pos, NEW len, Tree(fat, disk, own, pos, len), NEW p, IsEntry(disk, own, p)
  PROVE  /\ p \in Place /\ At(p) = EntryAt(disk, p) /\ At(p) \in Slot
         /\ p.cluster \in Cluster /\ p.slot \in Index
         /\ p = [cluster |-> p.cluster, slot |-> p.slot]
         /\ At(p).first = 0 => At(p).name \in Foreign
<1>1. p \in Place /\ disk \in Disk /\ EntryOK(disk, own, pos, len, p)
  BY DEF IsEntry, Tree, Typed
<1>2. At(p) = EntryAt(disk, p) /\ p.cluster \in Cluster /\ p.slot \in Index
  BY <1>1 DEF At, EntryAt, Place
<1>3. At(p) \in Slot
  BY <1>1, <1>2 DEF At, Disk, Slots
<1>. QED
  BY <1>1, <1>2, <1>3 DEF EntryOK, Place


\* open_existing, with the places and plans it settles.
LEMMA OpenExistingKeeps ==
  ASSUME Orderly, IInv, NEW path \in Paths, NEW trunc \in BOOLEAN, open_existing(path, trunc)
  PROVE  IInv'
<1>. DEFINE p == Resolve(path)
            e == At(p)
            truncates == trunc /\ ~e.dir
            begun == IF truncates THEN WithFirst(p, e.first) ELSE Plan(e.first)
            n == [is_open |-> TRUE, dir |-> e.dir, size |-> IF truncates THEN 0 ELSE e.size,
                  first |-> begun.at, cluster |-> p.cluster, slot |-> p.slot]
            f == [e EXCEPT !.first = begun.at]
<1>1. /\ Idle /\ p # NoPlace /\ (InUse(p) => Last(path) \in Shared)
      /\ Open(n) /\ Begin("open", begun.todo)
  BY DEF open_existing
<1>2. PICK own, pos, len : Tree(fat, disk, own, pos, len) /\ Nodes(node, disk, own)
  BY <1>1, IdleTree
<1>3. IsEntry(disk, own, p) /\ EntryAt(disk, p).name = Last(path)
  BY <1>1, <1>2, ResolveFinds
<1>. HIDE DEF p
<1>4. /\ p \in Place /\ e = EntryAt(disk, p) /\ e \in Slot /\ p.cluster \in Cluster /\ p.slot \in Index
      /\ p = [cluster |-> p.cluster, slot |-> p.slot] /\ (e.first = 0 => e.name \in Foreign)
  BY <1>2, <1>3, EntryFields
<1>. HIDE DEF e
<1>5. /\ e.first \in Cluster \cup {0} /\ e.dir \in BOOLEAN /\ e.size \in 0..MaxSize
      /\ e = [e EXCEPT !.first = e.first]
  BY <1>4 DEF Slot
<1>6. /\ \E D, own2, pos2, len2 :
           Planned(begun, State(fat, disk), D, own2, pos2, len2, Safely) /\ Changed(disk, own, D, own2, p, f)
      /\ begun.at \in Cluster \cup {0} /\ (e.first # 0 => begun.at = e.first)
  <2>1. CASE truncates
    <3>. DEFINE r == WithFirst(p, e.first)
    <3>1. begun = r
      BY <2>1
    <3>2. /\ Writing(r, disk, own, p, [EntryAt(disk, p) EXCEPT !.first = r.at], 1, 0)
          /\ r.at \in Cluster \cup {0} /\ (e.first # 0 => r.at = e.first)
      BY <1>2, <1>3, <1>4, WithFirstWriting
    <3>. HIDE DEF r
    <3>3. Writing(r, disk, own, p, [e EXCEPT !.first = r.at], 1, 0)
      BY <1>4, <3>2
    <3>4. \E D, own2, pos2, len2 :
            /\ Planned(r, State(fat, disk), D, own2, pos2, len2, Safely)
            /\ Changed(disk, own, D, own2, p, [e EXCEPT !.first = r.at])
      BY <3>3, Zenon DEF Writing
    <3>. QED
      BY <3>1, <3>2, <3>4
  <2>2. CASE ~truncates
    <3>1. begun = Plan(e.first)
      BY <2>2
    <3>2. Planned(Plan(e.first), State(fat, disk), disk, own, pos, len, Safely) /\ Plan(e.first).at = e.first
      BY <1>2, <1>5, PlanStart
    <3>3. Changed(disk, own, disk, own, p, e)
      BY <1>3, <1>4 DEF Changed
    <3>4. f = e
      BY <1>5, <3>1, <3>2
    <3>. HIDE DEF begun, f
    <3>. QED
      BY <1>5, <3>1, <3>2, <3>3, <3>4
  <2>. QED
    BY <2>1, <2>2
<1>. HIDE DEF begun
<1>7. PICK D, own2, pos2, len2 :
        Planned(begun, State(fat, disk), D, own2, pos2, len2, Safely) /\ Changed(disk, own, D, own2, p, f)
  BY <1>6
<1>8. f.first = begun.at /\ f.dir = e.dir
  BY <1>4 DEF Slot
<1>9. \A k \in Fd : node[k].is_open /\ PlaceOf(node[k]) = p => InUse(p)
  BY DEF InUse, PlaceOf
<1>10. InUse(p) => e.first # 0
  <2>1. e.name = Last(path)
    BY <1>3, <1>4
  <2>. QED
    BY <1>1, <1>4, <2>1 DEF Orderly
<1>11. Nodes(node, D, own2)
  <2>1. CASE e.first = 0
    <3>1. \A k \in Fd : node[k].is_open => PlaceOf(node[k]) # p
      BY <1>9, <1>10, <2>1
    <3>. HIDE DEF f
    <3>. QED
      BY <1>2, <1>7, <3>1, NodesAside
  <2>2. CASE e.first # 0
    <3>1. f = e
      BY <1>5, <1>6, <2>2
    <3>. HIDE DEF f
    <3>2. SameEntries(disk, own, D, own2)
      BY <1>3, <1>4, <1>7, <3>1, Zenon DEF Changed, SameEntries
    <3>. QED
      BY <1>2, <3>2, NodesSame
  <2>. QED
    BY <2>1, <2>2
<1>12. n \in FatNode /\ PlaceOf(n) = p /\ n.first = begun.at /\ n.dir = e.dir
  <2>1. (IF truncates THEN 0 ELSE e.size) \in 0..MaxSize
    BY <1>5, Fat32Assumption
  <2>. HIDE DEF truncates
  <2>. QED
    BY <1>4, <1>5, <1>6, <2>1 DEF FatNode, PlaceOf
<1>. HIDE DEF n, f
<1>13. NodeOK(n, D, own2)
  BY <1>7, <1>8, <1>12, Zenon DEF NodeOK, Changed
<1>14. \A k \in Fd : node[k].is_open /\ PlaceOf(node[k]) = PlaceOf(n) => n.first # 0
  BY <1>6, <1>9, <1>10, <1>12
<1>15. Nodes(node', D, own2)
  BY <1>1, <1>11, <1>12, <1>13, <1>14, OpenNodes
<1>. QED
  BY <1>1, <1>7, <1>15, BeginInv DEF Safely

\* open_new and vfs_mkdir: nothing has the new entry's place open.
LEMMA OpenNewKeeps ==
  ASSUME Orderly, IInv, NEW path \in Paths, open_new(path)
  PROVE  IInv'
<1>. DEFINE parent == Parent(path)
            name == Last(path)
            made == fat32_vnode_create(parent, name, FALSE)
            kind == IF made.grows THEN "grow" ELSE "open"
            n == [is_open |-> TRUE, dir |-> FALSE, size |-> 0, first |-> made.first,
                  cluster |-> made.place.cluster, slot |-> made.place.slot]
            safe == kind \in CrashIn
<1>1. /\ Idle /\ parent # 0 /\ Begin(kind, made.plan.todo)
      /\ IF made.ok THEN Open(n) ELSE UNCHANGED node
  BY DEF open_new
<1>2. PICK own, pos, len : Tree(fat, disk, own, pos, len) /\ Nodes(node, disk, own)
  BY <1>1, IdleTree
<1>3. parent \in Cluster /\ DirOwner(disk, own, own[parent]) /\ pos[parent] = 1 /\ name \in Name
  BY <1>1, <1>2, ParentDir, PathNames
<1>4. safe => ~made.grows
  <2>1. "grow" \notin CrashIn
    BY DEF Orderly
  <2>. QED
    BY <2>1
<1>. HIDE DEF safe
<1>5. Created(made, own, name, FALSE, safe)
  <2>1. FALSE \in BOOLEAN
    OBVIOUS
  <2>. HIDE DEF parent, name
  <2>. QED
    BY <1>2, <1>3, <1>4, <2>1, CreateMakes
<1>. HIDE DEF made, name, parent, kind
<1>6. PICK D, own2, pos2, len2 :
        /\ Planned(made.plan, State(fat, disk), D, own2, pos2, len2, safe)
        /\ IF made.ok THEN /\ ~IsEntry(disk, own, made.place) /\ made.place \in Place /\ made.first \in Cluster
                           /\ Changed(disk, own, D, own2, made.place, NewEntry(name, FALSE, made.first))
           ELSE SameEntries(disk, own, D, own2)
  BY <1>5, Zenon DEF Created
<1>7. Nodes(node', D, own2)
  <2>1. CASE ~made.ok
    <3>1. node' = node /\ SameEntries(disk, own, D, own2)
      BY <1>1, <1>6, <2>1
    <3>. QED
      BY <1>2, <3>1, NodesSame
  <2>2. CASE made.ok
    <3>. DEFINE p == made.place
                e == NewEntry(name, FALSE, made.first)
    <3>1. ~IsEntry(disk, own, p) /\ p \in Place /\ made.first \in Cluster /\ Changed(disk, own, D, own2, p, e)
      BY <1>6, <2>2
    <3>2. \A d \in Fd : node[d].is_open => PlaceOf(node[d]) # p
      BY <1>2, <3>1 DEF Nodes, NodeOK
    <3>. HIDE DEF e
    <3>3. Nodes(node, D, own2)
      BY <1>2, <3>1, <3>2, NodesAside
    <3>4. n \in FatNode /\ PlaceOf(n) = p /\ n.first = made.first /\ n.dir = FALSE
      BY <3>1, Fat32Assumption DEF FatNode, PlaceOf, Place
    <3>5. e.first = made.first /\ e.dir = FALSE
      BY DEF e, NewEntry
    <3>6. NodeOK(n, D, own2)
      <4>. HIDE DEF n
      <4>. QED
        BY <3>1, <3>4, <3>5, Zenon DEF NodeOK, Changed
    <3>7. n.first # 0 /\ Open(n)
      BY <1>1, <2>2, <3>1, <3>4, Clusters
    <3>. HIDE DEF n
    <3>. QED
      BY <3>3, <3>4, <3>6, <3>7, OpenNodes
  <2>. QED
    BY <2>1, <2>2
<1>. QED
  BY <1>1, <1>6, <1>7, BeginInv DEF safe

\* mkdir keeps the invariant.
LEMMA MkdirKeeps ==
  ASSUME Orderly, IInv, NEW path \in Paths, vfs_mkdir(path)
  PROVE  IInv'
<1>. DEFINE parent == Parent(path)
            name == Last(path)
            made == fat32_vnode_create(parent, name, TRUE)
            kind == IF made.grows THEN "grow" ELSE "mkdir"
            safe == kind \in CrashIn
<1>1. Idle /\ parent # 0 /\ Begin(kind, made.plan.todo) /\ node' = node
  BY DEF vfs_mkdir
<1>2. PICK own, pos, len : Tree(fat, disk, own, pos, len) /\ Nodes(node, disk, own)
  BY <1>1, IdleTree
<1>3. parent \in Cluster /\ DirOwner(disk, own, own[parent]) /\ pos[parent] = 1 /\ name \in Name
  BY <1>1, <1>2, ParentDir, PathNames
<1>4. safe => ~made.grows
  <2>1. "grow" \notin CrashIn
    BY DEF Orderly
  <2>. QED
    BY <2>1
<1>. HIDE DEF safe
<1>5. Created(made, own, name, TRUE, safe)
  <2>1. TRUE \in BOOLEAN
    OBVIOUS
  <2>. HIDE DEF parent, name
  <2>. QED
    BY <1>2, <1>3, <1>4, <2>1, CreateMakes
<1>. HIDE DEF made, name, parent, kind
<1>6. PICK D, own2, pos2, len2 :
        /\ Planned(made.plan, State(fat, disk), D, own2, pos2, len2, safe)
        /\ IF made.ok THEN /\ ~IsEntry(disk, own, made.place) /\ made.place \in Place /\ made.first \in Cluster
                           /\ Changed(disk, own, D, own2, made.place, NewEntry(name, TRUE, made.first))
           ELSE SameEntries(disk, own, D, own2)
  BY <1>5, Zenon DEF Created
<1>7. Nodes(node, D, own2)
  <2>1. CASE ~made.ok
    BY <1>2, <1>6, <2>1, NodesSame
  <2>2. CASE made.ok
    <3>. DEFINE p == made.place
                e == NewEntry(name, TRUE, made.first)
    <3>1. ~IsEntry(disk, own, p) /\ Changed(disk, own, D, own2, p, e)
      BY <1>6, <2>2
    <3>2. \A d \in Fd : node[d].is_open => PlaceOf(node[d]) # p
      BY <1>2, <3>1 DEF Nodes, NodeOK
    <3>. HIDE DEF e
    <3>. QED
      BY <1>2, <3>1, <3>2, NodesAside
  <2>. QED
    BY <2>1, <2>2
<1>8. Nodes(node', D, own2)
  BY <1>1, <1>7
<1>. QED
  BY <1>1, <1>6, <1>8, BeginInv DEF safe


\* close does.
LEMMA CloseKeeps ==
  ASSUME Orderly, IInv, NEW d \in Fd, vfs_close(d)
  PROVE  IInv'
<1>1. PICK T, D, own, pos, len :
        /\ Leads(State(fat, disk), todo, State(T, D), call \in CrashIn)
        /\ Tree(T, D, own, pos, len) /\ Nodes(node, D, own)
  BY DEF IInv
<1>2. fat' = fat /\ disk' = disk /\ todo' = todo /\ call' = call /\ node' = [node EXCEPT ![d] = ClosedNode]
  BY DEF vfs_close
<1>3. Nodes(node', D, own)
  BY <1>1, <1>2, NodesClose
<1>. QED
  BY <1>1, <1>2, <1>3, Zenon DEF IInv

\* What fat32_vnode_write makes of the file at p.
LEMMA WriteMakes ==
  ASSUME NEW own, NEW pos, NEW length, Tree(fat, disk, own, pos, length), NEW n \in FatNode,
         NodeOK(n, disk, own), ~n.dir, NEW offset \in Nat, NEW len \in Nat \ {0}, offset + len <= MaxSize
  PROVE  LET w == Written(n, offset, len)
         IN  /\ \E D, own2, pos2, len2, e :
                  /\ Planned(w.plan, State(fat, disk), D, own2, pos2, len2, Safely)
                  /\ Changed(disk, own, D, own2, PlaceOf(n), e) /\ e.first = w.first /\ ~e.dir
             /\ w.first \in Cluster \cup {0} /\ (n.first # 0 => w.first = n.first)
             /\ w.end \in 0..MaxSize
<1>. DEFINE w == Written(n, offset, len)
            p == PlaceOf(n)
            begun == WithFirst(n, n.first)
            skip == offset \div PerCluster
            way == Way(begun, skip)[skip]
            plan == Pieces(way, offset, len)[len]
            old == EntryAt(disk, p)
            f == [old EXCEPT !.first = begun.at]
<1>1. /\ w.first = begun.at /\ w.end = offset + plan.done
      /\ w.plan = IF plan.done = 0 THEN plan ELSE Sized(plan, n, offset + plan.done)
  BY DEF Written
<1>2. IsEntry(disk, own, p) /\ n.first = old.first /\ n.dir = old.dir
  BY DEF NodeOK
<1>3. begun = WithFirst(p, n.first)
  BY DEF WithFirst, PutField, PlaceOf
<1>. HIDE DEF p, begun, w
<1>4. /\ Writing(begun, disk, own, p, f, 1, 0) /\ begun.done = 0
      /\ begun.at \in Cluster \cup {0} /\ (n.first # 0 => begun.at = n.first)
  BY <1>2, <1>3, WithFirstWriting
<1>5. At(p) \in Slot /\ At(p) = old
  BY <1>2, EntryFields
<1>6. ~f.dir /\ f.first = begun.at
  BY <1>2, <1>5 DEF Slot
<1>. HIDE DEF f
<1>7. skip \in Nat
  BY DivMod
<1>8. Writing(way, disk, own, p, f, skip + 1, 0) /\ way.done = 0
  <2>. HIDE DEF skip
  <2>. QED
    BY <1>4, <1>6, <1>7, WayWriting
<1>. HIDE DEF way
<1>9. PutSoFar(plan, disk, own, p, f, offset, len, len)
  BY <1>6, <1>8, PiecesWriting
<1>. HIDE DEF plan
<1>10. PICK j \in Nat \ {0} :
         /\ Writing(plan, disk, own, p, f, j, IF plan.done = 0 THEN 0 ELSE offset + plan.done)
         /\ plan.done \in 0..len
  BY <1>9 DEF PutSoFar
<1>11. offset + plan.done \in 0..MaxSize
  BY <1>10, Fat32Assumption
<1>12. CASE plan.done = 0
  <2>1. Writing(plan, disk, own, p, f, j, 0) /\ w.plan = plan
    BY <1>1, <1>10, <1>12
  <2>2. \E D, own2, pos2, len2 :
           /\ Planned(w.plan, State(fat, disk), D, own2, pos2, len2, Safely)
           /\ Changed(disk, own, D, own2, p, f)
    BY <2>1, Zenon DEF Writing
  <2>. QED
    BY <1>1, <1>4, <1>6, <1>11, <2>2 DEF w, p
<1>13. CASE plan.done # 0
  <2>. DEFINE end == offset + plan.done
  <2>1. Writing(plan, disk, own, p, f, j, end) /\ w.plan = Sized(plan, n, end) /\ n.size \in Nat
    BY <1>1, <1>10, <1>13 DEF FatNode
  <2>. HIDE DEF end
  <2>2. \E D, own2, pos2, len2, e :
           /\ Planned(Sized(plan, n, end), State(fat, disk), D, own2, pos2, len2, Safely)
           /\ Changed(disk, own, D, own2, p, e) /\ e.first = f.first /\ e.dir = f.dir
    BY <1>11, <2>1, SizedWriting DEF p, end
  <2>. QED
    BY <1>1, <1>4, <1>6, <1>11, <2>1, <2>2 DEF w, p
<1>. QED
  BY <1>12, <1>13

\* write does.
LEMMA WriteKeeps ==
  ASSUME Orderly, IInv, NEW d \in Fd, NEW offset \in 0..MaxSize, NEW len \in 1..MaxWrite,
         vfs_write(d, offset, len)
  PROVE  IInv'
<1>. DEFINE w == Written(node[d], offset, len)
            size == IF w.plan.done > 0 /\ w.end > node[d].size THEN w.end ELSE node[d].size
            n == [node[d] EXCEPT !.first = w.first, !.size = size]
<1>1. /\ Idle /\ node[d].is_open /\ ~node[d].dir /\ offset + len <= MaxSize /\ Begin("write", w.plan.todo)
      /\ node' = [node EXCEPT ![d].first = w.first,
                              ![d].size = IF w.plan.done > 0 /\ w.end > @ THEN w.end ELSE @]
  BY DEF vfs_write
<1>2. PICK own, pos, length : Tree(fat, disk, own, pos, length) /\ Nodes(node, disk, own)
  BY <1>1, IdleTree
<1>3. node \in [Fd -> FatNode] /\ node[d] \in FatNode /\ NodeOK(node[d], disk, own)
  BY <1>1, <1>2 DEF Nodes
<1>4. offset \in Nat /\ len \in Nat \ {0}
  BY Fat32Assumption
<1>5. /\ \E D, own2, pos2, len2, e :
           /\ Planned(w.plan, State(fat, disk), D, own2, pos2, len2, Safely)
           /\ Changed(disk, own, D, own2, PlaceOf(node[d]), e) /\ e.first = w.first /\ ~e.dir
      /\ w.first \in Cluster \cup {0} /\ (node[d].first # 0 => w.first = node[d].first)
      /\ w.end \in 0..MaxSize
  BY <1>1, <1>2, <1>3, <1>4, WriteMakes
<1>. HIDE DEF w
<1>6. PICK D, own2, pos2, len2, e :
        /\ Planned(w.plan, State(fat, disk), D, own2, pos2, len2, Safely)
        /\ Changed(disk, own, D, own2, PlaceOf(node[d]), e) /\ e.first = w.first /\ ~e.dir
  BY <1>5
<1>7. node' = [node EXCEPT ![d] = n]
  BY <1>1, <1>3 DEF FatNode
<1>8. size \in 0..MaxSize
  BY <1>3, <1>5 DEF FatNode
<1>. HIDE DEF size
<1>9. /\ n \in FatNode /\ n.is_open /\ n.dir = node[d].dir /\ PlaceOf(n) = PlaceOf(node[d])
      /\ n.first = w.first
  BY <1>1, <1>3, <1>5, <1>8 DEF FatNode, PlaceOf
<1>. HIDE DEF n
<1>10. IsEntry(D, own2, PlaceOf(node[d])) /\ EntryAt(D, PlaceOf(node[d])) = e /\ D \in Disk
  BY <1>6 DEF Changed, Planned, Tree, Typed
<1>11. e.dir = node[d].dir
  <2>1. e \in Slot
    BY <1>10 DEF IsEntry, EntryAt, Disk, Slots, Place
  <2>2. e.dir \in BOOLEAN /\ node[d].dir \in BOOLEAN
    BY <1>3, <2>1 DEF Slot, FatNode
  <2>. QED
    BY <1>1, <1>6, <2>2
<1>12. Nodes(node', D, own2)
  <2>1. n.first = e.first /\ (node[d].first # 0 => n.first = node[d].first)
    BY <1>5, <1>6, <1>9
  <2>2. Changed(disk, own, D, own2, PlaceOf(node[d]), e) /\ Nodes(node, disk, own) /\ node[d].is_open
    BY <1>1, <1>2, <1>6
  <2>3. n \in FatNode /\ n.is_open /\ n.dir = node[d].dir /\ PlaceOf(n) = PlaceOf(node[d])
    BY <1>9
  <2>4. Nodes([node EXCEPT ![d] = n], D, own2)
    BY <1>11, <2>1, <2>2, <2>3, NodesWrite, Zenon
  <2>. QED
    BY <1>7, <2>4
<1>. QED
  BY <1>1, <1>6, <1>12, BeginInv DEF Safely


\* The table when the first i clusters of the chain cs have been freed.
FreedTo(cs, i) == [c \in Cluster |-> IF \E j \in 1..i : cs[j] = c THEN FREE ELSE fat[c]]

\* Writes that free clusters one after another lead to the table with all of them free.
LEMMA LeadsFreed ==
  ASSUME NEW cs \in Seq(Cluster), fat \in Fat, NEW safe, ~safe
  PROVE  LET ws == [i \in 1..Len(cs) |-> PutFat(cs[i], FREE)]
         IN  Leads(State(fat, disk), ws, State(FreedTo(cs, Len(cs)), disk), safe)
<1>. DEFINE n == Len(cs)
            ws == [i \in 1..n |-> PutFat(cs[i], FREE)]
            R == [i \in 0..n |-> State(FreedTo(cs, i), disk)]
<1>1. n \in Nat /\ \A i \in 1..n : cs[i] \in Cluster
  OBVIOUS
<1>. HIDE DEF n
<1>2. FREE \in Cluster \cup {FREE, EOC}
  OBVIOUS
<1>3. \A i \in 1..n : PutFat(cs[i], FREE) \in Write
  BY <1>1, <1>2, AfterFat
<1>4. ws \in Seq(Write) /\ Len(ws) = n /\ \A i \in 1..n : ws[i] = PutFat(cs[i], FREE)
  BY <1>1, <1>3
<1>5. FreedTo(cs, 0) = fat
  BY DEF FreedTo, Fat
<1>6. ASSUME NEW i \in 1..n PROVE FreedTo(cs, i) = [FreedTo(cs, i - 1) EXCEPT ![cs[i]] = FREE]
  <2>1. \A c : (\E j \in 1..i : cs[j] = c) <=> c = cs[i] \/ \E j \in 1..(i - 1) : cs[j] = c
    <3>1. \A j : j \in 1..i <=> j = i \/ j \in 1..(i - 1)
      BY <1>1
    <3>. QED
      BY <3>1, Zenon
  <2>. QED
    BY <1>1, <2>1 DEF FreedTo
<1>7. ASSUME NEW i \in 1..n PROVE R[i] = After(R[i - 1], ws[i])
  <2>1. R[i] = State(FreedTo(cs, i), disk) /\ R[i - 1] = State(FreedTo(cs, i - 1), disk)
    BY <1>1
  <2>. HIDE DEF R
  <2>2. After(State(FreedTo(cs, i - 1), disk), PutFat(cs[i], FREE))
          = State([FreedTo(cs, i - 1) EXCEPT ![cs[i]] = FREE], disk)
    BY <1>1, <1>2, AfterFat
  <2>. QED
    BY <1>4, <1>6, <2>1, <2>2
<1>8. R[0] = State(fat, disk) /\ R[n] = State(FreedTo(cs, n), disk)
  BY <1>1, <1>5
<1>. HIDE DEF R, ws
<1>9. Stages(R, State(fat, disk), ws, State(FreedTo(cs, n), disk), safe)
  BY <1>4, <1>7, <1>8 DEF Stages
<1>. QED
  BY <1>4, <1>9 DEF Leads, ws, n

\* All of an owner's clusters are on its chain.
LEMMA ChainHolds ==
  ASSUME NEW T, NEW D, NEW own, NEW pos, NEW len, Tree(T, D, own, pos, len),
         NEW x, x # Nobody, NEW s, OwnChain(s, T, own, pos, len, x),
         NEW c \in Cluster, own[c] = x
  PROVE  c \in On(s)
<1>1. LinkOK(T, own, pos, len, c)
  BY DEF Tree
<1>2. pos[c] \in 1..Len(s)
  BY <1>1 DEF LinkOK, OwnChain
<1>3. s[pos[c]] \in Cluster /\ own[s[pos[c]]] = x /\ pos[s[pos[c]]] = pos[c]
  BY <1>2 DEF OwnChain
<1>4. s[pos[c]] = c
  BY <1>3 DEF Tree
<1>. QED
  BY <1>2, <1>4 DEF On

\* What is removed is not open, and nothing in it is.
LEMMA RemoveNodes ==
  ASSUME NEW own, NEW pos, NEW len, Tree(fat, disk, own, pos, len), Nodes(node, disk, own),
         NEW p, IsEntry(disk, own, p), ~InUse(p), NEW d \in Fd, node[d].is_open
  PROVE  PlaceOf(node[d]) # p /\ own[node[d].cluster] # p
<1>. DEFINE q == PlaceOf(node[d])
<1>1. q.cluster = node[d].cluster /\ q.slot = node[d].slot
  BY DEF PlaceOf
<1>2. IsEntry(disk, own, q)
  BY DEF Nodes, NodeOK
<1>3. q # p
  BY <1>1 DEF InUse
<1>4. ASSUME own[q.cluster] = p PROVE FALSE
  <2>1. DirOwner(disk, own, p) /\ q.cluster \in Cluster
    BY <1>2, <1>4 DEF IsEntry, Place
  <2>2. p \in Place /\ At(p) = EntryAt(disk, p) /\ At(p) \in Slot
    BY EntryFields
  <2>3. p # Root /\ p # Nobody
    BY <2>2, Clusters DEF Place, Root, Nobody
  <2>4. EntryAt(disk, p).dir
    BY <2>1, <2>3, Zenon DEF DirOwner, InRoot
  <2>5. EntryOK(disk, own, pos, len, p)
    BY <2>2 DEF Tree
  <2>. DEFINE c == At(p).first
  <2>6. c \in Cluster /\ own[c] = p /\ pos[c] = 1
    BY <2>2, <2>4, <2>5 DEF EntryOK, Slot
  <2>7. OwnChain(Chain(fat, c), fat, own, pos, len, p)
    BY <2>3, <2>6, ChainOwned
  <2>. HIDE DEF c
  <2>8. q.cluster \in On(Chain(fat, c))
    BY <1>4, <2>1, <2>3, <2>7, ChainHolds
  <2>. QED
    BY <1>1, <2>2, <2>4, <2>8 DEF InUse, c
<1>. QED
  BY <1>1, <1>3, <1>4

\* remove does.
LEMMA RemoveKeeps ==
  ASSUME Orderly, IInv, NEW path \in Paths, vfs_remove(path)
  PROVE  IInv'
<1>. DEFINE p == Resolve(path)
            first == At(p).first
            deleted == [Zero EXCEPT !.name = "E5"]
            freed == IF Ends(first) THEN <<>> ELSE fat32_free_cluster_chain(first)
            w == PutSlots(p.cluster, [i \in {p.slot} |-> deleted])
            safe == "remove" \in CrashIn
<1>1. Idle /\ p # NoPlace /\ ~InUse(p) /\ Begin("remove", freed \o <<w>>) /\ node' = node
  BY DEF vfs_remove, Orderly
<1>2. PICK own, pos, len : Tree(fat, disk, own, pos, len) /\ Nodes(node, disk, own)
  BY <1>1, IdleTree
<1>3. IsEntry(disk, own, p)
  BY <1>1, <1>2, ResolveFinds
<1>4. ~safe
  BY DEF Orderly
<1>. HIDE DEF safe, p
<1>5. p \in Place /\ At(p) = EntryAt(disk, p) /\ At(p) \in Slot
  BY <1>2, <1>3, EntryFields
<1>6. fat \in Fat /\ disk \in Disk /\ EntryOK(disk, own, pos, len, p)
  BY <1>2, <1>3, <1>5 DEF Tree, Typed
<1>7. p # Nobody /\ p # Root
  BY <1>5, Clusters DEF Place, Nobody, Root
<1>8. deleted \in Slot /\ deleted.name \notin Name \cup {"data"}
  <2>. DEFINE gone == "E5"
              blank == ""
  <2>1. Zero = Marked(blank, FALSE, 0) /\ gone \in Marks /\ gone # "data"
    BY MarkNames, Zenon
  <2>2. deleted = [Zero EXCEPT !.name = gone]
    OBVIOUS
  <2>. HIDE DEF gone, blank, deleted
  <2>3. deleted = Marked(gone, FALSE, 0)
    BY <2>1, <2>2 DEF Marked
  <2>4. Marked(gone, FALSE, 0) \in Slot /\ Marked(gone, FALSE, 0).name = gone /\ gone \notin Name
    BY <2>1, MarkedSlot
  <2>. QED
    BY <2>1, <2>3, <2>4
<1>. HIDE DEF deleted
<1>9. PICK T2 \in Fat : /\ Leads(State(fat, disk), freed, State(T2, disk), safe)
                        /\ \A c \in Cluster : own[c] # p => T2[c] = fat[c]
  <2>1. CASE Ends(first)
    <3>1. Leads(State(fat, disk), <<>>, State(fat, disk), safe)
      BY <1>4, LeadsNone
    <3>. QED
      BY <1>6, <2>1, <3>1
  <2>2. CASE ~Ends(first)
    <3>. DEFINE cs == Chain(fat, first)
    <3>1. first \in Cluster /\ first # 0
      BY <2>2, Clusters DEF Ends
    <3>2. own[first] = p /\ pos[first] = 1
      BY <1>5, <1>6, <3>1 DEF EntryOK
    <3>. HIDE DEF first
    <3>3. OwnChain(cs, fat, own, pos, len, p)
      BY <1>2, <1>7, <3>1, <3>2, ChainOwned
    <3>4. cs \in Seq(Cluster) /\ \A i \in 1..Len(cs) : own[cs[i]] = p
      BY <3>3 DEF OwnChain
    <3>5. freed = [i \in 1..Len(cs) |-> PutFat(cs[i], FREE)]
      BY <2>2 DEF fat32_free_cluster_chain
    <3>. HIDE DEF cs, freed
    <3>6. Leads(State(fat, disk), freed, State(FreedTo(cs, Len(cs)), disk), safe)
      BY <1>4, <1>6, <3>4, <3>5, LeadsFreed
    <3>7. /\ FreedTo(cs, Len(cs)) \in Fat
          /\ \A c \in Cluster : own[c] # p => FreedTo(cs, Len(cs))[c] = fat[c]
      BY <1>6, <3>4 DEF FreedTo, Fat
    <3>. QED
      BY <3>6, <3>7
  <2>. QED
    BY <2>1, <2>2
<1>10. PICK D2 : After(State(T2, disk), w) = State(T2, D2) /\ SlotPut(disk, D2, p, deleted)
  BY <1>5, <1>6, <1>8, AfterEntry
<1>11. w \in Write
  BY <1>5, <1>6, <1>8, AfterEntry
<1>. DEFINE own2 == Without(own, p)
<1>12. /\ Tree(T2, D2, own2, pos, len)
       /\ \A q \in Place : /\ IsEntry(D2, own2, q) <=> q # p /\ IsEntry(disk, own, q) /\ own[q.cluster] # p
                           /\ q # p => EntryAt(D2, q) = EntryAt(disk, q)
  BY <1>2, <1>3, <1>8, <1>9, <1>10, TreeRemove
<1>. HIDE DEF freed, w, own2
<1>13. freed \in Seq(Write) /\ freed \o <<w>> = Append(freed, w)
  <2>1. freed \in Seq(Write)
    BY <1>9 DEF Leads
  <2>2. freed \o <<w>> \in Seq(Write) /\ Append(freed, w) \in Seq(Write)
    BY <1>11, <2>1
  <2>3. Len(freed \o <<w>>) = Len(Append(freed, w)) /\ \A i \in 1..Len(Append(freed, w)) : (freed \o <<w>>)[i] = Append(freed, w)[i]
    BY <1>11, <2>1
  <2>. QED
    BY <2>1, <2>2, <2>3, SeqEqual
<1>14. Leads(State(fat, disk), Append(freed, w), State(T2, D2), safe)
  BY <1>4, <1>9, <1>10, <1>11, LeadsAppend
<1>15. Nodes(node, D2, own2)
  <2>1. ASSUME NEW d \in Fd, node[d].is_open PROVE NodeOK(node[d], D2, own2)
    <3>1. PlaceOf(node[d]) # p /\ own[node[d].cluster] # p
      BY <1>1, <1>2, <1>3, <2>1, RemoveNodes
    <3>2. NodeOK(node[d], disk, own)
      BY <1>2, <2>1 DEF Nodes
    <3>3. PlaceOf(node[d]) \in Place /\ IsEntry(disk, own, PlaceOf(node[d])) /\ PlaceOf(node[d]).cluster = node[d].cluster
      BY <3>2 DEF NodeOK, IsEntry, PlaceOf
    <3>4. IsEntry(D2, own2, PlaceOf(node[d])) /\ EntryAt(D2, PlaceOf(node[d])) = EntryAt(disk, PlaceOf(node[d]))
      BY <1>12, <3>1, <3>3
    <3>. QED
      BY <3>2, <3>4, Zenon DEF NodeOK
  <2>. QED
    BY <1>2, <2>1, Zenon DEF Nodes
<1>. DEFINE plan == [fat |-> T2, todo |-> Append(freed, w), at |-> 0, done |-> 0]
<1>16. plan \in PlanType /\ plan.todo = Append(freed, w) /\ plan.fat = T2
  BY <1>11, <1>13 DEF PlanType
<1>. HIDE DEF plan
<1>17. Planned(plan, State(fat, disk), D2, own2, pos, len, safe)
  BY <1>12, <1>14, <1>16 DEF Planned
<1>18. Begin("remove", plan.todo) /\ Nodes(node', D2, own2)
  BY <1>1, <1>13, <1>15, <1>16
<1>. QED
  BY <1>17, <1>18, BeginInv DEF safe

\* A write that reaches the disk does.
LEMMA WriteSectorsKeeps ==
  ASSUME Orderly, IInv, ata_write_sectors
  PROVE  IInv'
<1>. DEFINE w == Head(todo)
<1>1. PICK T, D, own, pos, len :
        /\ Leads(State(fat, disk), todo, State(T, D), call \in CrashIn)
        /\ Tree(T, D, own, pos, len) /\ Nodes(node, D, own)
  BY DEF IInv
<1>2. /\ todo # <<>> /\ todo' = Tail(todo) /\ node' = node /\ (call' = "idle" \/ call' = call)
      /\ State(fat', disk') = After(State(fat, disk), w)
  <2>1. State(fat, disk).fat = fat /\ State(fat, disk).disk = disk
    BY DEF State
  <2>. DEFINE s == State(fat, disk)
  <2>2. fat' = (IF w.at = "fat" THEN [s.fat EXCEPT ![w.cluster] = w.next] ELSE s.fat)
    BY <2>1 DEF ata_write_sectors
  <2>3. disk' = CASE w.at = "fat" -> s.disk
                  [] w.at = "slots" ->
                       [s.disk EXCEPT ![w.cluster] =
                         [i \in Index |-> IF i \in DOMAIN w.slots THEN w.slots[i] ELSE @[i]]]
                  [] w.at = "first" -> [s.disk EXCEPT ![w.cluster][w.slot].first = w.value]
                  [] w.at = "size" -> [s.disk EXCEPT ![w.cluster][w.slot].size = w.value]
    BY <2>1 DEF ata_write_sectors
  <2>. HIDE DEF s
  <2>4. State(fat', disk') = After(s, w)
    BY <2>2, <2>3, Zenon DEF After
  <2>. QED
    BY <2>4 DEF ata_write_sectors, Idle, s
<1>3. call' \in CrashIn => call \in CrashIn
  BY <1>2 DEF Orderly
<1>4. Leads(State(fat', disk'), todo', State(T, D), call' \in CrashIn)
  <2>. DEFINE safe == call \in CrashIn
              less == call' \in CrashIn
  <2>1. Leads(State(fat, disk), todo, State(T, D), safe) /\ (less => safe)
    BY <1>1, <1>3
  <2>. HIDE DEF safe, less
  <2>2. Leads(After(State(fat, disk), w), Tail(todo), State(T, D), safe)
    BY <1>2, <2>1, LeadsTail
  <2>3. Leads(After(State(fat, disk), w), Tail(todo), State(T, D), less)
    BY <2>1, <2>2, LeadsWeaker
  <2>. QED
    BY <1>2, <2>3 DEF less
<1>. QED
  BY <1>1, <1>2, <1>4, Zenon DEF IInv

\* A power failure does.
LEMMA CrashKeeps ==
  ASSUME Orderly, IInv, Crash
  PROVE  IInv'
<1>1. PICK T, D, own, pos, len :
        /\ Leads(State(fat, disk), todo, State(T, D), call \in CrashIn)
        /\ Tree(T, D, own, pos, len) /\ Nodes(node, D, own)
  BY DEF IInv
<1>2. /\ call \in CrashIn /\ fat' = fat /\ disk' = disk /\ todo' = <<>> /\ call' = "idle"
      /\ node' = [d \in Fd |-> ClosedNode]
  BY DEF Crash
<1>3. Sound(State(fat, disk))
  <2>. DEFINE safe == call \in CrashIn
  <2>1. Leads(State(fat, disk), todo, State(T, D), safe) /\ safe
    BY <1>1, <1>2
  <2>. HIDE DEF safe
  <2>. QED
    BY <2>1, LeadsSound, Zenon
<1>4. PICK own2, pos2, len2 : Tree(fat, disk, own2, pos2, len2)
  BY <1>3 DEF Sound, State
<1>. DEFINE less == call' \in CrashIn
<1>5. Leads(State(fat, disk), <<>>, State(fat, disk), less)
  <2>. HIDE DEF less
  <2>. QED
    BY <1>3, LeadsNone
<1>6. Nodes(node', disk, own2)
  BY <1>2, NodesClosed
<1>. QED
  BY <1>2, <1>4, <1>5, <1>6, Zenon DEF IInv


\* The invariant holds at first.
LEMMA InitInv ==
  ASSUME Init
  PROVE  IInv
<1>. DEFINE own == [c \in Cluster |-> IF c = 2 THEN Root ELSE Nobody]
            pos == [c \in Cluster |-> IF c = 2 THEN 1 ELSE 0]
            len == [x \in Owner |-> IF x = Root THEN 1 ELSE 0]
<1>1. PICK f \in [1..Cardinality(Foreign) -> Foreign] :
        disk = [c \in Cluster |-> [i \in Index |->
                  IF c = 2 /\ i \in DOMAIN f THEN [Zero EXCEPT !.name = f[i]] ELSE Zero]]
  BY Zenon DEF Init
<1>2. /\ fat = [c \in Cluster |-> IF c = 2 THEN EOC ELSE FREE]
      /\ node = [d \in Fd |-> ClosedNode] /\ todo = <<>>
  BY DEF Init
<1>3. Zero \in Slot /\ Zero.name \notin Name \cup {"data"}
  <2>1. 0 \in Cluster \cup {0} /\ FALSE \in BOOLEAN
    OBVIOUS
  <2>2. Zero \in Slot
    BY <2>1, MarkedSlot, MarkNames, Zenon
  <2>. QED
    BY <2>2, ZeroSlots
<1>4. ASSUME NEW n \in Foreign
      PROVE  /\ [Zero EXCEPT !.name = n] \in Slot
             /\ [Zero EXCEPT !.name = n] = [name |-> n, dir |-> FALSE, first |-> 0, size |-> 0]
             /\ n # "data"
  <2>1. n \in Name
    BY Fat32Assumption
  <2>2. n # "data"
    BY <2>1, ZeroSlots
  <2>4. [Zero EXCEPT !.name = n] = [name |-> n, dir |-> FALSE, first |-> 0, size |-> 0]
    BY NamedZero, Zenon DEF Marked
  <2>5. [Zero EXCEPT !.name = n] \in Slot
    BY <1>3, <2>1 DEF Slot
  <2>. QED
    BY <2>2, <2>4, <2>5
<1>5. ASSUME NEW c \in Cluster, NEW i \in Index
      PROVE  /\ disk[c][i] \in Slot /\ disk[c][i].name # "data"
             /\ disk[c][i].name \in Name =>
                  /\ disk[c][i].name \in Foreign /\ ~disk[c][i].dir
                  /\ disk[c][i].first = 0 /\ disk[c][i].size = 0
  <2>1. CASE c = 2 /\ i \in DOMAIN f
    <3>1. f[i] \in Foreign /\ disk[c][i] = [Zero EXCEPT !.name = f[i]]
      BY <1>1, <2>1
    <3>2. /\ disk[c][i] \in Slot /\ f[i] # "data"
          /\ disk[c][i] = [name |-> f[i], dir |-> FALSE, first |-> 0, size |-> 0]
      BY <1>4, <3>1
    <3>. QED
      BY <3>1, <3>2
  <2>2. CASE ~(c = 2 /\ i \in DOMAIN f)
    <3>1. disk[c][i] = Zero
      BY <1>1, <2>2
    <3>. QED
      BY <1>3, <3>1
  <2>. QED
    BY <2>1, <2>2
<1>6. disk \in Disk
  <2>1. \A c \in Cluster : disk[c] = [i \in Index |-> disk[c][i]]
    BY <1>1
  <2>2. \A c \in Cluster : disk[c] \in Slots
    BY <1>5, <2>1 DEF Slots
  <2>3. disk = [c \in Cluster |-> disk[c]]
    BY <1>1
  <2>. QED
    BY <2>2, <2>3 DEF Disk
<1>7. Root # Nobody /\ Root \in Owner /\ Nobody \in Owner
  BY DEF Root, Nobody, Owner
<1>8. /\ own \in [Cluster -> Owner] /\ \A c \in Cluster : own[c] = IF c = 2 THEN Root ELSE Nobody
      /\ pos \in [Cluster -> Nat] /\ \A c \in Cluster : pos[c] = IF c = 2 THEN 1 ELSE 0
      /\ len \in [Owner -> Nat] /\ \A x \in Owner : len[x] = IF x = Root THEN 1 ELSE 0
  BY <1>7
<1>. HIDE DEF own, pos, len
<1>9. Typed(fat, disk, own, pos, len)
  <2>1. fat \in Fat
    BY <1>2 DEF Fat
  <2>. QED
    BY <1>6, <1>8, <2>1 DEF Typed
<1>10. ASSUME NEW c \in Cluster, own[c] # Nobody PROVE LinkOK(fat, own, pos, len, c) /\ c = 2
  <2>1. c = 2 /\ own[c] = Root /\ pos[c] = 1 /\ len[Root] = 1 /\ fat[c] = EOC
    BY <1>2, <1>7, <1>8, <1>10
  <2>. QED
    BY <2>1 DEF LinkOK
<1>11. ASSUME NEW p \in Place, IsEntry(disk, own, p) PROVE EntryOK(disk, own, pos, len, p)
  <2>1. p.cluster \in Cluster /\ p.slot \in Index /\ p \in Owner /\ p # Root
    BY Clusters DEF Place, Owner, Root
  <2>2. EntryAt(disk, p).name \in Name
    BY <1>11 DEF IsEntry
  <2>3. /\ EntryAt(disk, p).name \in Foreign /\ ~EntryAt(disk, p).dir
        /\ EntryAt(disk, p).first = 0 /\ EntryAt(disk, p).size = 0
    BY <1>5, <2>1, <2>2 DEF EntryAt
  <2>4. len[p] = 0
    BY <1>8, <2>1
  <2>. QED
    BY <2>3, <2>4, Clusters DEF EntryOK
<1>12. ASSUME NEW c \in Cluster, NEW i \in Index PROVE disk[c][i].name # "data"
  BY <1>5
<1>13. own[2] = Root /\ pos[2] = 1
  BY <1>8, Clusters
<1>14. Tree(fat, disk, own, pos, len)
  <2>1. \A c \in Cluster : own[c] \in {Root, Nobody}
    BY <1>8
  <2>2. \A c, d \in Cluster : own[c] # Nobody /\ own[c] = own[d] /\ pos[c] = pos[d] => c = d
    BY <1>10
  <2>3. \A c \in Cluster : own[c] # Nobody => LinkOK(fat, own, pos, len, c)
    BY <1>10
  <2>4. \A p \in Place : IsEntry(disk, own, p) => EntryOK(disk, own, pos, len, p)
    BY <1>11
  <2>. QED
    BY <1>9, <1>12, <1>13, <2>1, <2>2, <2>3, <2>4, Zenon DEF Tree
<1>. DEFINE safe == call \in CrashIn
<1>15. Leads(State(fat, disk), <<>>, State(fat, disk), safe)
  <2>1. Sound(State(fat, disk))
    BY <1>14, Zenon DEF Sound, State
  <2>. HIDE DEF safe
  <2>. QED
    BY <2>1, LeadsNone
<1>16. Nodes(node, disk, own)
  BY <1>2, NodesClosed
<1>. QED
  BY <1>2, <1>14, <1>15, <1>16, Zenon DEF IInv

\* Every step keeps it.
LEMMA NextInv ==
  ASSUME Orderly, IInv, [Next]_vars
  PROVE  IInv'
<1>1. ASSUME NEW path \in Paths, NEW trunc \in BOOLEAN, open_existing(path, trunc) PROVE IInv'
  BY <1>1, OpenExistingKeeps
<1>2. ASSUME NEW path \in Paths, open_new(path) PROVE IInv'
  BY <1>2, OpenNewKeeps
<1>3. ASSUME NEW d \in Fd, vfs_close(d) PROVE IInv'
  BY <1>3, CloseKeeps
<1>4. ASSUME NEW d \in Fd, NEW offset \in 0..MaxSize, NEW len \in 1..MaxWrite, vfs_write(d, offset, len)
      PROVE  IInv'
  BY <1>4, WriteKeeps
<1>5. ASSUME NEW path \in DirPaths, vfs_mkdir(path) PROVE IInv'
  <2>1. path \in Paths
    BY Fat32Assumption
  <2>. QED
    BY <1>5, <2>1, MkdirKeeps
<1>6. ASSUME NEW path \in Paths, vfs_remove(path) PROVE IInv'
  BY <1>6, RemoveKeeps
<1>7. CASE ata_write_sectors
  BY <1>7, WriteSectorsKeeps
<1>8. CASE Crash
  BY <1>8, CrashKeeps
<1>9. CASE UNCHANGED vars
  <2>1. fat' = fat /\ disk' = disk /\ node' = node /\ todo' = todo /\ call' = call
    BY <1>9 DEF vars
  <2>. QED
    BY <2>1, Zenon DEF IInv
<1>. QED
  BY <1>1, <1>2, <1>3, <1>4, <1>5, <1>6, <1>7, <1>8, <1>9, Zenon DEF Next

-----------------------------------------------------------------------------
(* What the invariant says of the disk between calls.                      *)

\* A file without clusters has no chain.
LEMMA NoChain ==
  ASSUME NEW T
  PROVE  Chain(T, 0) = <<>>
<1>. DEFINE w == Walk(T, 0)
            S == {k \in Nat : k <= LastCluster => w[k] = <<>>}
<1>1. IsWalk(T, 0, w, LastCluster)
  BY WalkIs
<1>. HIDE DEF w
<1>2. \A k \in 0..LastCluster : w[k] = IF k = 0 THEN <<>> ELSE Onward(T, w[k - 1])
  BY <1>1, Clusters DEF IsWalk, Ends
<1>3. 0 \in S
  BY <1>2, Clusters
<1>4. ASSUME NEW k \in 0..(LastCluster - 1), k \in S PROVE k + 1 \in S
  <2>1. k + 1 \in 0..LastCluster /\ k + 1 # 0 /\ (k + 1) - 1 = k /\ w[k] = <<>>
    BY <1>4, Clusters
  <2>2. w[k + 1] = Onward(T, <<>>)
    BY <1>2, <2>1
  <2>. QED
    BY <2>1, <2>2 DEF Onward
<1>. HIDE DEF S
<1>5. LastCluster \in S
  BY <1>3, <1>4, UpTo, Clusters
<1>. QED
  BY <1>5 DEF S, w, Chain

\* What a searched directory lists are entries.
LEMMA ListedAre ==
  ASSUME NEW own, NEW pos, NEW len, Tree(fat, disk, own, pos, len),
         NEW c \in Cluster, DirOwner(disk, own, own[c]), pos[c] = 1, NEW p \in Listed(c)
  PROVE  IsEntry(disk, own, p) /\ own[p.cluster] = own[c]
<1>1. own[c] # Nobody
  BY NobodyNoDir
<1>2. PlacesOf(c, own)
  BY <1>1, PlacesOwned
<1>3. PICK k \in Visible(c) : p = Places(c)[k] /\ At(p).name \notin {"E5", ".", ".."}
  BY Zenon DEF Listed
<1>4. k \in 1..Len(Places(c)) /\ \A j \in 1..k : At(Places(c)[j]).name # ""
  BY Zenon DEF Visible
<1>5. p \in Place /\ own[p.cluster] = own[c] /\ k \in 1..k
  <2>1. p = Places(c)[k] /\ k \in 1..Len(Places(c))
    BY <1>3, <1>4, Zenon
  <2>2. Len(Places(c)) \in Nat
    BY <1>2 DEF PlacesOf
  <2>. QED
    BY <1>2, <2>1, <2>2 DEF PlacesOf
<1>6. At(p).name # ""
  BY <1>3, <1>4, <1>5, Zenon
<1>7. disk \in Disk /\ p.cluster \in Cluster /\ p.slot \in Index
  BY <1>5 DEF Tree, Typed, Place
<1>8. At(p) \in Slot /\ At(p) = EntryAt(disk, p)
  BY <1>7 DEF At, EntryAt, Disk, Slots
<1>9. At(p).name \in Name \cup Marks
  BY <1>8 DEF Slot
<1>10. DirOwner(disk, own, own[p.cluster])
  BY <1>5
<1>11. At(p).name # "data"
  <2>1. disk[p.cluster][p.slot].name # "data"
    BY <1>7, <1>10 DEF Tree
  <2>. QED
    BY <2>1 DEF At
<1>12. At(p).name \in Name
  BY <1>3, <1>6, <1>9, <1>11, Zenon DEF Marks
<1>. QED
  BY <1>5, <1>8, <1>10, <1>12, Zenon DEF IsEntry

\* The entries a path can lead to.
LEMMA EntriesAre ==
  ASSUME NEW own, NEW pos, NEW len, Tree(fat, disk, own, pos, len), NEW p \in Entries
  PROVE  IsEntry(disk, own, p)
<1>1. 2 \in Cluster /\ own[2] = Root /\ pos[2] = 1 /\ DirOwner(disk, own, own[2])
  BY Clusters DEF Tree, DirOwner
<1>2. CASE p \in Listed(2)
  BY <1>1, <1>2, ListedAre
<1>3. CASE p \notin Listed(2)
  <2>1. PICK q \in Listed(2) : At(q).dir /\ p \in Listed(At(q).first)
    BY <1>3, Zenon DEF Entries
  <2>2. IsEntry(disk, own, q) /\ own[q.cluster] = Root
    BY <1>1, <2>1, ListedAre
  <2>3. q \in Place /\ At(q) = EntryAt(disk, q) /\ At(q) \in Slot
    BY <2>2, EntryFields
  <2>4. EntryOK(disk, own, pos, len, q) /\ EntryAt(disk, q).name \in Name
    BY <2>2, <2>3 DEF Tree, IsEntry
  <2>5. At(q).first \in Cluster /\ own[At(q).first] = q /\ pos[At(q).first] = 1
    BY <2>1, <2>3, <2>4 DEF EntryOK, Slot
  <2>6. DirOwner(disk, own, q)
    BY <2>1, <2>2, <2>3, <2>4, Zenon DEF DirOwner, InRoot
  <2>7. DirOwner(disk, own, own[At(q).first])
    BY <2>5, <2>6
  <2>. QED
    BY <2>1, <2>5, <2>7, ListedAre
<1>. QED
  BY <1>2, <1>3

\* The chain of an entry is what it owns; one without a cluster is empty.
EntryChain(p, own, pos, len) ==
  \/ OwnChain(ChainOf(p), fat, own, pos, len, p)
  \/ ChainOf(p) = <<>> /\ len[p] = 0

\* An entry's chain ends, and is its own.
LEMMA EntryChains ==
  ASSUME NEW own, NEW pos, NEW len, Tree(fat, disk, own, pos, len), NEW p, IsEntry(disk, own, p)
  PROVE  EntryChain(p, own, pos, len) /\ p # Root /\ p # Nobody
<1>1. p \in Place /\ At(p) = EntryAt(disk, p) /\ At(p) \in Slot
  BY EntryFields
<1>2. EntryOK(disk, own, pos, len, p)
  BY <1>1 DEF Tree
<1>3. p # Root /\ p # Nobody
  BY <1>1, Clusters DEF Place, Root, Nobody
<1>4. CASE At(p).first = 0
  <2>1. ChainOf(p) = <<>> /\ len[p] = 0
    BY <1>1, <1>2, <1>4, NoChain DEF ChainOf, EntryOK
  <2>. QED
    BY <1>3, <2>1 DEF EntryChain
<1>5. CASE At(p).first # 0
  <2>1. At(p).first \in Cluster /\ own[At(p).first] = p /\ pos[At(p).first] = 1
    BY <1>1, <1>2, <1>5 DEF EntryOK, Slot
  <2>2. OwnChain(ChainOf(p), fat, own, pos, len, p)
    BY <1>3, <2>1, ChainOwned DEF ChainOf
  <2>. QED
    BY <1>3, <2>2 DEF EntryChain
<1>. QED
  BY <1>4, <1>5


-----------------------------------------------------------------------------
(* The theorems.                                                           *)

\* With the calls the code is sound for, every state is on the way from one tree
\* of files to the next: the writes that a call still has to make lead there, and
\* where the power may fail in that call, each of them leaves a tree behind.
THEOREM Fat32Invariant ==
  ASSUME Orderly PROVE Spec => []IInv
<1>1. Init => IInv
  BY InitInv
<1>2. IInv /\ [Next]_vars => IInv'
  BY NextInv
<1>. QED
  BY <1>1, <1>2, PTL DEF Spec

\* The clusters of an entry are the ones it owns.
LEMMA EntryOwns ==
  ASSUME NEW own, NEW pos, NEW len, Tree(fat, disk, own, pos, len), NEW p \in Entries
  PROVE  \A c \in On(ChainOf(p)) : own[c] = p
<1>1. EntryChain(p, own, pos, len)
  BY EntriesAre, EntryChains
<1>2. CASE ChainOf(p) = <<>>
  BY <1>2 DEF On
<1>3. CASE OwnChain(ChainOf(p), fat, own, pos, len, p)
  BY <1>3 DEF OwnChain, On
<1>. QED
  BY <1>1, <1>2, <1>3 DEF EntryChain

\* In a tree the chains lie apart: each is of the clusters of one owner.
LEMMA TreeApart ==
  ASSUME NEW own, NEW pos, NEW len, Tree(fat, disk, own, pos, len)
  PROVE  ChainsApart
<1>1. ASSUME NEW p \in Entries, ChainOf(p) # <<>>
      PROVE  Len(ChainOf(p)) < LastCluster /\ fat[Last(ChainOf(p))] = EOC
  <2>1. OwnChain(ChainOf(p), fat, own, pos, len, p)
    BY <1>1, EntriesAre, EntryChains DEF EntryChain
  <2>. QED
    BY <2>1, Clusters DEF OwnChain
<1>2. \A c \in On(Chain(fat, 2)) : own[c] = Root
  <2>1. 2 \in Cluster /\ own[2] = Root /\ pos[2] = 1 /\ Root # Nobody
    BY Clusters DEF Tree, Root, Nobody
  <2>2. OwnChain(Chain(fat, 2), fat, own, pos, len, Root)
    BY <2>1, ChainOwned
  <2>. QED
    BY <2>2 DEF OwnChain, On
<1>3. ASSUME NEW p \in Entries PROVE On(ChainOf(p)) \cap On(Chain(fat, 2)) = {}
  <2>1. p # Root
    BY EntriesAre, EntryChains
  <2>. QED
    BY <1>2, <2>1, EntryOwns
<1>4. ASSUME NEW p \in Entries, NEW q \in Entries, p # q
      PROVE  On(ChainOf(p)) \cap On(ChainOf(q)) = {}
  BY <1>4, EntryOwns
<1>. QED
  BY <1>1, <1>3, <1>4, Zenon DEF ChainsApart

\* In a tree every size is within its chain.
LEMMA TreeBacks ==
  ASSUME NEW own, NEW pos, NEW len, Tree(fat, disk, own, pos, len)
  PROVE  SizeBacked
<1>1. ASSUME NEW p \in Entries PROVE At(p).size <= PerCluster * Len(ChainOf(p))
  <2>1. IsEntry(disk, own, p) /\ EntryChain(p, own, pos, len)
    BY EntriesAre, EntryChains
  <2>2. p \in Place /\ At(p) = EntryAt(disk, p)
    BY <2>1, EntryFields
  <2>3. At(p).size <= PerCluster * len[p]
    BY <2>1, <2>2 DEF Tree, EntryOK
  <2>4. Len(ChainOf(p)) = len[p]
    BY <2>1 DEF EntryChain, OwnChain
  <2>. QED
    BY <2>3, <2>4
<1>. QED
  BY <1>1 DEF SizeBacked

\* In a tree the directories list entries only.
LEMMA TreeClean ==
  ASSUME NEW own, NEW pos, NEW len, Tree(fat, disk, own, pos, len)
  PROVE  DirectoriesClean
<1>1. ASSUME NEW p \in Entries PROVE At(p).name # "data"
  <2>1. IsEntry(disk, own, p)
    BY EntriesAre
  <2>2. At(p).name \in Name
    BY <2>1, EntryFields DEF IsEntry
  <2>. QED
    BY <2>2, ZeroSlots
<1>. QED
  BY <1>1 DEF DirectoriesClean

\* Whatever sequence of opens, writes, closes, mkdirs and removes is made, and
\* wherever the power fails in an open, a write or a mkdir, no cluster is ever in
\* two chains, in one chain twice, or in a chain and free: no file and no directory
\* reads or overwrites what belongs to another (fat32_allocate_cluster,
\* fat32_free_cluster_chain, and the calls that link what they return).
THEOREM ChainsStayApart ==
  ASSUME Orderly PROVE Spec => []ChainsApart
<1>1. ASSUME IInv PROVE ChainsApart
  <2>1. CASE Idle
    BY <1>1, <2>1, IdleTree, TreeApart
  <2>2. CASE ~Idle
    BY <2>2 DEF ChainsApart
  <2>. QED
    BY <2>1, <2>2
<1>2. IInv => ChainsApart
  BY <1>1
<1>. QED
  BY <1>2, Fat32Invariant, PTL

\* Under the same calls and power failures no entry ever has a size that its chain
\* does not back: fat32_vnode_write puts the size last, and remove, close and crash
\* take no cluster from an entry that keeps its size.
THEOREM SizesStayBacked ==
  ASSUME Orderly PROVE Spec => []SizeBacked
<1>1. ASSUME IInv PROVE SizeBacked
  <2>1. CASE Idle
    BY <1>1, <2>1, IdleTree, TreeBacks
  <2>2. CASE ~Idle
    BY <2>2 DEF SizeBacked
  <2>. QED
    BY <2>1, <2>2
<1>2. IInv => SizeBacked
  BY <1>1
<1>. QED
  BY <1>2, Fat32Invariant, PTL

\* Under the same calls and power failures no directory ever lists what a file has
\* left in a cluster: fat32_allocate_cluster clears what it returns before
\* fat32_vnode_create puts an entry for it, and a cluster goes back to the table
\* only when nothing lists it any more.
THEOREM DirectoriesStayClean ==
  ASSUME Orderly PROVE Spec => []DirectoriesClean
<1>1. ASSUME IInv PROVE DirectoriesClean
  <2>1. CASE Idle
    BY <1>1, <2>1, IdleTree, TreeClean
  <2>2. CASE ~Idle
    BY <2>2 DEF DirectoriesClean
  <2>. QED
    BY <2>1, <2>2
<1>2. IInv => DirectoriesClean
  BY <1>1
<1>. QED
  BY <1>2, Fat32Invariant, PTL

=============================================================================
