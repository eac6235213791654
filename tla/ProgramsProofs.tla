--------------------------- MODULE ProgramsProofs ---------------------------
(***************************************************************************)
(* Proofs about what programs have: frames, heap blocks and mappings never *)
(* overlap, and the counters are those of what is in use (Memory); numbers *)
(* lead to what they were given for (Calls); programs that start programs   *)
(* find their image, their stack and their way back (Loading); paths and   *)
(* names lead where they should, whatever is mounted (Volumes); and what   *)
(* the compiler leaves prints what its source says (Compiler).             *)
(***************************************************************************)
EXTENDS Memory, Calls, Loading, Volumes, Compiler, FiniteSetTheorems, SequenceTheorems,
        NaturalsInduction, WellFoundedInduction, TLAPS

-----------------------------------------------------------------------------
(* Memory.  The invariant has one part for each allocator.                 *)

Kernel == 0..(FirstFree - 1)

\* Frames: what is marked is the kernel's or is owned.
FramesInv ==
  /\ frame_bitmap \in SUBSET AllFrames /\ Kernel \subseteq frame_bitmap
  /\ owned \in Seq(AllFrames)
  /\ FramesOwned

Block == [start : Nat, size : Nat, is_allocated : BOOLEAN, wanted : Nat]

PayloadOf(b) == IF b.is_allocated THEN b.size - Overhead ELSE 0

\* What the blocks up to each one hold, added to the bytes counted first.
Tally(bs, f) ==
  /\ f \in [0..Len(bs) -> Nat] /\ f[0] = FirstBytes
  /\ \A i \in 1..Len(bs) : f[i] = f[i - 1] + PayloadOf(bs[i])
  /\ \A i, j \in 0..Len(bs) : i <= j => f[i] <= f[j]

\* Blocks that follow one another at aligned places up to the offset, and
\* counters that agree with them.
Apart(bs, offset) ==
  \A i \in 1..Len(bs) :
    LET end == IF i = Len(bs) THEN offset ELSE bs[i + 1].start
    IN  /\ bs[i].start + bs[i].size <= end /\ end < HEAP_INIT_SIZE
        /\ bs[i].start % Align = 0 /\ bs[i].wanted + Overhead <= bs[i].size

\* The places of blocks in use.
InUse(bs) == {i \in DOMAIN bs : bs[i].is_allocated}

\* The heap: every byte counted is in a block, and what is free is no less than
\* what is left behind the last one.
Heap(bs, offset, bytes, count, free) ==
  /\ bs \in Seq(Block) /\ offset \in Nat /\ offset % Align = 0
  /\ bytes \in Nat /\ count \in Nat /\ free \in Int
  /\ free >= HEAP_INIT_SIZE - offset
  /\ \E f : Tally(bs, f) /\ f[Len(bs)] = bytes
  /\ Apart(bs, offset)
  /\ count = FirstBlocks + Cardinality(InUse(bs))
  /\ bytes + free + Cardinality(InUse(bs)) * Overhead = HEAP_INIT_SIZE

HeapInv ==
  Heap(blocks, dynamic_offset, allocated_bytes_count, allocated_blocks_count, free_bytes_count)

Program == [brk : Nat, disturbed : BOOLEAN]
Map == [start : Nat, length : Nat]

\* Programs: only the last one can still rely on the break, and every mapping
\* ends below the address the next one gets.
ProgramsInv ==
  /\ current_process_brk \in Nat /\ current_mmap_vaddr \in Nat
  /\ programs \in Seq(Program) /\ maps \in Seq(Map)
  /\ \A i \in 1..(Len(programs) - 1) : programs[i].disturbed
  /\ \A i \in 1..Len(maps) : maps[i].start + maps[i].length <= current_mmap_vaddr
  /\ BreakOwn /\ MapsApart

-----------------------------------------------------------------------------
(* Rounding.                                                               *)

\* The constants, one fact for each use.
LEMMA Constants ==
  /\ TOTAL_FRAMES \in Nat /\ FirstFree \in Nat \ {0} /\ FirstFree <= TOTAL_FRAMES
  /\ Align \in Nat \ {0} /\ Overhead \in Nat /\ Overhead % Align = 0
  /\ HEAP_INIT_SIZE \in Nat /\ FirstOffset \in Nat /\ FirstOffset % Align = 0
  /\ FirstBytes \in Nat /\ FirstBytes <= FirstOffset /\ FirstBlocks \in Nat
  /\ Sizes \subseteq Nat /\ Lengths \subseteq Nat
  /\ PAGE_SIZE \in Nat \ {0} /\ FirstBrk \in Nat
  BY MemoryAssumption

\* A product with a number from 1 on is no less than the other factor.
LEMMA ProductBound ==
  ASSUME NEW m \in Nat \ {0}, NEW k \in Int, k >= 1
  PROVE  m * k >= m
  OBVIOUS

\* What % and \div say of each other.
LEMMA Division ==
  ASSUME NEW a \in Nat, NEW m \in Nat \ {0}
  PROVE  /\ a \div m \in Nat /\ a % m \in 0..(m - 1)
         /\ a = m * (a \div m) + (a % m)
  OBVIOUS

\* A multiple leaves no remainder.
LEMMA MultipleMod ==
  ASSUME NEW m \in Nat \ {0}, NEW q \in Nat
  PROVE  (m * q) \in Nat /\ (m * q) % m = 0
<1>. DEFINE x == m * q
            d == x \div m
            rest == x % m
<1>1. x \in Nat
  OBVIOUS
<1>2. d \in Nat /\ rest \in 0..(m - 1) /\ x = m * d + rest
  <2>. HIDE DEF x
  <2>. QED
    BY <1>1, Division
<1>3. m * (q - d) = rest
  BY <1>2
<1>4. CASE q - d >= 1
  <2>1. m * (q - d) >= m
    <3>. DEFINE k == q - d
    <3>1. k \in Int /\ k >= 1
      BY <1>2, <1>4
    <3>. HIDE DEF k
    <3>. QED
      BY <3>1, ProductBound DEF k
  <2>. QED
    BY <2>1, <1>2, <1>3
<1>5. CASE d - q >= 1
  <2>1. m * (d - q) >= m
    <3>. DEFINE k == d - q
    <3>1. k \in Int /\ k >= 1
      BY <1>2, <1>5
    <3>. HIDE DEF k
    <3>. QED
      BY <3>1, ProductBound DEF k
  <2>2. m * (d - q) = -(m * (q - d))
    BY <1>2
  <2>. QED
    BY <2>1, <2>2, <1>2, <1>3
<1>6. CASE q = d
  BY <1>2, <1>3, <1>6
<1>. QED
  BY <1>1, <1>2, <1>4, <1>5, <1>6

\* Multiples of the same number add up to one.
LEMMA SumMod ==
  ASSUME NEW m \in Nat \ {0}, NEW a \in Nat, NEW b \in Nat, a % m = 0, b % m = 0
  PROVE  (a + b) % m = 0
<1>. DEFINE p == a \div m
            q == b \div m
<1>1. p \in Nat /\ q \in Nat /\ a = m * p /\ b = m * q
  BY Division
<1>. HIDE DEF p, q
<1>2. a + b = m * (p + q) /\ p + q \in Nat
  BY <1>1
<1>. QED
  BY <1>2, MultipleMod

\* RoundUp gives a multiple that is no less.
LEMMA RoundUpFits ==
  ASSUME NEW n \in Nat, NEW m \in Nat \ {0}
  PROVE  RoundUp(n, m) \in Nat /\ RoundUp(n, m) >= n /\ RoundUp(n, m) % m = 0
<1>. DEFINE x == n + m - 1
            d == x \div m
<1>1. x \in Nat
  OBVIOUS
<1>2. d \in Nat /\ x % m \in 0..(m - 1) /\ x = m * d + (x % m)
  <2>. HIDE DEF x
  <2>. QED
    BY <1>1, Division
<1>3. RoundUp(n, m) = m * d
  BY <1>2 DEF RoundUp
<1>. HIDE DEF d
<1>4. m * d >= n
  BY <1>2
<1>. QED
  BY <1>2, <1>3, <1>4, MultipleMod

-----------------------------------------------------------------------------
(* Frames.                                                                 *)

\* A non-empty set of frames has a lowest one.
LEMMA MinIn ==
  ASSUME NEW S \in SUBSET Nat, S # {}
  PROVE  Min(S) \in S
<1>. DEFINE R == {ss \in Nat \X Nat : ss[1] < ss[2]}
<1>1. IsWellFoundedOn(R, Nat)
  BY NatLessThanWellFounded, Zenon DEF OpToRel
<1>2. PICK x \in S : \A y \in S : <<y, x>> \notin R
  <2>. HIDE DEF R
  <2>. QED
    BY <1>1, WFMin
<1>3. \A y \in S : x <= y
  <2>. TAKE y \in S
  <2>1. <<y, x>> \in Nat \X Nat /\ ~(y < x)
    BY <1>2
  <2>. QED
    BY <2>1
<1>. QED
  BY <1>3 DEF Min

\* Sets of frames are finite.
LEMMA FramesFinite ==
  ASSUME NEW S \in SUBSET AllFrames
  PROVE  IsFiniteSet(S) /\ Cardinality(S) \in Nat /\ S \in SUBSET Nat
<1>1. AllFrames \subseteq Nat /\ IsFiniteSet(AllFrames)
  BY Constants, FS_Interval DEF AllFrames
<1>2. IsFiniteSet(S)
  BY <1>1, FS_Subset
<1>. QED
  BY <1>1, <1>2, FS_CardinalityType

\* Owning more frames, each once and none owned before.
LEMMA MoreOwned ==
  ASSUME NEW s \in Seq(AllFrames), NEW t \in Seq(AllFrames), IsInjective(s), IsInjective(t),
         Range(s) \cap Range(t) = {}
  PROVE  /\ s \o t \in Seq(AllFrames) /\ IsInjective(s \o t)
         /\ Range(s \o t) = Range(s) \cup Range(t)
<1>. DEFINE u == s \o t
<1>1. /\ u \in Seq(AllFrames) /\ Len(u) = Len(s) + Len(t)
      /\ \A i \in 1..(Len(s) + Len(t)) : u[i] = IF i <= Len(s) THEN s[i] ELSE t[i - Len(s)]
  BY ConcatProperties
<1>2. /\ Len(s) \in Nat /\ Len(t) \in Nat /\ DOMAIN s = 1..Len(s) /\ DOMAIN t = 1..Len(t)
      /\ DOMAIN u = 1..(Len(s) + Len(t))
  BY <1>1
<1>. HIDE DEF u
<1>3. \A i \in DOMAIN u : \/ i \in DOMAIN s /\ u[i] = s[i]
                          \/ i - Len(s) \in DOMAIN t /\ u[i] = t[i - Len(s)] /\ i > Len(s)
  BY <1>1, <1>2
<1>4. /\ \A i \in DOMAIN s : i \in DOMAIN u /\ u[i] = s[i]
      /\ \A i \in DOMAIN t : i + Len(s) \in DOMAIN u /\ u[i + Len(s)] = t[i]
  <2>1. \A i \in DOMAIN s : i \in DOMAIN u /\ u[i] = s[i]
    BY <1>1, <1>2
  <2>2. ASSUME NEW i \in DOMAIN t PROVE i + Len(s) \in DOMAIN u /\ u[i + Len(s)] = t[i]
    <3>1. i + Len(s) \in 1..(Len(s) + Len(t)) /\ ~(i + Len(s) <= Len(s)) /\ i + Len(s) - Len(s) = i
      BY <1>2
    <3>. QED
      BY <3>1, <1>1, <1>2
  <2>. QED
    BY <2>1, <2>2
<1>5. Range(u) = Range(s) \cup Range(t)
  <2>1. Range(u) \subseteq Range(s) \cup Range(t)
    BY <1>3 DEF Range
  <2>2. Range(s) \subseteq Range(u) /\ Range(t) \subseteq Range(u)
    BY <1>4 DEF Range
  <2>. QED
    BY <2>1, <2>2
<1>6. ASSUME NEW i \in DOMAIN u, NEW j \in DOMAIN u, u[i] = u[j] PROVE i = j
  <2>1. CASE i \in DOMAIN s /\ u[i] = s[i] /\ j \in DOMAIN s /\ u[j] = s[j]
    BY <2>1, <1>6 DEF IsInjective
  <2>2. CASE i - Len(s) \in DOMAIN t /\ u[i] = t[i - Len(s)]
             /\ j - Len(s) \in DOMAIN t /\ u[j] = t[j - Len(s)]
    <3>1. i - Len(s) = j - Len(s)
      BY <2>2, <1>6 DEF IsInjective
    <3>. QED
      BY <3>1, <1>2
  <2>3. CASE i \in DOMAIN s /\ u[i] = s[i] /\ j - Len(s) \in DOMAIN t /\ u[j] = t[j - Len(s)]
    BY <2>3, <1>6 DEF Range
  <2>4. CASE j \in DOMAIN s /\ u[j] = s[j] /\ i - Len(s) \in DOMAIN t /\ u[i] = t[i - Len(s)]
    BY <2>4, <1>6 DEF Range
  <2>. QED
    BY <2>1, <2>2, <2>3, <2>4, <1>3
<1>. QED
  BY <1>1, <1>5, <1>6 DEF u, IsInjective

\* Giving back the i-th.
LEMMA LessOwned ==
  ASSUME NEW s \in Seq(AllFrames), IsInjective(s), NEW i \in DOMAIN s
  PROVE  /\ RemoveAt(s, i) \in Seq(AllFrames) /\ IsInjective(RemoveAt(s, i))
         /\ Range(RemoveAt(s, i)) = Range(s) \ {s[i]}
<1>. DEFINE a == SubSeq(s, 1, i - 1)
            b == SubSeq(s, i + 1, Len(s))
<1>1. DOMAIN s = 1..Len(s) /\ Len(s) \in Nat /\ i \in 1..Len(s)
  OBVIOUS
<1>2. /\ a \in Seq(AllFrames) /\ Len(a) = i - 1 /\ DOMAIN a = 1..(i - 1)
      /\ \A k \in 1..(i - 1) : a[k] = s[k]
  BY <1>1
<1>3. /\ b \in Seq(AllFrames) /\ Len(b) = Len(s) - i /\ DOMAIN b = 1..(Len(s) - i)
      /\ \A k \in 1..(Len(s) - i) : b[k] = s[i + k]
  <2>1. \A k \in (i + 1)..Len(s) : s[k] \in AllFrames
    BY <1>1
  <2>2. /\ b \in Seq(AllFrames) /\ Len(b) = IF i + 1 <= Len(s) THEN Len(s) - (i + 1) + 1 ELSE 0
        /\ \A k \in 1..(Len(s) - (i + 1) + 1) : b[k] = s[(i + 1) + k - 1]
    BY <2>1, <1>1, SubSeqProperties
  <2>. HIDE DEF b
  <2>3. Len(b) = Len(s) - i /\ Len(s) - (i + 1) + 1 = Len(s) - i
    BY <2>2, <1>1
  <2>4. \A k \in 1..(Len(s) - i) : (i + 1) + k - 1 = i + k
    BY <1>1
  <2>. QED
    BY <2>2, <2>3, <2>4
<1>. HIDE DEF a, b
<1>4. IsInjective(a) /\ IsInjective(b)
  <2>1. IsInjective(a)
    BY <1>1, <1>2 DEF IsInjective
  <2>2. ASSUME NEW k \in DOMAIN b, NEW l \in DOMAIN b, b[k] = b[l] PROVE k = l
    <3>1. i + k \in DOMAIN s /\ i + l \in DOMAIN s /\ s[i + k] = s[i + l]
      BY <1>1, <1>3, <2>2
    <3>2. i + k = i + l
      BY <3>1 DEF IsInjective
    <3>. QED
      BY <3>2, <1>1, <1>3
  <2>. QED
    BY <2>1, <2>2 DEF IsInjective
<1>5. Range(a) \cap Range(b) = {}
  <2>1. ASSUME NEW k \in DOMAIN a, NEW l \in DOMAIN b, a[k] = b[l] PROVE FALSE
    <3>1. k \in 1..(i - 1) /\ l \in 1..(Len(s) - i)
      BY <1>2, <1>3
    <3>2. a[k] = s[k] /\ b[l] = s[i + l]
      BY <3>1, <1>2, <1>3
    <3>3. k \in DOMAIN s /\ i + l \in DOMAIN s /\ k # i + l
      BY <3>1, <1>1
    <3>. QED
      BY <2>1, <3>2, <3>3 DEF IsInjective
  <2>. QED
    BY <2>1 DEF Range
<1>6. Range(a) \cup Range(b) = Range(s) \ {s[i]}
  <2>1. ASSUME NEW k \in DOMAIN a PROVE a[k] \in Range(s) \ {s[i]}
    <3>1. k \in DOMAIN s /\ a[k] = s[k] /\ k # i
      BY <1>1, <1>2, <2>1
    <3>. QED
      BY <3>1, <1>1 DEF IsInjective, Range
  <2>2. ASSUME NEW k \in DOMAIN b PROVE b[k] \in Range(s) \ {s[i]}
    <3>1. i + k \in DOMAIN s /\ b[k] = s[i + k] /\ i + k # i
      BY <1>1, <1>3, <2>2
    <3>. QED
      BY <3>1, <1>1 DEF IsInjective, Range
  <2>3. ASSUME NEW k \in DOMAIN s, k # i PROVE s[k] \in Range(a) \cup Range(b)
    <3>1. CASE k < i
      BY <3>1, <1>1, <1>2 DEF Range
    <3>2. CASE k > i
      <4>1. k - i \in DOMAIN b /\ b[k - i] = s[i + (k - i)] /\ i + (k - i) = k
        BY <3>2, <1>1, <1>3
      <4>. QED
        BY <4>1 DEF Range
    <3>. QED
      BY <3>1, <3>2, <2>3, <1>1
  <2>. QED
    BY <2>1, <2>2, <2>3 DEF Range
<1>. QED
  BY <1>2, <1>3, <1>4, <1>5, <1>6, MoreOwned DEF RemoveAt, a, b

\* A set of unused frames becomes owned, and is counted.
LEMMA FramesTaken ==
  ASSUME FramesInv, NEW S, S \subseteq Unused, NEW t \in Seq(AllFrames), IsInjective(t),
         Range(t) = S, frame_bitmap' = frame_bitmap \cup S, owned' = owned \o t,
         used_frames_count' = used_frames_count + Cardinality(S)
  PROVE  FramesInv'
<1>1. /\ frame_bitmap \in SUBSET AllFrames /\ Kernel \subseteq frame_bitmap
      /\ owned \in Seq(AllFrames) /\ IsInjective(owned)
      /\ Range(owned) = frame_bitmap \ Kernel
      /\ used_frames_count = Cardinality(frame_bitmap)
  BY DEF FramesInv, FramesOwned, Kernel
<1>2. S \subseteq AllFrames /\ S \cap frame_bitmap = {}
  BY DEF Unused
<1>3. /\ owned' \in Seq(AllFrames) /\ IsInjective(owned)'
      /\ Range(owned') = (frame_bitmap \ Kernel) \cup S
  <2>1. Range(owned) \cap Range(t) = {}
    BY <1>1, <1>2
  <2>. QED
    BY <1>1, <2>1, MoreOwned
<1>4. Range(owned') = frame_bitmap' \ Kernel
  BY <1>1, <1>2, <1>3
<1>5. used_frames_count' = Cardinality(frame_bitmap')
  <2>1. IsFiniteSet(S) /\ IsFiniteSet(frame_bitmap) /\ Cardinality(S) \in Nat
        /\ Cardinality(frame_bitmap) \in Nat
    BY <1>1, <1>2, FramesFinite
  <2>2. Cardinality(frame_bitmap \cup S) =
          Cardinality(frame_bitmap) + Cardinality(S) - Cardinality(frame_bitmap \cap S)
    BY <2>1, FS_Union
  <2>3. Cardinality(frame_bitmap \cap S) = 0
    <3>1. frame_bitmap \cap S = {}
      BY <1>2
    <3>. QED
      BY <3>1, FS_EmptySet, Zenon
  <2>4. Cardinality(frame_bitmap \cup S) = used_frames_count + Cardinality(S)
    BY <1>1, <2>1, <2>2, <2>3
  <2>. QED
    BY <2>4
<1>. QED
  BY <1>1, <1>2, <1>3, <1>4, <1>5 DEF FramesInv, FramesOwned, Kernel

\* Each operation on frames keeps their part of the invariant.
LEMMA FramesStep == FramesInv /\ (FramesNext \/ UNCHANGED frameVars) => FramesInv'
<1>. SUFFICES ASSUME FramesInv, FramesNext \/ UNCHANGED frameVars PROVE FramesInv'
  OBVIOUS
<1>1. Unused \in SUBSET AllFrames /\ Unused \in SUBSET Nat
  BY FramesFinite DEF Unused
<1>2. CASE pmm_alloc_frame
  <2>. DEFINE f == Min(Unused)
  <2>1. Unused # {} /\ f \in Unused
    BY <1>1, <1>2, MinIn DEF pmm_alloc_frame
  <2>2. /\ frame_bitmap' = frame_bitmap \cup {f} /\ used_frames_count' = used_frames_count + 1
        /\ owned' = Append(owned, f)
    BY <1>2 DEF pmm_alloc_frame
  <2>. HIDE DEF f
  <2>3. <<f>> \in Seq(AllFrames) /\ IsInjective(<<f>>) /\ Range(<<f>>) = {f}
    BY <1>1, <2>1 DEF IsInjective, Range
  <2>4. owned' = owned \o <<f>>
    <3>1. owned \in Seq(AllFrames) /\ f \in AllFrames
      BY <1>1, <2>1 DEF FramesInv
    <3>. QED
      BY <2>2, <3>1
  <2>5. Cardinality({f}) = 1
    BY FS_Singleton
  <2>. QED
    BY <2>1, <2>2, <2>3, <2>4, <2>5, FramesTaken
<1>3. ASSUME NEW n \in 2..MaxRun, pmm_alloc_contiguous_frames(n) PROVE FramesInv'
  <2>. DEFINE f == Min(Runs(n))
              t == [k \in 1..n |-> f + k - 1]
  <2>1. n \in Nat /\ n > 1
    BY MemoryAssumption
  <2>2. f \in Runs(n)
    BY <1>1, <1>3, MinIn DEF pmm_alloc_contiguous_frames, Runs
  <2>3. f \in Nat /\ f..(f + n - 1) \subseteq Unused
    BY <1>1, <2>2 DEF Runs
  <2>4. /\ frame_bitmap' = frame_bitmap \cup f..(f + n - 1)
        /\ owned' = owned \o t /\ used_frames_count' = used_frames_count + n
    BY <1>3 DEF pmm_alloc_contiguous_frames
  <2>. HIDE DEF f
  <2>5. t \in Seq(AllFrames) /\ DOMAIN t = 1..n /\ \A k \in 1..n : t[k] = f + k - 1
    <3>1. \A k \in 1..n : f + k - 1 \in f..(f + n - 1)
      BY <2>1, <2>3
    <3>2. \A k \in 1..n : f + k - 1 \in AllFrames
      BY <3>1, <2>3, <1>1
    <3>3. t \in [1..n -> AllFrames]
      BY <3>2
    <3>. QED
      BY <3>3, <2>1
  <2>. HIDE DEF t
  <2>6. IsInjective(t)
    BY <2>1, <2>3, <2>5 DEF IsInjective
  <2>7. Range(t) = f..(f + n - 1)
    <3>1. \A k \in 1..n : t[k] \in f..(f + n - 1)
      BY <2>1, <2>3, <2>5
    <3>2. ASSUME NEW x \in f..(f + n - 1) PROVE x \in Range(t)
      <4>1. x - f + 1 \in 1..n /\ t[x - f + 1] = f + (x - f + 1) - 1
        BY <2>1, <2>3, <2>5
      <4>2. f + (x - f + 1) - 1 = x
        BY <2>3
      <4>. QED
        BY <4>1, <4>2, <2>5 DEF Range
    <3>. QED
      BY <3>1, <3>2, <2>5 DEF Range
  <2>8. Cardinality(f..(f + n - 1)) = n
    <3>1. f \in Int /\ f + n - 1 \in Int /\ ~(f > f + n - 1) /\ (f + n - 1) - f + 1 = n
      BY <2>1, <2>3
    <3>. QED
      BY <3>1, FS_Interval
  <2>. QED
    BY <2>3, <2>4, <2>5, <2>6, <2>7, <2>8, FramesTaken
<1>4. ASSUME NEW i \in DOMAIN owned, pmm_free_frame(i) PROVE FramesInv'
  <2>1. /\ frame_bitmap \in SUBSET AllFrames /\ Kernel \subseteq frame_bitmap
        /\ owned \in Seq(AllFrames) /\ IsInjective(owned)
        /\ Range(owned) = frame_bitmap \ Kernel
        /\ used_frames_count = Cardinality(frame_bitmap)
    BY DEF FramesInv, FramesOwned, Kernel
  <2>2. owned[i] \in frame_bitmap /\ owned[i] \notin Kernel
    BY <2>1 DEF Range
  <2>3. /\ frame_bitmap' = frame_bitmap \ {owned[i]}
        /\ used_frames_count' = used_frames_count - 1 /\ owned' = RemoveAt(owned, i)
    BY <1>4, <2>2 DEF pmm_free_frame
  <2>4. /\ owned' \in Seq(AllFrames) /\ IsInjective(owned)'
        /\ Range(owned') = Range(owned) \ {owned[i]}
    BY <2>1, <2>3, LessOwned
  <2>5. Range(owned') = frame_bitmap' \ Kernel
    BY <2>1, <2>2, <2>3, <2>4
  <2>6. used_frames_count' = Cardinality(frame_bitmap')
    BY <2>1, <2>2, <2>3, FramesFinite, FS_RemoveElement
  <2>7. frame_bitmap' \in SUBSET AllFrames /\ Kernel \subseteq frame_bitmap'
    BY <2>1, <2>2, <2>3
  <2>. QED
    BY <2>4, <2>5, <2>6, <2>7 DEF FramesInv, FramesOwned, Kernel
<1>5. CASE UNCHANGED frameVars
  BY <1>5 DEF frameVars, FramesInv, FramesOwned
<1>. QED
  BY <1>2, <1>3, <1>4, <1>5 DEF FramesNext

-----------------------------------------------------------------------------
(* The heap.                                                               *)

\* A block takes a multiple of Align and has room for what is asked for.
LEMMA TotalFits ==
  ASSUME NEW size \in Nat
  PROVE  /\ Payload(size) \in Nat /\ Payload(size) >= size
         /\ Total(size) \in Nat /\ Total(size) = Payload(size) + Overhead
         /\ Total(size) % Align = 0
<1>. DEFINE n == IF size = 0 THEN Align ELSE size
<1>1. n \in Nat /\ n >= size /\ Align \in Nat \ {0} /\ Overhead \in Nat /\ Overhead % Align = 0
  BY Constants
<1>2. Payload(size) = RoundUp(n, Align)
  BY DEF Payload
<1>. HIDE DEF n
<1>3. Payload(size) \in Nat /\ Payload(size) >= n /\ Payload(size) % Align = 0
  BY <1>1, <1>2, RoundUpFits
<1>4. (Payload(size) + Overhead) % Align = 0
  BY <1>1, <1>3, SumMod
<1>. QED
  BY <1>1, <1>3, <1>4 DEF Total

\* Blocks in use are finitely many, one less with one of them freed, one more with a new
\* one behind the others.
LEMMA InUseFinite ==
  ASSUME NEW bs \in Seq(Block)
  PROVE  /\ IsFiniteSet(InUse(bs)) /\ Cardinality(InUse(bs)) \in Nat
         /\ InUse(bs) # {} => Cardinality(InUse(bs)) >= 1
<1>1. InUse(bs) \in SUBSET (1..Len(bs)) /\ Len(bs) \in Int
  BY DEF InUse
<1>2. IsFiniteSet(InUse(bs))
  BY <1>1, FS_Interval, FS_Subset
<1>3. Cardinality(InUse(bs)) \in Nat
  BY <1>2, FS_CardinalityType
<1>4. Cardinality(InUse(bs)) = 0 => InUse(bs) = {}
  BY <1>2, FS_EmptySet
<1>. QED
  BY <1>2, <1>3, <1>4

\* What freeing block i of bs gives.
IsFreed(bs, bt, i) ==
  /\ bt \in Seq(Block) /\ Len(bt) = Len(bs)
  /\ \A j \in 1..Len(bs) : j # i => bt[j] = bs[j]
  /\ bt[i].start = bs[i].start /\ bt[i].size = bs[i].size /\ bt[i].wanted = bs[i].wanted
  /\ bt[i].is_allocated = FALSE

\* What a block b behind bs gives.
IsGrown(bs, bt, b) ==
  /\ bt \in Seq(Block) /\ Len(bt) = Len(bs) + 1 /\ bt[Len(bs) + 1] = b
  /\ \A j \in 1..Len(bs) : bt[j] = bs[j]

\* Freed does that.
LEMMA FreedIs ==
  ASSUME NEW bs \in Seq(Block), NEW i \in 1..Len(bs)
  PROVE  IsFreed(bs, [bs EXCEPT ![i] = Freed(@)], i)
<1>1. bs[i] \in Block
  OBVIOUS
<1>2. /\ Freed(bs[i]) \in Block /\ Freed(bs[i]).start = bs[i].start
      /\ Freed(bs[i]).size = bs[i].size /\ Freed(bs[i]).wanted = bs[i].wanted
      /\ Freed(bs[i]).is_allocated = FALSE
  BY <1>1 DEF Freed, Block
<1>3. /\ [bs EXCEPT ![i] = Freed(bs[i])] \in Seq(Block)
      /\ Len([bs EXCEPT ![i] = Freed(bs[i])]) = Len(bs)
      /\ \A j \in 1..Len(bs) :
           [bs EXCEPT ![i] = Freed(bs[i])][j] = IF j = i THEN Freed(bs[i]) ELSE bs[j]
  BY <1>2, ExceptSeq
<1>. QED
  BY <1>2, <1>3 DEF IsFreed

\* Append does that.
LEMMA GrownIs ==
  ASSUME NEW bs \in Seq(Block), NEW b \in Block
  PROVE  IsGrown(bs, Append(bs, b), b)
  BY DEF IsGrown

\* A freed block is one less in use, and its bytes leave the tally.
LEMMA FreedCount ==
  ASSUME NEW bs \in Seq(Block), NEW i \in 1..Len(bs), bs[i].is_allocated,
         NEW bt, IsFreed(bs, bt, i)
  PROVE  /\ Cardinality(InUse(bt)) = Cardinality(InUse(bs)) - 1
         /\ Cardinality(InUse(bs)) >= 1
<1>1. DOMAIN bs = 1..Len(bs) /\ DOMAIN bt = 1..Len(bs)
  BY DEF IsFreed
<1>2. InUse(bt) = InUse(bs) \ {i} /\ i \in InUse(bs)
  BY <1>1 DEF InUse, IsFreed
<1>. QED
  BY <1>2, InUseFinite, FS_RemoveElement

\* A new block is one more.
LEMMA GrownCount ==
  ASSUME NEW bs \in Seq(Block), NEW b \in Block, b.is_allocated, NEW bt, IsGrown(bs, bt, b)
  PROVE  Cardinality(InUse(bt)) = Cardinality(InUse(bs)) + 1
<1>1. DOMAIN bs = 1..Len(bs) /\ DOMAIN bt = 1..(Len(bs) + 1) /\ Len(bs) \in Nat
  BY DEF IsGrown
<1>2. InUse(bt) = InUse(bs) \cup {Len(bs) + 1} /\ Len(bs) + 1 \notin InUse(bs)
  BY <1>1 DEF InUse, IsGrown
<1>. QED
  BY <1>2, InUseFinite, FS_AddElement

\* The tally after a block has been freed: its bytes are missing from there on,
\* and were in it before.
LEMMA FreedTally ==
  ASSUME NEW bs \in Seq(Block), NEW i \in 1..Len(bs), bs[i].is_allocated,
         bs[i].size >= Overhead, NEW bt, IsFreed(bs, bt, i), NEW f, Tally(bs, f)
  PROVE  /\ f[Len(bs)] >= bs[i].size - Overhead
         /\ \E g : Tally(bt, g) /\ g[Len(bt)] = f[Len(bs)] - (bs[i].size - Overhead)
<1>. DEFINE p == bs[i].size - Overhead
            n == Len(bs)
            g == [j \in 0..n |-> IF j >= i THEN f[j] - p ELSE f[j]]
<1>1. /\ n \in Nat /\ i \in 1..n /\ p \in Nat /\ Len(bt) = n
      /\ f \in [0..n -> Nat] /\ f[0] = FirstBytes
      /\ \A j \in 1..n : f[j] = f[j - 1] + PayloadOf(bs[j])
      /\ \A j, k \in 0..n : j <= k => f[j] <= f[k]
  <2>1. p \in Nat
    <3>1. bs[i] \in Block
      OBVIOUS
    <3>2. bs[i].size \in Nat
      BY <3>1 DEF Block
    <3>. QED
      BY <3>2, Constants
  <2>. QED
    BY <2>1 DEF Tally, IsFreed
<1>2. f[i] = f[i - 1] + p /\ i - 1 \in 0..n /\ f[i - 1] \in Nat
  BY <1>1 DEF PayloadOf
<1>. HIDE DEF p, n
<1>3. \A j \in 0..n : f[j] \in Nat /\ (j >= i => f[j] >= f[i]) /\ (j < i => f[j] <= f[i - 1])
  BY <1>1
<1>4. g \in [0..n -> Nat]
  BY <1>1, <1>2, <1>3, SMTT(30)
<1>5. g[0] = FirstBytes /\ \A j \in 0..n : g[j] = IF j >= i THEN f[j] - p ELSE f[j]
  BY <1>1
<1>. HIDE DEF g
<1>6. ASSUME NEW j \in 1..n PROVE g[j] = g[j - 1] + PayloadOf(bt[j])
  <2>1. j - 1 \in 0..n /\ j \in 0..n /\ f[j] \in Nat /\ f[j - 1] \in Nat
        /\ f[j] = f[j - 1] + PayloadOf(bs[j])
    <3>1. n \in Nat /\ \A k \in 1..n : f[k] = f[k - 1] + PayloadOf(bs[k])
      BY <1>1, Zenon
    <3>2. \A k \in 0..n : f[k] \in Nat
      BY <1>3, Zenon
    <3>3. j - 1 \in 0..n /\ j \in 0..n
      BY <3>1
    <3>. QED
      BY <3>1, <3>2, <3>3, Zenon
  <2>2. CASE j = i
    <3>1. PayloadOf(bt[j]) = 0
      BY <2>2 DEF PayloadOf, IsFreed
    <3>. QED
      BY <1>1, <1>2, <1>5, <2>1, <2>2, <3>1, SMTT(30)
  <2>3. CASE j # i
    <3>1. PayloadOf(bt[j]) = PayloadOf(bs[j])
      BY <2>3, <1>1 DEF PayloadOf, IsFreed, n
    <3>2. PayloadOf(bs[j]) = f[j] - f[j - 1]
      <4>1. bs[j] \in Block
        BY DEF n
      <4>2. PayloadOf(bs[j]) \in Int
        BY <4>1, Constants, SMTT(30) DEF PayloadOf, Block
      <4>. QED
        BY <2>1, <4>2
    <3>3. \/ g[j] = f[j] /\ g[j - 1] = f[j - 1]
          \/ g[j] = f[j] - p /\ g[j - 1] = f[j - 1] - p
      <4>1. CASE j < i
        <5>1. ~(j >= i) /\ ~(j - 1 >= i)
          BY <1>1, <4>1
        <5>. QED
          BY <1>5, <2>1, <5>1
      <4>2. CASE j > i
        <5>1. j >= i /\ j - 1 >= i
          BY <1>1, <4>2
        <5>. QED
          BY <1>5, <2>1, <5>1
      <4>3. j < i \/ j > i
        BY <1>1, <2>3
      <4>. QED
        BY <4>1, <4>2, <4>3, Zenon
    <3>4. p \in Nat
      BY <1>1, Zenon
    <3>. QED
      BY <2>1, <3>1, <3>2, <3>3, <3>4
  <2>. QED
    BY <2>2, <2>3
<1>7. ASSUME NEW j \in 0..n, NEW k \in 0..n, j <= k PROVE g[j] <= g[k]
  <2>1. /\ f[j] <= f[k] /\ f[j] \in Nat /\ f[k] \in Nat
        /\ g[j] = IF j >= i THEN f[j] - p ELSE f[j]
        /\ g[k] = IF k >= i THEN f[k] - p ELSE f[k]
    BY <1>1, <1>5, <1>7
  <2>2. CASE j < i /\ k >= i
    <3>1. f[j] <= f[i - 1] /\ f[k] >= f[i]
      BY <1>3, <2>2
    <3>. QED
      BY <3>1, <2>1, <2>2, <1>1, <1>2
  <2>3. CASE ~(j < i /\ k >= i)
    BY <2>1, <2>3, <1>1, <1>7
  <2>. QED
    BY <2>2, <2>3
<1>8. g[n] = f[n] - p /\ f[n] >= p
  <2>1. n \in 0..n /\ n >= i /\ f[n] >= f[i] /\ f[n] \in Nat
    BY <1>1, <1>3
  <2>. QED
    BY <2>1, <1>1, <1>2, <1>5
<1>9. Tally(bt, g)
  BY <1>1, <1>4, <1>5, <1>6, <1>7 DEF Tally
<1>. QED
  BY <1>1, <1>8, <1>9 DEF n, p

\* The tally with a new block.
LEMMA GrownTally ==
  ASSUME NEW bs \in Seq(Block), NEW b \in Block, b.is_allocated, b.size >= Overhead,
         NEW bt, IsGrown(bs, bt, b), NEW f, Tally(bs, f)
  PROVE  \E g : Tally(bt, g) /\ g[Len(bt)] = f[Len(bs)] + (b.size - Overhead)
<1>. DEFINE p == b.size - Overhead
            n == Len(bs)
            g == [j \in 0..(n + 1) |-> IF j = n + 1 THEN f[n] + p ELSE f[j]]
<1>1. /\ n \in Nat /\ p \in Nat /\ Len(bt) = n + 1
      /\ f \in [0..n -> Nat] /\ f[0] = FirstBytes
      /\ \A j \in 1..n : f[j] = f[j - 1] + PayloadOf(bs[j])
      /\ \A j, k \in 0..n : j <= k => f[j] <= f[k]
  BY Constants, SMTT(30) DEF Tally, IsGrown, Block
<1>. HIDE DEF p, n
<1>2. g \in [0..(n + 1) -> Nat] /\ g[0] = FirstBytes /\ g[n + 1] = f[n] + p
  BY <1>1
<1>3. ASSUME NEW j \in 1..(n + 1) PROVE g[j] = g[j - 1] + PayloadOf(bt[j])
  <2>1. CASE j = n + 1
    <3>1. PayloadOf(bt[j]) = p
      BY <2>1 DEF PayloadOf, IsGrown, p, n
    <3>. QED
      BY <1>1, <2>1, <3>1
  <2>2. CASE j # n + 1
    <3>1. j \in 1..n /\ j - 1 \in 0..n
      BY <1>1, <2>2
    <3>2. PayloadOf(bt[j]) = PayloadOf(bs[j])
      BY <3>1 DEF IsGrown, n, PayloadOf
    <3>3. g[j] = f[j] /\ g[j - 1] = f[j - 1]
      BY <1>1, <3>1
    <3>. QED
      BY <1>1, <3>1, <3>2, <3>3
  <2>. QED
    BY <2>1, <2>2
<1>4. ASSUME NEW j \in 0..(n + 1), NEW k \in 0..(n + 1), j <= k PROVE g[j] <= g[k]
  BY <1>1, <1>4
<1>. HIDE DEF g
<1>5. Tally(bt, g)
  BY <1>1, <1>2, <1>3, <1>4 DEF Tally
<1>. QED
  BY <1>1, <1>2, <1>5 DEF n, p

\* One block more or less moves Overhead bytes.
LEMMA OneOverhead ==
  ASSUME NEW n \in Nat
  PROVE  (n + 1) * Overhead = n * Overhead + Overhead /\ n * Overhead \in Nat
  BY Constants

\* Bytes that move from one counter to another leave their sum alone.
LEMMA Balance ==
  ASSUME NEW bytes \in Int, NEW free \in Int, NEW over \in Int, NEW o \in Int, NEW p \in Int
  PROVE  /\ (bytes + p) + (free - (p + o)) + (over + o) = bytes + free + over
         /\ (bytes - p) + (free + (p + o)) + over = bytes + free + (over + o)
  OBVIOUS

\* kmalloc on a heap with room.
LEMMA HeapGrows ==
  ASSUME NEW bs, NEW offset, NEW bytes, NEW count, NEW free, Heap(bs, offset, bytes, count, free),
         NEW size \in Nat, offset + Total(size) < HEAP_INIT_SIZE,
         NEW b \in Block, b.start = offset, b.size = Total(size), b.is_allocated, b.wanted = size,
         NEW bt, IsGrown(bs, bt, b)
  PROVE  Heap(bt, offset + Total(size), bytes + Payload(size), count + 1, Less(free, Total(size)))
<1>. DEFINE T == Total(size)
            n == Cardinality(InUse(bs))
            over == n * Overhead
<1>1. /\ bs \in Seq(Block) /\ offset \in Nat /\ bytes \in Nat /\ count \in Nat /\ free \in Int
      /\ free >= HEAP_INIT_SIZE - offset /\ offset % Align = 0
      /\ count = FirstBlocks + n /\ bytes + free + over = HEAP_INIT_SIZE
      /\ Len(bs) \in Nat /\ Apart(bs, offset) /\ n \in Nat
  BY InUseFinite DEF Heap
<1>2. /\ HEAP_INIT_SIZE \in Nat /\ Overhead \in Nat /\ FirstBlocks \in Nat
      /\ Align \in Nat \ {0}
  BY Constants
<1>3. /\ T \in Nat /\ T = Payload(size) + Overhead /\ Payload(size) \in Nat
      /\ Payload(size) >= size /\ T % Align = 0
  BY TotalFits
<1>4. (n + 1) * Overhead = over + Overhead /\ over \in Nat
  BY <1>1, OneOverhead
<1>. HIDE DEF T, n, over
<1>5. free >= T /\ Less(free, T) = free - T
  BY <1>1, <1>2, <1>3, SMTT(30) DEF T, Less
<1>6. offset + T \in Nat /\ (offset + T) % Align = 0
  BY <1>1, <1>2, <1>3, SumMod, SMTT(30)
<1>7. Cardinality(InUse(bt)) = n + 1
  BY <1>1, GrownCount DEF n
<1>8. \E g : Tally(bt, g) /\ g[Len(bt)] = bytes + Payload(size)
  <2>1. PICK f : Tally(bs, f) /\ f[Len(bs)] = bytes
    BY DEF Heap
  <2>2. \E g : Tally(bt, g) /\ g[Len(bt)] = f[Len(bs)] + (b.size - Overhead)
    <3>1. b.size >= Overhead
      BY <1>2, <1>3 DEF T
    <3>. QED
      BY <1>1, <2>1, <3>1, GrownTally
  <2>3. f[Len(bs)] + (b.size - Overhead) = bytes + Payload(size)
    BY <1>1, <1>2, <1>3, <2>1 DEF T
  <2>. QED
    BY <2>2, <2>3
<1>9. Apart(bt, offset + T)
  <2>1. Len(bt) = Len(bs) + 1 /\ bt[Len(bs) + 1] = b /\ \A j \in 1..Len(bs) : bt[j] = bs[j]
    BY DEF IsGrown
  <2>. DEFINE End(i) == IF i = Len(bt) THEN offset + T ELSE bt[i + 1].start
  <2>. SUFFICES ASSUME NEW i \in 1..Len(bt)
                PROVE  /\ bt[i].start + bt[i].size <= End(i) /\ End(i) < HEAP_INIT_SIZE
                       /\ bt[i].start % Align = 0 /\ bt[i].wanted + Overhead <= bt[i].size
    BY DEF Apart
  <2>2. CASE i = Len(bs) + 1
    <3>1. End(i) = offset + T /\ bt[i] = b
      BY <2>1, <2>2
    <3>2. offset + T < HEAP_INIT_SIZE /\ b.size = T
      BY DEF T
    <3>3. b.wanted + Overhead <= T
      BY <1>2, <1>3
    <3>. QED
      BY <1>1, <1>3, <3>1, <3>2, <3>3, SMTT(30)
  <2>3. CASE i # Len(bs) + 1
    <3>1. i \in 1..Len(bs) /\ bt[i] = bs[i]
      BY <1>1, <2>1, <2>3
    <3>2. End(i) = IF i = Len(bs) THEN offset ELSE bs[i + 1].start
      <4>1. CASE i = Len(bs)
        BY <1>1, <2>1, <4>1
      <4>2. CASE i # Len(bs)
        <5>1. i + 1 \in 1..Len(bs)
          BY <1>1, <3>1, <4>2
        <5>. QED
          BY <1>1, <2>1, <3>1, <4>2, <5>1
      <4>. QED
        BY <4>1, <4>2
    <3>. QED
      BY <1>1, <3>1, <3>2 DEF Apart
  <2>. QED
    BY <2>2, <2>3
<1>10. /\ bytes + Payload(size) \in Nat /\ count + 1 \in Nat /\ free - T \in Int
       /\ free - T >= HEAP_INIT_SIZE - (offset + T)
       /\ count + 1 = FirstBlocks + (n + 1)
       /\ bytes + Payload(size) + (free - T) + (over + Overhead) = HEAP_INIT_SIZE
  <2>1. /\ bytes \in Nat /\ count \in Nat /\ free \in Int /\ offset \in Nat /\ n \in Nat
        /\ free >= HEAP_INIT_SIZE - offset /\ count = FirstBlocks + n
        /\ bytes + free + over = HEAP_INIT_SIZE
    BY <1>1
  <2>2. bytes + Payload(size) \in Nat /\ count + 1 \in Nat /\ free - T \in Int
    BY <2>1, <1>3
  <2>3. free - T >= HEAP_INIT_SIZE - (offset + T)
    BY <2>1, <1>2, <1>3
  <2>4. count + 1 = FirstBlocks + (n + 1)
    BY <2>1, <1>2
  <2>5. bytes + Payload(size) + (free - T) + (over + Overhead) = HEAP_INIT_SIZE
    <3>. DEFINE q == Payload(size)
    <3>1. q \in Int /\ T = q + Overhead /\ over \in Int
      BY <1>3, <1>4
    <3>. HIDE DEF q
    <3>2. (bytes + q) + (free - (q + Overhead)) + (over + Overhead) = bytes + free + over
      BY <2>1, <1>2, <3>1, Balance
    <3>. QED
      BY <2>1, <3>1, <3>2 DEF q
  <2>. QED
    BY <2>2, <2>3, <2>4, <2>5
<1>. QED
  BY <1>4, <1>5, <1>6, <1>7, <1>8, <1>9, <1>10 DEF Heap, IsGrown, T

\* kfree of a block in use.
LEMMA HeapFrees ==
  ASSUME NEW bs, NEW offset, NEW bytes, NEW count, NEW free, Heap(bs, offset, bytes, count, free),
         NEW i \in 1..Len(bs), bs[i].is_allocated, NEW bt, IsFreed(bs, bt, i)
  PROVE  Heap(bt, offset, Less(bytes, bs[i].size - Overhead), Less(count, 1), free + bs[i].size)
<1>. DEFINE p == bs[i].size - Overhead
            n == Cardinality(InUse(bs))
            over == (n - 1) * Overhead
<1>1. /\ bs \in Seq(Block) /\ offset \in Nat /\ bytes \in Nat /\ count \in Nat /\ free \in Int
      /\ free >= HEAP_INIT_SIZE - offset /\ offset % Align = 0
      /\ count = FirstBlocks + n /\ bytes + free + n * Overhead = HEAP_INIT_SIZE
      /\ Len(bs) \in Nat /\ Apart(bs, offset)
  BY DEF Heap
<1>2. HEAP_INIT_SIZE \in Nat /\ Overhead \in Nat /\ FirstBlocks \in Nat
  BY Constants
<1>3. bs[i].size \in Nat /\ bs[i].wanted \in Nat
  <2>1. bs[i] \in Block
    BY <1>1
  <2>. QED
    BY <2>1 DEF Block
<1>4. bs[i].size >= Overhead
  BY <1>1, <1>2, <1>3, SMTT(30) DEF Apart
<1>5. n \in Nat /\ Cardinality(InUse(bt)) = n - 1 /\ n >= 1
  BY <1>1, FreedCount, InUseFinite
<1>6. bytes >= p /\ \E g : Tally(bt, g) /\ g[Len(bt)] = bytes - p
  <2>1. PICK f : Tally(bs, f) /\ f[Len(bs)] = bytes
    BY DEF Heap
  <2>. QED
    BY <1>1, <1>4, <2>1, FreedTally
<1>. HIDE DEF n
<1>7. bytes + free + (over + Overhead) = HEAP_INIT_SIZE /\ over \in Nat
  <2>1. n - 1 \in Nat /\ (n - 1) + 1 = n
    BY <1>5
  <2>2. n * Overhead = over + Overhead /\ over \in Nat
    BY <2>1, OneOverhead
  <2>. QED
    BY <1>1, <2>2
<1>. HIDE DEF over
<1>8. Apart(bt, offset)
  <2>1. /\ Len(bt) = Len(bs)
        /\ \A j \in 1..Len(bs) : /\ bt[j].start = bs[j].start /\ bt[j].size = bs[j].size
                                 /\ bt[j].wanted = bs[j].wanted
    BY DEF IsFreed
  <2>2. \A j \in 1..Len(bs) : j # Len(bs) => j + 1 \in 1..Len(bs)
    BY <1>1
  <2>. QED
    BY <1>1, <2>1, <2>2 DEF Apart
<1>9. p \in Nat /\ Less(bytes, p) = bytes - p /\ Less(count, 1) = count - 1
  BY <1>1, <1>2, <1>3, <1>4, <1>5, <1>6 DEF Less
<1>10. /\ bytes - p \in Nat /\ count - 1 \in Nat /\ free + bs[i].size \in Int
       /\ free + bs[i].size >= HEAP_INIT_SIZE - offset
       /\ count - 1 = FirstBlocks + (n - 1)
       /\ bytes - p + (free + bs[i].size) + over = HEAP_INIT_SIZE
  <2>1. count = FirstBlocks + n /\ bytes \in Nat /\ free \in Int /\ offset \in Nat
        /\ free >= HEAP_INIT_SIZE - offset
    BY <1>1
  <2>2. bytes - p \in Nat
    BY <2>1, <1>6, <1>9
  <2>3. count - 1 \in Nat /\ count - 1 = FirstBlocks + (n - 1)
    BY <2>1, <1>2, <1>5
  <2>4. free + bs[i].size \in Int /\ free + bs[i].size >= HEAP_INIT_SIZE - offset
    BY <2>1, <1>2, <1>3
  <2>5. bytes - p + (free + bs[i].size) + over = HEAP_INIT_SIZE
    <3>. DEFINE z == bs[i].size
    <3>1. z \in Nat /\ p = z - Overhead
      BY <1>3
    <3>. HIDE DEF z, p
    <3>2. p \in Int /\ z = p + Overhead
      BY <1>2, <3>1
    <3>3. bytes - p + (free + z) + over = HEAP_INIT_SIZE
      BY <2>1, <1>2, <1>7, <3>2, Balance
    <3>. QED
      BY <3>3 DEF z
  <2>. QED
    BY <2>2, <2>3, <2>4, <2>5
<1>. QED
  BY <1>1, <1>5, <1>6, <1>8, <1>9, <1>10 DEF Heap, IsFreed, over

-----------------------------------------------------------------------------
(* Operations of the heap.                                                 *)

\* What kmalloc writes behind the last block.
LEMMA NewBlockIs ==
  ASSUME HeapInv, NEW size \in Nat
  PROVE  /\ NewBlock(size) \in Block /\ NewBlock(size).start = dynamic_offset
         /\ NewBlock(size).size = Total(size) /\ NewBlock(size).is_allocated
         /\ NewBlock(size).wanted = size
<1>1. dynamic_offset \in Nat /\ Total(size) \in Nat
  BY TotalFits DEF HeapInv, Heap
<1>. QED
  BY <1>1 DEF NewBlock, Block

\* krealloc that moves a block: a new one behind the others, then the old one
\* freed.
LEMMA MovedIs ==
  ASSUME NEW bs \in Seq(Block), NEW i \in 1..Len(bs), NEW b \in Block
  PROVE  /\ i \in 1..Len(Append(bs, b)) /\ Append(bs, b)[i] = bs[i]
         /\ IsFreed(Append(bs, b), Append([bs EXCEPT ![i] = Freed(@)], b), i)
<1>. DEFINE mid == Append(bs, b)
            fs == [bs EXCEPT ![i] = Freed(@)]
            bt == Append(fs, b)
<1>1. IsFreed(bs, fs, i)
  BY FreedIs
<1>2. fs \in Seq(Block) /\ Len(fs) = Len(bs) /\ Len(bs) \in Nat
  BY <1>1 DEF IsFreed
<1>3. IsGrown(bs, mid, b)
  BY GrownIs
<1>. HIDE DEF mid, fs
<1>4. IsGrown(fs, bt, b)
  BY <1>2, GrownIs
<1>. HIDE DEF bt
<1>5. /\ bt \in Seq(Block) /\ Len(bt) = Len(bs) + 1 /\ bt[Len(bs) + 1] = b
      /\ \A j \in 1..Len(bs) : bt[j] = fs[j]
  BY <1>2, <1>4 DEF IsGrown
<1>6. /\ Len(mid) = Len(bs) + 1 /\ mid[Len(bs) + 1] = b
      /\ \A j \in 1..Len(bs) : mid[j] = bs[j]
  BY <1>3 DEF IsGrown
<1>7. i \in 1..Len(mid) /\ mid[i] = bs[i] /\ bt[i] = fs[i]
  BY <1>2, <1>5, <1>6
<1>8. ASSUME NEW j \in 1..Len(mid), j # i PROVE bt[j] = mid[j]
  <2>1. CASE j = Len(bs) + 1
    BY <2>1, <1>5, <1>6
  <2>2. CASE j # Len(bs) + 1
    <3>1. j \in 1..Len(bs)
      BY <1>2, <1>6, <2>2
    <3>. QED
      BY <3>1, <1>1, <1>5, <1>6, <1>8 DEF IsFreed
  <2>. QED
    BY <2>1, <2>2
<1>9. /\ bt[i].start = mid[i].start /\ bt[i].size = mid[i].size
      /\ bt[i].wanted = mid[i].wanted /\ bt[i].is_allocated = FALSE
  BY <1>1, <1>7 DEF IsFreed
<1>10. IsFreed(mid, bt, i)
  BY <1>5, <1>6, <1>8, <1>9 DEF IsFreed
<1>. QED
  BY <1>7, <1>10 DEF mid, fs, bt

\* krealloc that finds room in the block changes only what is wanted of it.
LEMMA HeapResizes ==
  ASSUME HeapInv, NEW i \in 1..Len(blocks), NEW size \in Nat, FitsIn(blocks[i], size),
         blocks' = [blocks EXCEPT ![i].wanted = size],
         UNCHANGED <<dynamic_offset, allocated_bytes_count, allocated_blocks_count,
                     free_bytes_count>>
  PROVE  HeapInv'
<1>1. blocks \in Seq(Block) /\ blocks[i] \in Block /\ Len(blocks) \in Nat
  BY DEF HeapInv, Heap
<1>. DEFINE b == [blocks[i] EXCEPT !.wanted = size]
<1>2. /\ b \in Block /\ b.start = blocks[i].start /\ b.size = blocks[i].size
      /\ b.is_allocated = blocks[i].is_allocated /\ b.wanted = size
  BY <1>1 DEF Block
<1>3. blocks' = [blocks EXCEPT ![i] = b]
  OBVIOUS
<1>. HIDE DEF b
<1>4. /\ blocks' \in Seq(Block) /\ Len(blocks') = Len(blocks)
      /\ \A j \in 1..Len(blocks) : blocks'[j] = IF j = i THEN b ELSE blocks[j]
  BY <1>1, <1>2, <1>3, ExceptSeq, SMTT(30)
<1>5. \A j \in 1..Len(blocks) :
        /\ blocks'[j].start = blocks[j].start /\ blocks'[j].size = blocks[j].size
        /\ blocks'[j].is_allocated = blocks[j].is_allocated
        /\ blocks'[j].wanted = IF j = i THEN size ELSE blocks[j].wanted
  BY <1>2, <1>4
<1>6. InUse(blocks)' = InUse(blocks)
  <2>1. DOMAIN blocks = 1..Len(blocks) /\ DOMAIN blocks' = 1..Len(blocks)
    BY <1>1, <1>4
  <2>. QED
    BY <2>1, <1>5, Zenon DEF InUse
<1>7. \A f : Tally(blocks, f) => Tally(blocks', f)
  <2>1. \A j \in 1..Len(blocks) : PayloadOf(blocks'[j]) = PayloadOf(blocks[j])
    BY <1>5 DEF PayloadOf
  <2>. QED
    BY <1>4, <2>1 DEF Tally
<1>8. Apart(blocks', dynamic_offset)
  <2>1. size + Overhead <= blocks[i].size
    <3>1. blocks[i].size \in Nat /\ Overhead \in Nat /\ blocks[i].size - Overhead >= size
      <4>1. blocks[i].size \in Nat
        BY <1>1 DEF Block
      <4>2. Overhead \in Nat
        BY Constants
      <4>. QED
        BY <4>1, <4>2 DEF FitsIn
    <3>. QED
      BY <3>1
  <2>2. \A j \in 1..Len(blocks) : j # Len(blocks) => j + 1 \in 1..Len(blocks)
    BY <1>1
  <2>3. Apart(blocks, dynamic_offset)
    BY DEF HeapInv, Heap
  <2>. QED
    BY <1>4, <1>5, <2>1, <2>2, <2>3 DEF Apart
<1>. QED
  BY <1>4, <1>6, <1>7, <1>8 DEF HeapInv, Heap

\* Each operation of the heap keeps its part of the invariant.
LEMMA HeapStep == HeapInv /\ (HeapNext \/ UNCHANGED heapVars) => HeapInv'
<1>. SUFFICES ASSUME HeapInv, HeapNext \/ UNCHANGED heapVars PROVE HeapInv'
  OBVIOUS
<1>1. blocks \in Seq(Block) /\ DOMAIN blocks = 1..Len(blocks)
  BY DEF HeapInv, Heap
<1>2. ASSUME NEW n \in Sizes, kmalloc(n) PROVE HeapInv'
  <2>1. n \in Nat
    BY Constants
  <2>2. dynamic_offset + Total(n) < HEAP_INIT_SIZE
    BY <1>2 DEF kmalloc, HeapRoom
  <2>3. IsGrown(blocks, blocks', NewBlock(n))
    BY <1>1, <1>2, <2>1, NewBlockIs, GrownIs DEF kmalloc
  <2>4. Heap(blocks', dynamic_offset + Total(n), allocated_bytes_count + Payload(n),
             allocated_blocks_count + 1, Less(free_bytes_count, Total(n)))
    BY <2>1, <2>2, <2>3, NewBlockIs, HeapGrows DEF HeapInv
  <2>. QED
    BY <1>2, <2>4 DEF kmalloc, HeapInv
<1>3. ASSUME NEW n \in Sizes, NEW i \in DOMAIN blocks, krealloc(i, n) PROVE HeapInv'
  <2>1. n \in Nat /\ i \in 1..Len(blocks) /\ blocks[i].is_allocated
    BY <1>1, <1>3, Constants DEF krealloc
  <2>2. CASE FitsIn(blocks[i], n)
    BY <1>3, <2>1, <2>2, HeapResizes DEF krealloc
  <2>3. CASE ~FitsIn(blocks[i], n)
    <3>. DEFINE mid == Append(blocks, NewBlock(n))
    <3>1. dynamic_offset + Total(n) < HEAP_INIT_SIZE
      BY <1>3, <2>3 DEF krealloc, HeapRoom
    <3>2. IsGrown(blocks, mid, NewBlock(n))
      BY <1>1, <2>1, NewBlockIs, GrownIs
    <3>3. /\ i \in 1..Len(mid) /\ mid[i] = blocks[i] /\ IsFreed(mid, blocks', i)
      BY <1>1, <1>3, <2>1, <2>3, NewBlockIs, MovedIs DEF krealloc
    <3>. HIDE DEF mid
    <3>4. Heap(mid, dynamic_offset + Total(n), allocated_bytes_count + Payload(n),
               allocated_blocks_count + 1, Less(free_bytes_count, Total(n)))
      BY <2>1, <3>1, <3>2, NewBlockIs, HeapGrows DEF HeapInv
    <3>5. Heap(blocks', dynamic_offset + Total(n),
               Less(allocated_bytes_count + Payload(n), blocks[i].size - Overhead),
               Less(allocated_blocks_count + 1, 1),
               Less(free_bytes_count, Total(n)) + blocks[i].size)
      BY <2>1, <3>3, <3>4, HeapFrees
    <3>6. Less(allocated_blocks_count + 1, 1) = allocated_blocks_count
      BY DEF Less, HeapInv, Heap
    <3>. QED
      BY <1>3, <2>3, <3>5, <3>6 DEF krealloc, HeapInv
  <2>. QED
    BY <2>2, <2>3
<1>4. ASSUME NEW i \in DOMAIN blocks, kfree(i) PROVE HeapInv'
  <2>1. i \in 1..Len(blocks)
    BY <1>1
  <2>2. CASE blocks[i].is_allocated
    <3>1. IsFreed(blocks, blocks', i)
      BY <1>1, <1>4, <2>1, <2>2, FreedIs DEF kfree
    <3>2. Heap(blocks', dynamic_offset, Less(allocated_bytes_count, blocks[i].size - Overhead),
               Less(allocated_blocks_count, 1), free_bytes_count + blocks[i].size)
      BY <2>1, <2>2, <3>1, HeapFrees DEF HeapInv
    <3>. QED
      BY <1>4, <2>2, <3>2 DEF kfree, HeapInv
  <2>3. CASE ~blocks[i].is_allocated
    BY <1>4, <2>3 DEF kfree, HeapInv
  <2>. QED
    BY <2>2, <2>3
<1>5. CASE UNCHANGED heapVars
  BY <1>5 DEF heapVars, HeapInv
<1>. QED
  BY <1>2, <1>3, <1>4, <1>5 DEF HeapNext

-----------------------------------------------------------------------------
(* Programs.                                                               *)

\* The last element and the rest of a sequence that is not empty.
LEMMA FrontLast ==
  ASSUME NEW S, NEW s \in Seq(S), s # <<>>
  PROVE  /\ Front(s) \in Seq(S) /\ Len(Front(s)) = Len(s) - 1 /\ Len(s) \in Nat \ {0}
         /\ \A i \in 1..(Len(s) - 1) : Front(s)[i] = s[i]
         /\ Last(s) = s[Len(s)]
<1>1. Len(s) \in Nat \ {0} /\ \A i \in 1..Len(s) : s[i] \in S
  BY EmptySeq
<1>2. /\ SubSeq(s, 1, Len(s) - 1) \in Seq(S) /\ Len(SubSeq(s, 1, Len(s) - 1)) = Len(s) - 1
      /\ \A i \in 1..(Len(s) - 1) : SubSeq(s, 1, Len(s) - 1)[i] = s[i]
  <2>. DEFINE n == Len(s) - 1
              t == SubSeq(s, 1, n)
  <2>1. n \in Nat /\ \A i \in 1..n : s[i] \in S
    BY <1>1
  <2>2. /\ t \in Seq(S) /\ Len(t) = (IF 1 <= n THEN n - 1 + 1 ELSE 0)
        /\ \A i \in 1..(n - 1 + 1) : t[i] = s[1 + i - 1]
    BY <2>1, SubSeqProperties
  <2>. HIDE DEF n, t
  <2>3. Len(t) = n /\ n - 1 + 1 = n /\ \A i \in 1..n : 1 + i - 1 = i
    BY <2>1, <2>2
  <2>4. t \in Seq(S) /\ Len(t) = n /\ \A i \in 1..n : t[i] = s[i]
    BY <2>2, <2>3
  <2>. QED
    BY <2>4 DEF t, n
<1>. QED
  BY <1>1, <1>2 DEF Front, Last

\* A program started or its break set: it is last, it knows the break, and
\* those before it have been disturbed.
LEMMA BreakSet ==
  ASSUME ProgramsInv, NEW s \in Seq(Program), \A i \in 1..Len(s) : s[i].disturbed,
         NEW brk \in Nat, current_process_brk' = brk,
         programs' = Append(s, [brk |-> brk, disturbed |-> FALSE]),
         UNCHANGED <<current_mmap_vaddr, maps>>
  PROVE  ProgramsInv'
<1>. DEFINE p == [brk |-> brk, disturbed |-> FALSE]
<1>1. p \in Program /\ p.brk = brk
  BY DEF Program
<1>. HIDE DEF p
<1>2. /\ programs' \in Seq(Program) /\ Len(programs') = Len(s) + 1 /\ Len(s) \in Nat
      /\ programs'[Len(s) + 1] = p /\ \A i \in 1..Len(s) : programs'[i] = s[i]
  BY <1>1 DEF p
<1>3. \A i \in 1..(Len(programs') - 1) : programs'[i].disturbed
  BY <1>2
<1>4. Last(programs') = p
  BY <1>2 DEF Last
<1>5. BreakOwn'
  BY <1>1, <1>4 DEF BreakOwn
<1>. QED
  BY <1>2, <1>3, <1>5 DEF ProgramsInv, MapsApart

\* A mapping is put where the ones before it have ended.
LEMMA MapAdded ==
  ASSUME ProgramsInv, NEW length \in Nat, sys_mmap(length)
  PROVE  ProgramsInv'
<1>. DEFINE m == [start |-> current_mmap_vaddr, length |-> length]
            n == Len(maps)
            next == current_mmap_vaddr'
<1>1. /\ maps \in Seq(Map) /\ n \in Nat /\ current_mmap_vaddr \in Nat
      /\ \A i \in 1..n : maps[i].start + maps[i].length <= current_mmap_vaddr
      /\ \A i, j \in 1..n : i < j => maps[i].start + maps[i].length <= maps[j].start
  BY DEF ProgramsInv, MapsApart
<1>2. m \in Map /\ m.start = current_mmap_vaddr /\ m.length = length
  BY <1>1 DEF Map
<1>3. next \in Nat /\ next >= current_mmap_vaddr + length
  <2>1. /\ RoundUp(length, PAGE_SIZE) \in Nat /\ RoundUp(length, PAGE_SIZE) >= length
    BY Constants, RoundUpFits
  <2>2. next = current_mmap_vaddr + RoundUp(length, PAGE_SIZE)
    BY DEF sys_mmap, MapNext
  <2>. HIDE DEF next
  <2>. QED
    BY <1>1, <2>1, <2>2
<1>. HIDE DEF m
<1>4. /\ maps' \in Seq(Map) /\ Len(maps') = n + 1 /\ maps'[n + 1] = m
      /\ \A i \in 1..n : maps'[i] = maps[i]
  BY <1>1, <1>2 DEF sys_mmap, m
<1>. HIDE DEF n, next
<1>5. ASSUME NEW i \in 1..(n + 1) PROVE maps'[i].start + maps'[i].length <= next
  <2>1. CASE i = n + 1
    BY <1>1, <1>2, <1>3, <1>4, <2>1
  <2>2. CASE i # n + 1
    <3>1. i \in 1..n /\ maps'[i] = maps[i]
      BY <1>1, <1>4, <2>2
    <3>2. maps[i] \in Map
      BY <1>1, <3>1 DEF n
    <3>3. maps[i].start \in Nat /\ maps[i].length \in Nat
      BY <3>2 DEF Map
    <3>4. maps[i].start + maps[i].length <= current_mmap_vaddr
      BY <1>1, <3>1
    <3>. QED
      BY <1>1, <1>3, <3>1, <3>3, <3>4
  <2>. QED
    BY <2>1, <2>2
<1>6. ASSUME NEW i \in 1..(n + 1), NEW j \in 1..(n + 1), i < j
      PROVE  maps'[i].start + maps'[i].length <= maps'[j].start
  <2>1. i \in 1..n /\ maps'[i] = maps[i]
    BY <1>1, <1>4, <1>6
  <2>2. CASE j = n + 1
    BY <1>1, <1>2, <1>4, <2>1, <2>2
  <2>3. CASE j # n + 1
    <3>1. j \in 1..n /\ maps'[j] = maps[j]
      BY <1>1, <1>4, <2>3
    <3>. QED
      BY <1>1, <1>6, <2>1, <3>1
  <2>. QED
    BY <2>2, <2>3
<1>7. MapsApart'
  <2>1. DOMAIN maps' = 1..(n + 1)
    BY <1>4
  <2>. QED
    BY <1>6, <2>1 DEF MapsApart
<1>8. UNCHANGED <<programs, current_process_brk>>
  BY DEF sys_mmap
<1>9. BreakOwn'
  BY <1>8 DEF ProgramsInv, BreakOwn
<1>. QED
  BY <1>3, <1>4, <1>5, <1>7, <1>8, <1>9 DEF ProgramsInv, next

\* Each call of a program keeps their part of the invariant.
LEMMA ProgramsStep == ProgramsInv /\ (ProgramsNext \/ UNCHANGED programVars) => ProgramsInv'
<1>. SUFFICES ASSUME ProgramsInv, ProgramsNext \/ UNCHANGED programVars PROVE ProgramsInv'
  OBVIOUS
<1>1. /\ programs \in Seq(Program) /\ Len(programs) \in Nat
      /\ \A i \in 1..(Len(programs) - 1) : programs[i].disturbed
  BY DEF ProgramsInv
<1>2. ASSUME NEW end \in Lengths, set_process_brk(end) PROVE ProgramsInv'
  <2>. DEFINE s == [i \in DOMAIN programs |-> [programs[i] EXCEPT !.disturbed = TRUE]]
  <2>1. end \in Nat /\ FirstBrk \in Nat /\ PAGE_SIZE \in Nat \ {0}
    BY Constants
  <2>2. Max({FirstBrk, end}) \in Nat
    <3>1. \E x \in {FirstBrk, end} : \A y \in {FirstBrk, end} : x >= y
      BY <2>1
    <3>2. Max({FirstBrk, end}) \in {FirstBrk, end}
      BY <3>1 DEF Max
    <3>. QED
      BY <2>1, <3>2
  <2>3. RoundUp(Max({FirstBrk, end}), PAGE_SIZE) \in Nat
    BY <2>1, <2>2, RoundUpFits
  <2>4. s \in Seq(Program) /\ \A i \in 1..Len(s) : s[i].disturbed
    <3>1. DOMAIN programs = 1..Len(programs) /\ DOMAIN s = 1..Len(programs)
      BY <1>1
    <3>2. ASSUME NEW i \in 1..Len(programs) PROVE s[i] \in Program /\ s[i].disturbed
      <4>1. programs[i] \in Program
        BY <1>1
      <4>2. s[i] = [programs[i] EXCEPT !.disturbed = TRUE]
        BY <3>1
      <4>. HIDE DEF s
      <4>. QED
        BY <4>1, <4>2 DEF Program
    <3>3. s \in [1..Len(programs) -> Program]
      BY <3>1, <3>2
    <3>. HIDE DEF s
    <3>4. s \in Seq(Program) /\ Len(s) = Len(programs)
      BY <1>1, <3>3
    <3>. QED
      BY <3>2, <3>4
  <2>5. /\ current_process_brk' = RoundUp(Max({FirstBrk, end}), PAGE_SIZE)
        /\ programs' = Append(s, [brk |-> RoundUp(Max({FirstBrk, end}), PAGE_SIZE),
                                  disturbed |-> FALSE])
        /\ UNCHANGED <<current_mmap_vaddr, maps>>
    BY <1>2 DEF set_process_brk
  <2>. HIDE DEF s
  <2>. QED
    BY <2>3, <2>4, <2>5, BreakSet
<1>3. ASSUME NEW brk \in Lengths, sys_brk(brk) PROVE ProgramsInv'
  <2>. DEFINE s == Front(programs)
  <2>1. brk \in Nat
    BY Constants
  <2>2. s \in Seq(Program) /\ \A i \in 1..Len(s) : s[i].disturbed
    BY <1>1, <1>3, FrontLast DEF sys_brk
  <2>3. /\ current_process_brk' = brk /\ UNCHANGED <<current_mmap_vaddr, maps>>
        /\ programs' = s \o <<[brk |-> brk, disturbed |-> FALSE]>>
    BY <1>3 DEF sys_brk
  <2>. HIDE DEF s
  <2>4. programs' = Append(s, [brk |-> brk, disturbed |-> FALSE])
    <3>. DEFINE p == [brk |-> brk, disturbed |-> FALSE]
    <3>1. p \in Program
      BY <2>1 DEF Program
    <3>. HIDE DEF p
    <3>2. s \o <<p>> = Append(s, p)
      BY <2>2, <3>1
    <3>. QED
      BY <2>3, <3>2 DEF p
  <2>. QED
    BY <2>1, <2>2, <2>3, <2>4, BreakSet
<1>4. ASSUME NEW length \in Lengths, sys_mmap(length) PROVE ProgramsInv'
  BY <1>4, Constants, MapAdded
<1>5. CASE program_ends
  <2>1. programs # <<>> /\ programs' = Front(programs)
        /\ UNCHANGED <<current_process_brk, current_mmap_vaddr, maps>>
    BY <1>5 DEF program_ends
  <2>2. /\ programs' \in Seq(Program) /\ Len(programs') = Len(programs) - 1
        /\ \A i \in 1..(Len(programs) - 1) : programs'[i] = programs[i]
    BY <1>1, <2>1, FrontLast
  <2>3. \A i \in 1..Len(programs') : programs'[i].disturbed
    BY <1>1, <2>2
  <2>4. \A i \in 1..(Len(programs') - 1) : programs'[i].disturbed
    BY <1>1, <2>2, <2>3
  <2>5. BreakOwn'
    <3>1. CASE programs' = <<>>
      BY <3>1 DEF BreakOwn
    <3>2. CASE programs' # <<>>
      <4>1. Last(programs') = programs'[Len(programs')] /\ Len(programs') \in 1..Len(programs')
        <5>1. Last(programs') = programs'[Len(programs')] /\ Len(programs') \in Nat \ {0}
          BY <2>2, <3>2, FrontLast
        <5>. QED
          BY <5>1
      <4>. QED
        BY <2>3, <4>1 DEF BreakOwn
    <3>. QED
      BY <3>1, <3>2
  <2>. QED
    BY <2>1, <2>2, <2>4, <2>5 DEF ProgramsInv, MapsApart
<1>6. CASE UNCHANGED programVars
  BY <1>6 DEF programVars, ProgramsInv, BreakOwn, MapsApart
<1>. QED
  BY <1>2, <1>3, <1>4, <1>5, <1>6 DEF ProgramsNext

-----------------------------------------------------------------------------
(* Start, and the theorem.                                                 *)

\* Memory starts in the invariant.
LEMMA MemoryStart == MemoryInit => FramesInv /\ HeapInv /\ ProgramsInv
<1>. SUFFICES ASSUME MemoryInit PROVE FramesInv /\ HeapInv /\ ProgramsInv
  OBVIOUS
<1>1. FramesInv
  <2>1. /\ frame_bitmap = Kernel /\ used_frames_count = FirstFree /\ owned = <<>>
    BY DEF MemoryInit, Kernel
  <2>2. Kernel \in SUBSET AllFrames
    BY Constants DEF Kernel, AllFrames
  <2>3. Cardinality(Kernel) = FirstFree
    <3>1. Cardinality(0..(FirstFree - 1)) = IF 0 > FirstFree - 1 THEN 0 ELSE (FirstFree - 1) - 0 + 1
      BY Constants, FS_Interval
    <3>. QED
      BY <3>1, Constants DEF Kernel
  <2>4. owned \in Seq(AllFrames) /\ IsInjective(owned) /\ Range(owned) = {}
    BY <2>1 DEF IsInjective, Range
  <2>. QED
    BY <2>1, <2>2, <2>3, <2>4 DEF FramesInv, FramesOwned, Kernel
<1>2. HeapInv
  <2>1. /\ blocks = <<>> /\ dynamic_offset = FirstOffset /\ allocated_bytes_count = FirstBytes
        /\ allocated_blocks_count = FirstBlocks /\ free_bytes_count = HEAP_INIT_SIZE - FirstBytes
    BY DEF MemoryInit
  <2>2. blocks \in Seq(Block) /\ Len(blocks) = 0 /\ DOMAIN blocks = {}
    BY <2>1
  <2>3. InUse(blocks) = {} /\ Cardinality(InUse(blocks)) = 0
    BY <2>2, FS_EmptySet DEF InUse
  <2>4. Tally(blocks, [i \in 0..0 |-> FirstBytes])
    BY <2>2, Constants DEF Tally
  <2>5. \E f : Tally(blocks, f) /\ f[Len(blocks)] = FirstBytes
    <3>1. [i \in 0..0 |-> FirstBytes][Len(blocks)] = FirstBytes
      BY <2>2
    <3>. QED
      BY <2>4, <3>1
  <2>6. Apart(blocks, dynamic_offset)
    BY <2>2 DEF Apart
  <2>7. /\ HEAP_INIT_SIZE - FirstBytes \in Int
        /\ HEAP_INIT_SIZE - FirstBytes >= HEAP_INIT_SIZE - FirstOffset
        /\ FirstBytes + (HEAP_INIT_SIZE - FirstBytes) + 0 * Overhead = HEAP_INIT_SIZE
        /\ FirstBlocks = FirstBlocks + 0
    BY Constants
  <2>. QED
    BY <2>1, <2>2, <2>3, <2>5, <2>6, <2>7, Constants DEF HeapInv, Heap
<1>3. ProgramsInv
  <2>1. programs = <<>> /\ maps = <<>> /\ current_mmap_vaddr = 0
        /\ current_process_brk = FirstBrk + PAGE_SIZE
    BY DEF MemoryInit
  <2>. QED
    BY <2>1, Constants DEF ProgramsInv, BreakOwn, MapsApart
<1>. QED
  BY <1>1, <1>2, <1>3

\* Nothing that pmm.cpp, heap.cpp, mmap and brk hand out overlaps anything else in
\* use, and their counters agree with what is in use, however many frames, blocks
\* and programs there are and whatever sizes are asked for.
THEOREM MemoryApartHolds == MemorySpec => []MemoryApart
<1>. DEFINE I == FramesInv /\ HeapInv /\ ProgramsInv
<1>1. MemoryInit => I
  BY MemoryStart
<1>2. I /\ [FramesNext \/ HeapNext \/ ProgramsNext]_memoryVars => I'
  <2>. SUFFICES ASSUME I, [FramesNext \/ HeapNext \/ ProgramsNext]_memoryVars PROVE I'
    OBVIOUS
  <2>1. FramesNext => UNCHANGED <<heapVars, programVars>>
    BY DEF FramesNext, pmm_alloc_frame, pmm_alloc_contiguous_frames, pmm_free_frame
  <2>2. HeapNext => UNCHANGED <<frameVars, programVars>>
    BY DEF HeapNext, kmalloc, krealloc, kfree
  <2>3. ProgramsNext => UNCHANGED <<frameVars, heapVars>>
    BY DEF ProgramsNext, set_process_brk, sys_brk, sys_mmap, program_ends
  <2>4. FramesNext \/ UNCHANGED frameVars
    BY <2>2, <2>3 DEF memoryVars
  <2>5. HeapNext \/ UNCHANGED heapVars
    BY <2>1, <2>3 DEF memoryVars
  <2>6. ProgramsNext \/ UNCHANGED programVars
    BY <2>1, <2>2 DEF memoryVars
  <2>. QED
    BY <2>4, <2>5, <2>6, FramesStep, HeapStep, ProgramsStep
<1>3. I => MemoryApart
  <2>. SUFFICES ASSUME I PROVE MemoryApart
    OBVIOUS
  <2>1. FramesOwned /\ BreakOwn /\ MapsApart
    BY DEF FramesInv, ProgramsInv
  <2>2. BlocksApart
    <3>1. DOMAIN blocks = 1..Len(blocks) /\ Apart(blocks, dynamic_offset)
      BY DEF HeapInv, Heap
    <3>. QED
      BY <3>1 DEF Apart, BlocksApart
  <2>3. HeapCounted
    BY DEF HeapInv, Heap, HeapCounted, InUse
  <2>. QED
    BY <2>1, <2>2, <2>3 DEF MemoryApart
<1>. QED
  BY <1>1, <1>2, <1>3, PTL DEF MemorySpec

-----------------------------------------------------------------------------
(* Calls.  The tables f and s, what programs hold G, and st, whether        *)
(* descriptor 1 was closed under them, as values.                          *)

Objects == 1..MaxObjects

\* What programs may use.
Open(G, st) == {g \in G : g.number # ProcessHandle \/ ~st}

\* The number of g leads to the object of g.
Leads(f, s, g) ==
  IF g.number \in FdNumbers THEN f[g.number] = g.object
  ELSE /\ g.number - FD_SOCKET_OFFSET \in SocketSlots /\ g.object # Console
       /\ s[g.number - FD_SOCKET_OFFSET] = g.object

\* Every entry is held by somebody, and what is held leads to its object: the
\* first shows that nothing is left behind, the second that nothing goes astray.
Agree(f, s, G, st) ==
  /\ f \in [FdNumbers -> Objects \cup {Closed, Console}]
  /\ s \in [SocketSlots -> Objects \cup {Closed}]
  /\ G \subseteq [number : Nat, object : Objects \cup {Console}] /\ st \in BOOLEAN
  /\ \A n \in FdNumbers : f[n] # Closed => Held(n, f[n]) \in G
  /\ \A i \in SocketSlots : s[i] # Closed => Held(FD_SOCKET_OFFSET + i, s[i]) \in G
  /\ \A g \in Open(G, st) : Leads(f, s, g)

CallsInv == Agree(fd_table, socket_table, given, stray)

\* Descriptors, sockets and objects are numbers apart from each other.
LEMMA Ranges ==
  /\ Closed \notin Objects \cup {Console} /\ Console \notin Objects \cup {Closed}
  /\ FdNumbers \subseteq Nat /\ 0..2 \subseteq FdNumbers /\ SocketSlots \subseteq Nat
  /\ \A i \in SocketSlots : /\ FD_SOCKET_OFFSET + i \in Nat \ FdNumbers
                            /\ (FD_SOCKET_OFFSET + i) - FD_SOCKET_OFFSET = i
  /\ 1 \in FdNumbers
BY CallsAssumption DEF Objects, Closed, NoObject, Console, FdNumbers, SocketSlots

\* From the descriptors f and what is held G to w and H, number n is given for
\* the object x, and nobody else may use it.
Given(f, w, G, H, st, n, x) ==
  /\ w \in [FdNumbers -> Objects \cup {Closed, Console}] /\ w[n] = x
  /\ \A m \in FdNumbers \ {n} : w[m] = f[m]
  /\ H \subseteq G \cup {Held(n, x)} /\ Held(n, x) \in H
  /\ \A g \in G : g.number # n => g \in H
  /\ \A g \in Open(H, st) : g.number = n => g = Held(n, x)

\* A number is given, or given anew: dup2 takes it from who had it.
LEMMA Gives ==
  ASSUME NEW f, NEW s, NEW G, NEW st, Agree(f, s, G, st),
         NEW n \in FdNumbers, NEW x \in Objects \cup {Console}, NEW w, NEW H,
         Given(f, w, G, H, st, n, x)
  PROVE  Agree(w, s, H, st)
<1>. USE DEF Given
<1>1. Held(n, x) \in [number : Nat, object : Objects \cup {Console}]
  BY Ranges DEF Held
<1>2. H \subseteq [number : Nat, object : Objects \cup {Console}]
  BY <1>1 DEF Agree
<1>3. ASSUME NEW m \in FdNumbers, w[m] # Closed PROVE Held(m, w[m]) \in H
  <2>1. CASE m = n
    BY <2>1
  <2>2. CASE m # n
    BY <1>3, <2>2 DEF Agree, Held
  <2>. QED
    BY <2>1, <2>2
<1>4. ASSUME NEW i \in SocketSlots, s[i] # Closed PROVE Held(FD_SOCKET_OFFSET + i, s[i]) \in H
  <2>1. FD_SOCKET_OFFSET + i # n
    BY Ranges
  <2>. QED
    BY <1>4, <2>1 DEF Agree, Held
<1>5. ASSUME NEW g \in Open(H, st) PROVE Leads(w, s, g)
  <2>1. CASE g.number = n
    <3>1. g = Held(n, x)
      BY <2>1
    <3>. QED
      BY <3>1 DEF Held, Leads
  <2>2. CASE g.number # n
    <3>1. g \in Open(G, st)
      BY <2>2 DEF Open, Held
    <3>. QED
      BY <2>2, <3>1 DEF Agree, Leads
  <2>. QED
    BY <2>1, <2>2
<1>. QED
  BY <1>2, <1>3, <1>4, <1>5 DEF Agree

\* Nobody may use a descriptor that is closed.
LEMMA ClosedUnheld ==
  ASSUME NEW f, NEW s, NEW G, NEW st, Agree(f, s, G, st), NEW n \in FdNumbers, f[n] = Closed
  PROVE  \A g \in Open(G, st) : g.number # n
<1>. SUFFICES ASSUME NEW g \in Open(G, st), g.number = n PROVE FALSE
  OBVIOUS
<1>1. Leads(f, s, g) /\ g \in [number : Nat, object : Objects \cup {Console}]
  BY DEF Agree, Open
<1>. QED
  BY <1>1, Ranges DEF Leads

\* A closed descriptor is given.
LEMMA GivesClosed ==
  ASSUME NEW f, NEW s, NEW G, NEW st, Agree(f, s, G, st),
         NEW n \in FdNumbers, f[n] = Closed, NEW x \in Objects \cup {Console},
         NEW w, w = [f EXCEPT ![n] = x]
  PROVE  Agree(w, s, G \cup {Held(n, x)}, st)
<1>1. /\ w \in [FdNumbers -> Objects \cup {Closed, Console}] /\ w[n] = x
      /\ \A m \in FdNumbers \ {n} : w[m] = f[m]
  BY DEF Agree
<1>. DEFINE H == G \cup {Held(n, x)}
<1>2. \A g \in Open(H, st) : g.number = n => g = Held(n, x)
  BY ClosedUnheld DEF Open
<1>3. H \subseteq G \cup {Held(n, x)} /\ Held(n, x) \in H /\ \A g \in G : g.number # n => g \in H
  OBVIOUS
<1>. HIDE DEF H
<1>4. Agree(w, s, H, st)
  <2>1. Given(f, w, G, H, st, n, x)
    BY <1>1, <1>2, <1>3 DEF Given
  <2>. QED
    BY <2>1, Gives
<1>. QED
  BY <1>4 DEF H

\* A socket is given.
LEMMA GivesSocket ==
  ASSUME NEW f, NEW s, NEW G, NEW st, Agree(f, s, G, st),
         NEW i \in SocketSlots, s[i] = Closed, NEW x \in Objects, NEW w, w = [s EXCEPT ![i] = x]
  PROVE  Agree(f, w, G \cup {Held(FD_SOCKET_OFFSET + i, x)}, st)
<1>. DEFINE k == FD_SOCKET_OFFSET + i
            H == G \cup {Held(k, x)}
<1>1. /\ w \in [SocketSlots -> Objects \cup {Closed}] /\ w[i] = x
      /\ \A j \in SocketSlots \ {i} : w[j] = s[j]
  BY DEF Agree
<1>2. k \in Nat \ FdNumbers /\ k - FD_SOCKET_OFFSET = i
  BY Ranges
<1>. HIDE DEF k
<1>3. H \subseteq [number : Nat, object : Objects \cup {Console}]
  BY <1>2 DEF Agree, Held
<1>4. ASSUME NEW j \in SocketSlots, w[j] # Closed PROVE Held(FD_SOCKET_OFFSET + j, w[j]) \in H
  BY <1>1, <1>4 DEF Agree, k
<1>5. ASSUME NEW g \in Open(H, st) PROVE Leads(f, w, g)
  <2>1. CASE g = Held(k, x)
    BY <1>1, <1>2, <2>1, Ranges DEF Leads, Held
  <2>2. CASE g \in Open(G, st)
    <3>1. Leads(f, s, g) /\ g.object \in Objects \cup {Console}
      BY <2>2 DEF Agree, Open
    <3>2. CASE g.number \in FdNumbers
      BY <3>1, <3>2 DEF Leads
    <3>3. CASE g.number \notin FdNumbers
      BY <1>1, <3>1, <3>3, Ranges DEF Leads
    <3>. QED
      BY <3>2, <3>3
  <2>. QED
    BY <2>1, <2>2 DEF Open
<1>6. \A n \in FdNumbers : f[n] # Closed => Held(n, f[n]) \in H
  BY DEF Agree
<1>7. Agree(f, w, H, st)
  BY <1>1, <1>3, <1>4, <1>5, <1>6 DEF Agree
<1>. QED
  BY <1>7 DEF k

\* Two things that may be used have two numbers.
LEMMA NumbersOnce ==
  ASSUME NEW f, NEW s, NEW G, NEW st, Agree(f, s, G, st),
         NEW g \in Open(G, st), NEW h \in Open(G, st), g.number = h.number
  PROVE  g = h
<1>1. Leads(f, s, g) /\ Leads(f, s, h)
  BY DEF Agree
<1>2. /\ g \in [number : Nat, object : Objects \cup {Console}]
      /\ h \in [number : Nat, object : Objects \cup {Console}]
  BY DEF Agree, Open
<1>3. g.object = h.object
  BY <1>1 DEF Leads
<1>. QED
  BY <1>2, <1>3

\* A descriptor is closed by who may use it.
LEMMA Takes ==
  ASSUME NEW f, NEW s, NEW G, NEW st, Agree(f, s, G, st),
         NEW g \in Open(G, st), g.number \in FdNumbers,
         NEW w, w = [f EXCEPT ![g.number] = Closed]
  PROVE  Agree(w, s, G \ {g}, st)
<1>1. /\ w \in [FdNumbers -> Objects \cup {Closed, Console}] /\ w[g.number] = Closed
      /\ \A m \in FdNumbers \ {g.number} : w[m] = f[m]
  BY DEF Agree
<1>2. ASSUME NEW m \in FdNumbers, w[m] # Closed PROVE Held(m, w[m]) \in G \ {g}
  BY <1>1, <1>2 DEF Agree, Held
<1>3. ASSUME NEW i \in SocketSlots, s[i] # Closed
      PROVE  Held(FD_SOCKET_OFFSET + i, s[i]) \in G \ {g}
  <2>1. FD_SOCKET_OFFSET + i # g.number
    BY Ranges
  <2>. QED
    BY <1>3, <2>1 DEF Agree, Held
<1>4. ASSUME NEW h \in Open(G \ {g}, st) PROVE Leads(w, s, h)
  <2>1. h \in Open(G, st) /\ h # g
    BY DEF Open
  <2>2. h.number # g.number
    BY <2>1, NumbersOnce
  <2>. QED
    BY <1>1, <2>1, <2>2 DEF Agree, Leads
<1>. QED
  BY <1>1, <1>2, <1>3, <1>4 DEF Agree

\* A socket is closed by who may use it.
LEMMA TakesSocket ==
  ASSUME NEW f, NEW s, NEW G, NEW st, Agree(f, s, G, st),
         NEW g \in Open(G, st), NEW i \in SocketSlots, g.number = FD_SOCKET_OFFSET + i,
         NEW w, w = [s EXCEPT ![i] = Closed]
  PROVE  Agree(f, w, G \ {g}, st)
<1>1. /\ w \in [SocketSlots -> Objects \cup {Closed}] /\ w[i] = Closed
      /\ \A j \in SocketSlots \ {i} : w[j] = s[j]
  BY DEF Agree
<1>2. g.number \in Nat \ FdNumbers /\ \A j \in SocketSlots \ {i} : FD_SOCKET_OFFSET + j # g.number
  <2>1. i \in Nat /\ FD_SOCKET_OFFSET \in Nat /\ SocketSlots \subseteq Nat
    BY Ranges, CallsAssumption
  <2>. QED
    BY <2>1, Ranges
<1>3. ASSUME NEW m \in FdNumbers, f[m] # Closed PROVE Held(m, f[m]) \in G \ {g}
  BY <1>2, <1>3 DEF Agree, Held
<1>4. ASSUME NEW j \in SocketSlots, w[j] # Closed
      PROVE  Held(FD_SOCKET_OFFSET + j, w[j]) \in G \ {g}
  BY <1>1, <1>2, <1>4 DEF Agree, Held
<1>5. ASSUME NEW h \in Open(G \ {g}, st) PROVE Leads(f, w, h)
  <2>1. h \in Open(G, st) /\ h # g
    BY DEF Open
  <2>2. h.number # g.number
    BY <2>1, NumbersOnce
  <2>3. Leads(f, s, h) /\ h.number \in Nat
    BY <2>1 DEF Agree, Open
  <2>4. CASE h.number \in FdNumbers
    BY <2>3, <2>4 DEF Leads
  <2>5. CASE h.number \notin FdNumbers
    <3>1. h.number - FD_SOCKET_OFFSET \in SocketSlots \ {i}
      <4>1. i \in Nat /\ FD_SOCKET_OFFSET \in Nat
        BY Ranges, CallsAssumption
      <4>. QED
        BY <2>2, <2>3, <2>5, <4>1 DEF Leads
    <3>. QED
      BY <1>1, <2>3, <2>5, <3>1 DEF Leads
  <2>. QED
    BY <2>4, <2>5
<1>. QED
  BY <1>1, <1>3, <1>4, <1>5 DEF Agree

\* While there is room there is an object nobody has, and another one.
LEMMA FreshIn ==
  ASSUME CallsInv, NEW k \in {1, 2}, RoomFor(k)
  PROVE  /\ Fresh \in Objects
         /\ k = 2 => Min((1..MaxObjects) \ (HeldObjects \cup {Fresh})) \in Objects
<1>. DEFINE T == HeldObjects \ {Console}
            x == Fresh
<1>1. T \in SUBSET Objects
  BY DEF CallsInv, Agree, HeldObjects
<1>2. IsFiniteSet(Objects) /\ Cardinality(Objects) = MaxObjects /\ MaxObjects \in Nat
  BY FS_Interval, CallsAssumption DEF Objects
<1>3. IsFiniteSet(T) /\ Cardinality(T) \in Nat /\ Cardinality(T) + k <= MaxObjects
  BY <1>1, <1>2, FS_Subset, FS_CardinalityType DEF RoomFor
<1>4. Console \notin Objects
  BY Ranges
<1>. HIDE DEF T
<1>5. Objects \ T # {}
  <2>1. T # Objects
    BY <1>2, <1>3
  <2>. QED
    BY <1>1, <2>1
<1>6. x \in Objects
  <2>1. (1..MaxObjects) \ HeldObjects = Objects \ T
    BY <1>4 DEF Objects, T
  <2>2. Objects \ T \in SUBSET Nat
    BY DEF Objects
  <2>3. Min(Objects \ T) \in Objects \ T
    BY <1>5, <2>2, MinIn
  <2>. QED
    BY <2>1, <2>3 DEF Fresh
<1>. HIDE DEF x
<1>7. ASSUME k = 2 PROVE Min((1..MaxObjects) \ (HeldObjects \cup {x})) \in Objects
  <2>. DEFINE U == T \cup {x}
  <2>1. IsFiniteSet(U) /\ Cardinality(U) <= Cardinality(T) + 1 /\ Cardinality(U) \in Nat
    <3>1. IsFiniteSet(U) /\ Cardinality(U) = IF x \in T THEN Cardinality(T) ELSE Cardinality(T) + 1
      BY <1>3, FS_AddElement
    <3>. HIDE DEF U
    <3>. QED
      BY <1>3, <3>1
  <2>. HIDE DEF U
  <2>2. U # Objects
    BY <1>2, <1>3, <1>7, <2>1
  <2>3. Objects \ U # {} /\ Objects \ U \in SUBSET Nat
    <3>1. Objects \ U \in SUBSET Nat
      BY DEF Objects
    <3>2. U \subseteq Objects
      BY <1>1, <1>6 DEF U
    <3>. QED
      BY <2>2, <3>1, <3>2
  <2>4. (1..MaxObjects) \ (HeldObjects \cup {x}) = Objects \ U
    BY <1>4 DEF Objects, U, T
  <2>5. Min(Objects \ U) \in Objects \ U
    BY <2>3, MinIn
  <2>. QED
    BY <2>4, <2>5
<1>. QED
  BY <1>6, <1>7 DEF x

\* A free descriptor is closed.
LEMMA FreeFdsIn ==
  ASSUME NEW k, FreeFds(k) # {}
  PROVE  Min(FreeFds(k)) \in FdNumbers /\ fd_table[Min(FreeFds(k))] = Closed
<1>1. FreeFds(k) \in SUBSET Nat
  BY Ranges DEF FreeFds
<1>2. Min(FreeFds(k)) \in FreeFds(k)
  BY <1>1, MinIn
<1>. QED
  BY <1>2 DEF FreeFds

\* open gives one descriptor, pipe gives two and sock_create a socket.
LEMMA OpenAgrees ==
  ASSUME CallsInv, open \/ pipe \/ sock_create
  PROVE  CallsInv'
<1>1. CASE open
  <2>. DEFINE n == Min(FreeFds(3))
  <2>1. n \in FdNumbers /\ fd_table[n] = Closed /\ Fresh \in Objects
    BY <1>1, FreeFdsIn, FreshIn DEF open
  <2>2. /\ fd_table' = [fd_table EXCEPT ![n] = Fresh] /\ given' = given \cup {Held(n, Fresh)}
        /\ socket_table' = socket_table /\ stray' = stray
    BY <1>1 DEF open
  <2>. HIDE DEF n
  <2>3. Agree(fd_table', socket_table, given \cup {Held(n, Fresh)}, stray)
    BY <2>1, <2>2, GivesClosed DEF CallsInv
  <2>. QED
    BY <2>2, <2>3 DEF CallsInv
<1>2. CASE pipe
  <2>. DEFINE r == Min(FreeFds(3))
              w == Min(FreeFds(3) \ {r})
              x == Fresh
              y == Min((1..MaxObjects) \ (HeldObjects \cup {x}))
              f == [fd_table EXCEPT ![r] = x]
              g == [f EXCEPT ![w] = y]
  <2>1. Cardinality(FreeFds(3)) >= 2 /\ RoomFor(2)
    BY <1>2 DEF pipe
  <2>2. x \in Objects /\ y \in Objects
    BY <2>1, FreshIn
  <2>3. FreeFds(3) # {} /\ FreeFds(3) \ {r} # {} /\ FreeFds(3) \subseteq Nat
    <3>1. /\ Cardinality({}) = 0 /\ Cardinality({r}) = 1
      BY FS_EmptySet, FS_Singleton
    <3>2. FreeFds(3) # {} /\ FreeFds(3) # {r}
      BY <2>1, <3>1
    <3>3. FreeFds(3) \subseteq Nat
      BY Ranges DEF FreeFds
    <3>. HIDE DEF r
    <3>. QED
      BY <3>2, <3>3
  <2>4. r \in FdNumbers /\ fd_table[r] = Closed
    BY <2>3, FreeFdsIn
  <2>5. w \in FreeFds(3) \ {r}
    <3>. HIDE DEF r
    <3>1. FreeFds(3) \ {r} \in SUBSET Nat
      BY <2>3
    <3>. QED
      BY <2>3, <3>1, MinIn
  <2>6. /\ fd_table' = [fd_table EXCEPT ![r] = x, ![w] = y]
        /\ given' = given \cup {Held(r, x), Held(w, y)}
        /\ socket_table' = socket_table /\ stray' = stray
    BY <1>2, Zenon DEF pipe
  <2>. HIDE DEF r, w, x, y
  <2>7. fd_table' = g /\ w \in FdNumbers /\ f[w] = Closed
    BY <2>4, <2>5, <2>6 DEF CallsInv, Agree, FreeFds
  <2>. HIDE DEF f
  <2>8. Agree(f, socket_table, given \cup {Held(r, x)}, stray)
    BY <2>2, <2>4, GivesClosed DEF CallsInv, f
  <2>9. Agree(g, socket_table, (given \cup {Held(r, x)}) \cup {Held(w, y)}, stray)
    BY <2>2, <2>7, <2>8, GivesClosed
  <2>10. given' = (given \cup {Held(r, x)}) \cup {Held(w, y)}
    BY <2>6
  <2>. QED
    BY <2>6, <2>7, <2>9, <2>10 DEF CallsInv
<1>3. CASE sock_create
  <2>. DEFINE free == {i \in SocketSlots : socket_table[i] = Closed}
              i == Min(free)
  <2>1. /\ free # {} /\ RoomFor(1)
        /\ socket_table' = [socket_table EXCEPT ![i] = Fresh]
        /\ given' = given \cup {Held(FD_SOCKET_OFFSET + i, Fresh)}
        /\ fd_table' = fd_table /\ stray' = stray
    BY <1>3 DEF sock_create
  <2>2. i \in free
    <3>1. free \in SUBSET Nat
      BY Ranges
    <3>. HIDE DEF free
    <3>. QED
      BY <2>1, <3>1, MinIn
  <2>3. Fresh \in Objects
    BY <2>1, FreshIn
  <2>4. i \in SocketSlots /\ socket_table[i] = Closed
    BY <2>2
  <2>. HIDE DEF free, i
  <2>5. Agree(fd_table, socket_table', given \cup {Held(FD_SOCKET_OFFSET + i, Fresh)}, stray)
    BY <2>1, <2>3, <2>4, GivesSocket DEF CallsInv
  <2>. QED
    BY <2>1, <2>5 DEF CallsInv
<1>. QED
  BY <1>1, <1>2, <1>3

\* dup and dup2 give what the caller may use a second number.
LEMMA DupAgrees ==
  ASSUME CallsInv, NEW g \in Theirs, dup(g) \/ \E n \in FdNumbers : dup2(g, n)
  PROVE  CallsInv'
<1>1. g \in Open(given, stray)
  BY DEF Theirs, Open
<1>2. g.number \in FdNumbers /\ fd_table[g.number] = g.object /\ g.object \in Objects \cup {Console}
  <2>1. g.number \in FdNumbers
    BY DEF dup, dup2
  <2>2. Leads(fd_table, socket_table, g) /\ g.object \in Objects \cup {Console}
    BY <1>1 DEF CallsInv, Agree, Open
  <2>. QED
    BY <2>1, <2>2 DEF Leads
<1>3. CASE dup(g)
  <2>. DEFINE n == Min(FreeFds(0))
  <2>1. /\ FreeFds(0) # {} /\ fd_table' = [fd_table EXCEPT ![n] = g.object]
        /\ given' = given \cup {Held(n, g.object)}
        /\ socket_table' = socket_table /\ stray' = stray
    BY <1>2, <1>3 DEF dup, DupNumbers
  <2>2. n \in FdNumbers /\ fd_table[n] = Closed
    BY <2>1, FreeFdsIn
  <2>. HIDE DEF n
  <2>3. Agree(fd_table', socket_table, given \cup {Held(n, g.object)}, stray)
    BY <1>2, <2>1, <2>2, GivesClosed DEF CallsInv
  <2>. QED
    BY <2>1, <2>3 DEF CallsInv
<1>4. ASSUME NEW n \in FdNumbers, dup2(g, n) PROVE CallsInv'
  <2>1. /\ fd_table' = [fd_table EXCEPT ![n] = g.object]
        /\ given' = {h \in given : h.number # n} \cup {Held(n, g.object)}
        /\ socket_table' = socket_table /\ stray' = stray
    BY <1>2, <1>4 DEF dup2
  <2>2. Given(fd_table, fd_table', given, given', stray, n, g.object)
    BY <1>2, <2>1 DEF Given, CallsInv, Agree, Open
  <2>3. Agree(fd_table', socket_table, given', stray)
    BY <1>2, <2>2, Gives DEF CallsInv
  <2>. QED
    BY <2>1, <2>3 DEF CallsInv
<1>. QED
  BY <1>3, <1>4

\* sys_close, CloseHandle and closesocket take back the number they are given.
LEMMA CloseAgrees ==
  ASSUME CallsInv, NEW g \in Theirs, sys_close(g) \/ CloseHandle(g) \/ closesocket(g)
  PROVE  CallsInv'
<1>1. g \in Open(given, stray)
  BY DEF Theirs, Open
<1>2. /\ Leads(fd_table, socket_table, g) /\ g.object \in Objects \cup {Console} /\ g.number \in Nat
      /\ given' = given \ {g} /\ stray' = stray
  BY <1>1 DEF CallsInv, Agree, Open, sys_close, CloseHandle, closesocket
<1>3. sock_is_socket(g.number) <=> g.number \notin FdNumbers
  <2>1. CASE g.number \in FdNumbers
    <3>1. g.number < FD_SOCKET_OFFSET
      BY <2>1, CallsAssumption DEF FdNumbers
    <3>. QED
      BY <2>1, <3>1, <1>2, CallsAssumption DEF sock_is_socket
  <2>2. CASE g.number \notin FdNumbers
    <3>1. /\ g.number - FD_SOCKET_OFFSET \in SocketSlots
          /\ socket_table[g.number - FD_SOCKET_OFFSET] # Closed
      BY <1>2, <2>2, Ranges DEF Leads
    <3>2. g.number >= FD_SOCKET_OFFSET /\ g.number < FD_SOCKET_OFFSET + MAX_SOCKETS
      BY <1>2, <3>1, CallsAssumption DEF SocketSlots
    <3>. QED
      BY <2>2, <3>1, <3>2 DEF sock_is_socket
  <2>. QED
    BY <2>1, <2>2
<1>4. CASE g.number \in FdNumbers
  <2>1. fd_table' = [fd_table EXCEPT ![g.number] = Closed] /\ socket_table' = socket_table
    BY <1>3, <1>4 DEF sys_close, CloseHandle, closesocket, CloseRoute, VfsClosed
  <2>2. Agree(fd_table', socket_table, given \ {g}, stray)
    BY <1>1, <1>4, <2>1, Takes DEF CallsInv
  <2>. QED
    BY <1>2, <2>1, <2>2 DEF CallsInv
<1>5. CASE g.number \notin FdNumbers
  <2>. DEFINE i == g.number - FD_SOCKET_OFFSET
  <2>1. socket_table' = [socket_table EXCEPT ![i] = Closed] /\ fd_table' = fd_table
    BY <1>3, <1>5 DEF sys_close, CloseHandle, closesocket, CloseRoute, SocketClosed
  <2>2. i \in SocketSlots /\ g.number = FD_SOCKET_OFFSET + i
    BY <1>2, <1>5, CallsAssumption DEF Leads
  <2>. HIDE DEF i
  <2>3. Agree(fd_table, socket_table', given \ {g}, stray)
    BY <1>1, <2>1, <2>2, TakesSocket DEF CallsInv
  <2>. QED
    BY <1>2, <2>1, <2>3 DEF CallsInv
<1>. QED
  BY <1>4, <1>5

\* CloseHandle of a process closes descriptor 1, which from then on is nobody's.
LEMMA StrayAgrees ==
  ASSUME CallsInv, CloseHandle_process
  PROVE  CallsInv'
<1>1. /\ fd_table' = [fd_table EXCEPT ![1] = Closed]
      /\ socket_table' = socket_table /\ given' = given /\ stray' = TRUE
  BY Ranges DEF CloseHandle_process, VfsClosed, ProcessHandle
<1>2. \A m \in FdNumbers : fd_table'[m] = IF m = 1 THEN Closed ELSE fd_table[m]
  BY <1>1 DEF CallsInv, Agree
<1>3. \A g \in Open(given, TRUE) : g \in Open(given, stray) /\ g.number # 1
  BY DEF Open, ProcessHandle
<1>4. \A g \in Open(given, TRUE) : Leads(fd_table', socket_table, g)
  BY <1>2, <1>3 DEF CallsInv, Agree, Leads
<1>5. fd_table' \in [FdNumbers -> Objects \cup {Closed, Console}]
  BY <1>1 DEF CallsInv, Agree
<1>6. Agree(fd_table', socket_table, given, TRUE)
  BY <1>2, <1>4, <1>5 DEF CallsInv, Agree
<1>. QED
  BY <1>1, <1>6 DEF CallsInv

\* What is held at first are the console's three numbers.
LEMMA CallsFirst == CallsInit => CallsInv
<1>. SUFFICES ASSUME CallsInit PROVE CallsInv
  OBVIOUS
<1>1. /\ fd_table = [n \in FdNumbers |-> IF n \in 0..2 THEN Console ELSE Closed]
      /\ socket_table = [i \in SocketSlots |-> Closed]
      /\ given = {Held(n, Console) : n \in 0..2} /\ stray = FALSE
  BY DEF CallsInit
<1>2. /\ given \subseteq [number : Nat, object : Objects \cup {Console}]
      /\ \A g \in given : g.number \in 0..2 /\ g.object = Console
  BY <1>1 DEF Held
<1>3. \A g \in Open(given, stray) : Leads(fd_table, socket_table, g)
  BY <1>1, <1>2, Ranges DEF Open, Leads
<1>4. \A n \in FdNumbers : fd_table[n] # Closed => Held(n, fd_table[n]) \in given
  BY <1>1
<1>5. /\ fd_table \in [FdNumbers -> Objects \cup {Closed, Console}]
      /\ socket_table \in [SocketSlots -> Objects \cup {Closed}]
      /\ \A i \in SocketSlots : socket_table[i] = Closed
  BY <1>1
<1>. QED
  BY <1>1, <1>2, <1>3, <1>4, <1>5 DEF CallsInv, Agree

\* Every call keeps tables and numbers in agreement.
LEMMA CallsStep == CallsInv /\ [CallsNext]_callVars => CallsInv'
<1>. SUFFICES ASSUME CallsInv, [CallsNext]_callVars PROVE CallsInv'
  OBVIOUS
<1>1. CASE open \/ pipe \/ sock_create
  BY <1>1, OpenAgrees
<1>2. ASSUME NEW g \in Theirs, dup(g) \/ \E n \in FdNumbers : dup2(g, n) PROVE CallsInv'
  BY <1>2, DupAgrees
<1>3. ASSUME NEW g \in Theirs, sys_close(g) \/ CloseHandle(g) \/ closesocket(g) PROVE CallsInv'
  BY <1>3, CloseAgrees
<1>4. CASE CloseHandle_process
  BY <1>4, StrayAgrees
<1>5. CASE CreateProcessA \/ UNCHANGED callVars
  BY <1>5 DEF CreateProcessA, callVars, CallsInv
<1>. QED
  BY <1>1, <1>2, <1>3, <1>4, <1>5 DEF CallsNext

\* Where the calls lead follows from the agreement.
LEMMA AgreementLeads == CallsInv => NumbersLead
<1>. SUFFICES ASSUME CallsInv PROVE NumbersLead
  OBVIOUS
<1>1. Theirs = Open(given, stray)
  BY DEF Theirs, Open
<1>2. \A g \in Theirs : Leads(fd_table, socket_table, g) /\ g.object \in Objects \cup {Console}
                        /\ g.number \in Nat
  BY <1>1 DEF CallsInv, Agree, Open
<1>3. \A g, h \in Theirs : g.number = h.number => g = h
  BY <1>1, NumbersOnce DEF CallsInv
<1>4. \A n \in FdNumbers : ~sock_is_socket(n)
  <2>. TAKE n \in FdNumbers
  <2>1. n < FD_SOCKET_OFFSET /\ n \in Nat
    BY CallsAssumption DEF FdNumbers
  <2>. QED
    BY <2>1, CallsAssumption DEF sock_is_socket
\* Whoever may use a number that is not a descriptor's has a socket there.
<1>5. ASSUME NEW g \in Theirs, g.number \notin FdNumbers
      PROVE  sock_is_socket(g.number) /\ SocketOf(g.number) = g.object
  <2>1. /\ g.number - FD_SOCKET_OFFSET \in SocketSlots
        /\ socket_table[g.number - FD_SOCKET_OFFSET] = g.object
        /\ socket_table[g.number - FD_SOCKET_OFFSET] # Closed
    BY <1>2, <1>5, Ranges DEF Leads
  <2>2. g.number >= FD_SOCKET_OFFSET /\ g.number < FD_SOCKET_OFFSET + MAX_SOCKETS
    BY <1>2, <2>1, CallsAssumption DEF SocketSlots
  <2>. QED
    BY <2>1, <2>2 DEF sock_is_socket, SocketOf
<1>6. ReachesOwn
  <2>. SUFFICES ASSUME NEW g \in Theirs, g.object # Console
                PROVE  /\ sys_read(g.number) = g.object /\ sys_write(g.number) = g.object
                       /\ g.number \in FdNumbers => /\ vfs_read_reaches(g.number) = g.object
                                                    /\ vfs_write_reaches(g.number) = g.object
    BY DEF ReachesOwn
  <2>1. CASE g.number \in FdNumbers
    <3>1. fd_table[g.number] = g.object /\ g.object # Closed
      BY <1>2, <2>1, Ranges DEF Leads
    <3>2. vfs_read_reaches(g.number) = g.object /\ vfs_write_reaches(g.number) = g.object
      BY <2>1, <3>1 DEF vfs_read_reaches, vfs_write_reaches, VfsReaches
    <3>. QED
      BY <1>4, <2>1, <3>1, <3>2 DEF sys_read, sys_write
  <2>2. CASE g.number \notin FdNumbers
    BY <1>5, <2>2 DEF sys_read, sys_write
  <2>. QED
    BY <2>1, <2>2
<1>7. NothingLeft
  <2>0. \A n, x : Held(n, x) \in given => x \in HeldObjects
    <3>. SUFFICES ASSUME NEW n, NEW x, Held(n, x) \in given PROVE x \in HeldObjects
      OBVIOUS
    <3>1. Held(n, x).object = x
      BY DEF Held
    <3>. QED
      BY <3>1 DEF HeldObjects
  <2>1. \A n \in FdNumbers : fd_table[n] # Closed => fd_table[n] \in HeldObjects
    <3>1. \A n \in FdNumbers : fd_table[n] # Closed => Held(n, fd_table[n]) \in given
      BY DEF CallsInv, Agree
    <3>. QED
      BY <2>0, <3>1
  <2>2. \A i \in SocketSlots : socket_table[i] # Closed => socket_table[i] \in HeldObjects
    <3>1. \A i \in SocketSlots : socket_table[i] # Closed =>
                                   Held(FD_SOCKET_OFFSET + i, socket_table[i]) \in given
      BY DEF CallsInv, Agree
    <3>. QED
      BY <2>0, <3>1
  <2>3. ~stray => \A g, h \in given : g # h => g.number # h.number
    BY <1>3 DEF Theirs
  <2>. QED
    BY <2>1, <2>2, <2>3 DEF NothingLeft
<1>8. NeverMisrouted
  <2>. SUFFICES ASSUME NEW n \in Numbers, n # ProcessHandle \/ ~stray
                PROVE  /\ {sys_read(n), vfs_read_reaches(n), vfs_write_reaches(n), SocketOf(n)}
                             \subseteq {Meant(n), NoObject}
                       /\ sys_write(n) \in {Meant(n), NoObject} \/ (n \in {1, 2} /\ sys_write(n) = Console)
                       /\ n \notin Pseudo => {ReadFile(n), WriteFile(n)} \subseteq {Meant(n), NoObject}
    BY DEF NeverMisrouted
  <2>1. ASSUME NEW x, Held(n, x) \in given PROVE Meant(n) = x
    <3>1. Held(n, x).number = n /\ Held(n, x).object = x
      BY DEF Held
    <3>2. \A g \in given : g.number = n => g = Held(n, x)
      BY <1>3, <2>1, <3>1 DEF Theirs
    <3>3. (CHOOSE g \in given : g.number = n) = Held(n, x)
      BY <2>1, <3>1, <3>2
    <3>. QED
      BY <2>1, <3>1, <3>3 DEF Meant
  <2>2. n \in FdNumbers /\ fd_table[n] # Closed => Meant(n) = fd_table[n]
    BY <2>1 DEF CallsInv, Agree
  <2>3. vfs_read_reaches(n) \in {Meant(n), NoObject} /\ vfs_write_reaches(n) \in {Meant(n), NoObject}
    BY <2>2 DEF vfs_read_reaches, vfs_write_reaches, VfsReaches
  <2>4. SocketOf(n) \in {Meant(n), NoObject}
    <3>1. CASE sock_is_socket(n)
      <4>. DEFINE i == n - FD_SOCKET_OFFSET
      <4>1. i \in SocketSlots /\ n = FD_SOCKET_OFFSET + i
        BY <3>1, CallsAssumption DEF sock_is_socket, Numbers, SocketSlots
      <4>2. socket_table[i] # Closed /\ SocketOf(n) = socket_table[i]
        BY <3>1 DEF sock_is_socket, SocketOf
      <4>. HIDE DEF i
      <4>3. Held(n, socket_table[i]) \in given
        BY <4>1, <4>2 DEF CallsInv, Agree
      <4>. QED
        BY <2>1, <4>2, <4>3
    <3>2. CASE ~sock_is_socket(n)
      BY <3>2 DEF SocketOf
    <3>. QED
      BY <3>1, <3>2
  <2>5. sys_read(n) \in {Meant(n), NoObject}
    BY <2>3, <2>4 DEF sys_read
  <2>6. sys_write(n) \in {Meant(n), NoObject} \/ (n \in {1, 2} /\ sys_write(n) = Console)
    BY <2>3, <2>4 DEF sys_write, Streams
  <2>7. n \notin Pseudo => {ReadFile(n), WriteFile(n)} \subseteq {Meant(n), NoObject}
    BY <2>3 DEF ReadFile, WriteFile, Pseudo
  <2>. QED
    BY <2>3, <2>4, <2>5, <2>6, <2>7
<1>. QED
  BY <1>6, <1>7, <1>8 DEF NumbersLead

\* A number leads to what it was given for, in every order of opening,
\* duplicating and closing and by every call (sys_read, sys_write, ReadFile,
\* WriteFile), and when its last number is closed an object is in no table.
THEOREM NumbersLeadHolds == CallsSpec => []NumbersLead
<1>1. CallsSpec => []CallsInv
  BY CallsFirst, CallsStep, PTL DEF CallsSpec
<1>. QED
  BY <1>1, AgreementLeads, PTL

-----------------------------------------------------------------------------
(* Loading.                                                                *)

Formats == {i.format : i \in Images}

\* Running programs whose overlaid cells are among those of A.
FrameOver(A) == [image : Images, overlaid : SUBSET A, ran : SUBSET Formats]

\* A program that has run none of its own kind has the stack, and ExitProcess
\* the way back to its caller.
Resumes(f, k, us, es, rsp) ==
  /\ f.image.format \in {"ELF", "PE"}
  /\ f.image.format = "ELF" /\ "ELF" \notin f.ran => us = k
  /\ f.image.format = "PE" /\ "PE" \notin f.ran => es = k /\ rsp = k

\* ResumesWhole is about the last program only: what it takes is the same of
\* every program that waits, for when it is the last again.
LoadingInv ==
  /\ \E A : frames \in Seq(FrameOver(A))
  /\ buffers = Len(frames)
  /\ \A k \in 1..Len(frames) :
       Resumes(frames[k], k, user_stack, execution_stack, saved_kernel_rsp)

\* The programs fs after cells were loaded over them and programs of G have run.
Overlay(fs, cells, G) ==
  [k \in DOMAIN fs |-> [fs[k] EXCEPT !.overlaid = @ \cup cells, !.ran = @ \cup G]]

\* The same programs with cells of B over them, and programs of G run.
After(D, fs, B, G) ==
  /\ D \in Seq(FrameOver(B)) /\ Len(D) = Len(fs) /\ Len(fs) \in Nat
  /\ \A k \in 1..Len(fs) : D[k].image = fs[k].image /\ D[k].ran = fs[k].ran \cup G

\* Overlaying cells keeps the stack of programs as it is; G is what has run.
LEMMA Overlaid ==
  ASSUME NEW A, NEW fs \in Seq(FrameOver(A)), NEW cells, NEW G, G \subseteq Formats
  PROVE  After(Overlay(fs, cells, G), fs, A \cup cells, G)
<1>. DEFINE D == Overlay(fs, cells, G)
            B == A \cup cells
<1>1. DOMAIN fs = 1..Len(fs) /\ Len(fs) \in Nat
  BY LenProperties
<1>2. ASSUME NEW k \in 1..Len(fs)
      PROVE  D[k] \in FrameOver(B) /\ D[k].image = fs[k].image /\ D[k].ran = fs[k].ran \cup G
  <2>1. fs[k] \in FrameOver(A)
    BY <1>1
  <2>2. D[k] = [fs[k] EXCEPT !.overlaid = @ \cup cells, !.ran = @ \cup G]
    BY <1>1 DEF Overlay
  <2>. HIDE DEF D
  <2>. QED
    BY <2>1, <2>2 DEF FrameOver
<1>3. DOMAIN D = 1..Len(fs) /\ D = [k \in DOMAIN D |-> D[k]]
  BY <1>1 DEF Overlay
<1>. HIDE DEF D, B
<1>4. D \in [1..Len(fs) -> FrameOver(B)]
  BY <1>2, <1>3
<1>5. D \in Seq(FrameOver(B)) /\ Len(D) = Len(fs)
  BY <1>1, <1>4
<1>. QED
  BY <1>1, <1>2, <1>5 DEF After, D, B

\* A program starts: those that wait have now run one of its kind.
LEMMA StartedResumes ==
  ASSUME LoadingInv, NEW image \in Images, image.format \in {"ELF", "PE"}, Started(image)
  PROVE  LoadingInv' /\ Len(frames') = Len(frames) + 1
<1>. DEFINE stack == IF image.format = "ELF" THEN UserStack ELSE {}
            cells == Written(image) \cup stack
            D == Disturbed(image, cells)
            new == [image |-> image, overlaid |-> stack, ran |-> {}]
            depth == Len(frames) + 1
<1>1. /\ frames' = Append(D, new) /\ buffers' = buffers + 1
      /\ IF image.format = "ELF"
         THEN user_stack' = depth /\ UNCHANGED <<execution_stack, saved_kernel_rsp>>
         ELSE execution_stack' = depth /\ saved_kernel_rsp' = depth /\ UNCHANGED user_stack
  BY Zenon DEF Started, SavedAt
<1>2. PICK A : frames \in Seq(FrameOver(A))
  BY DEF LoadingInv
<1>. DEFINE B == A \cup cells
<1>3. {image.format} \subseteq Formats
  BY DEF Formats
<1>4. new \in FrameOver(B)
  <2>1. stack \subseteq B
    OBVIOUS
  <2>. HIDE DEF stack, B
  <2>. QED
    BY <2>1 DEF FrameOver
<1>. HIDE DEF cells
<1>5. D = Overlay(frames, cells, {image.format})
  BY DEF Disturbed, Overlay
<1>. HIDE DEF D
<1>6. /\ D \in Seq(FrameOver(B)) /\ Len(D) = Len(frames) /\ Len(frames) \in Nat
      /\ \A k \in 1..Len(frames) : /\ D[k].image = frames[k].image
                                   /\ D[k].ran = frames[k].ran \cup {image.format}
  <2>1. After(Overlay(frames, cells, {image.format}), frames, B, {image.format})
    BY <1>2, <1>3, Overlaid
  <2>. QED
    BY <1>5, <2>1 DEF After
<1>7. /\ new.image = image
  OBVIOUS
<1>. HIDE DEF new, B, stack
<1>8. /\ frames' \in Seq(FrameOver(B)) /\ Len(frames') = depth /\ frames'[depth] = new
      /\ \A k \in 1..Len(frames) : frames'[k] = D[k]
  BY <1>1, <1>4, <1>6, AppendProperties
<1>9. ASSUME NEW k \in 1..depth
      PROVE  Resumes(frames'[k], k, user_stack', execution_stack', saved_kernel_rsp')
  <2>1. CASE k = depth
    <3>1. frames'[k].image.format = image.format
      BY <1>7, <1>8, <2>1
    <3>. QED
      BY <1>1, <2>1, <3>1 DEF Resumes
  <2>2. CASE k # depth
    <3>1. k \in 1..Len(frames)
      BY <1>6, <2>2
    <3>2. /\ frames'[k].image = frames[k].image /\ frames'[k].ran = frames[k].ran \cup {image.format}
          /\ Resumes(frames[k], k, user_stack, execution_stack, saved_kernel_rsp)
      BY <1>6, <1>8, <3>1 DEF LoadingInv
    <3>3. CASE image.format = "ELF"
      BY <1>1, <3>2, <3>3 DEF Resumes
    <3>4. CASE image.format = "PE"
      BY <1>1, <3>2, <3>4 DEF Resumes
    <3>. QED
      BY <3>3, <3>4
  <2>. QED
    BY <2>1, <2>2
<1>10. buffers' = Len(frames')
  BY <1>1, <1>8 DEF LoadingInv
<1>. QED
  BY <1>8, <1>9, <1>10 DEF LoadingInv

\* A program is refused: those that wait go on as they were.
LEMMA RefusedResumes ==
  ASSUME LoadingInv, NEW image, Refused(image)
  PROVE  LoadingInv' /\ Len(frames') = Len(frames)
<1>1. PICK A : frames \in Seq(FrameOver(A))
  BY DEF LoadingInv
<1>. DEFINE cells == Written(image)
            D == [k \in DOMAIN frames |-> [frames[k] EXCEPT !.overlaid = @ \cup cells]]
<1>2. /\ frames' = frames \/ frames' = D
      /\ buffers' = buffers
      /\ UNCHANGED <<user_stack, execution_stack, saved_kernel_rsp>>
  BY DEF Refused
<1>. HIDE DEF cells
<1>3. D = Overlay(frames, cells, {})
  <2>1. ASSUME NEW k \in DOMAIN frames
        PROVE  [frames[k] EXCEPT !.overlaid = @ \cup cells] = [frames[k] EXCEPT !.overlaid = @ \cup cells, !.ran = @ \cup {}]
    <3>1. frames[k] \in FrameOver(A)
      BY <1>1
    <3>. QED
      BY <3>1 DEF FrameOver
  <2>. QED
    BY <2>1, Zenon DEF Overlay
<1>. HIDE DEF D
<1>4. /\ D \in Seq(FrameOver(A \cup cells)) /\ Len(D) = Len(frames)
      /\ \A k \in 1..Len(frames) : D[k].image = frames[k].image /\ D[k].ran = frames[k].ran \cup {}
  <2>1. After(Overlay(frames, cells, {}), frames, A \cup cells, {})
    BY <1>1, Overlaid
  <2>. QED
    BY <1>3, <2>1 DEF After
<1>5. CASE frames' = frames
  BY <1>2, <1>5 DEF LoadingInv
<1>6. CASE frames' = D
  <2>1. \A k \in 1..Len(frames) : D[k].image = frames[k].image /\ D[k].ran = frames[k].ran
    BY <1>4
  <2>2. \A k \in 1..Len(D) : Resumes(D[k], k, user_stack, execution_stack, saved_kernel_rsp)
    BY <1>4, <2>1 DEF LoadingInv, Resumes
  <2>. QED
    BY <1>2, <1>4, <1>6, <2>2 DEF LoadingInv
<1>. QED
  BY <1>2, <1>5, <1>6

\* The last program ends.
LEMMA EndsResumes ==
  ASSUME LoadingInv, frames # <<>>, Ends
  PROVE  LoadingInv' /\ memory' = memory
<1>1. PICK A : frames \in Seq(FrameOver(A))
  BY DEF LoadingInv
<1>. DEFINE n == Len(frames) - 1
            D == SubSeq(frames, 1, n)
<1>2. /\ frames' = D /\ buffers' = buffers - 1 /\ memory' = memory
      /\ UNCHANGED <<user_stack, execution_stack, saved_kernel_rsp>>
  BY DEF Ends, Front
<1>3. n \in Nat /\ \A i \in 1..n : i \in 1..Len(frames) /\ frames[i] \in FrameOver(A)
  BY <1>1
<1>4. /\ D \in Seq(FrameOver(A)) /\ Len(D) = (IF 1 <= n THEN n - 1 + 1 ELSE 0)
      /\ \A i \in 1..(n - 1 + 1) : D[i] = frames[1 + i - 1]
  <2>. HIDE DEF n
  <2>. QED
    BY <1>1, <1>3, SubSeqProperties
<1>. HIDE DEF D
<1>5. Len(D) = n /\ \A i \in 1..n : D[i] = frames[i]
  <2>. HIDE DEF n
  <2>1. Len(D) = n /\ n - 1 + 1 = n /\ \A i \in 1..n : 1 + i - 1 = i
    BY <1>3, <1>4
  <2>. QED
    BY <1>4, <2>1
<1>6. \A k \in 1..n : Resumes(D[k], k, user_stack, execution_stack, saved_kernel_rsp)
  BY <1>3, <1>5 DEF LoadingInv
<1>7. buffers' = n
  BY <1>1, <1>2 DEF LoadingInv
<1>. HIDE DEF n
<1>. QED
  BY <1>2, <1>4, <1>5, <1>6, <1>7 DEF LoadingInv

\* What can be inspected is of one of the two formats.
LEMMA InspectedFormat ==
  ASSUME NEW image, loader_inspect(image)
  PROVE  image.format \in {"ELF", "PE"}
BY DEF loader_inspect

\* No program runs at first.
LEMMA LoadingFirst == LoadingInit => LoadingInv
<1>. SUFFICES ASSUME LoadingInit PROVE LoadingInv
  OBVIOUS
<1>1. frames = <<>> /\ buffers = 0
  BY DEF LoadingInit
<1>2. frames \in Seq(FrameOver({})) /\ Len(frames) = 0
  BY <1>1
<1>3. 1..0 = {}
  OBVIOUS
<1>. QED
  BY <1>1, <1>2, <1>3 DEF LoadingInv

\* Every start, refusal and end keeps the invariant.
LEMMA LoadingStep == LoadingInv /\ [LoadingNext]_loadingVars => LoadingInv'
<1>. SUFFICES ASSUME LoadingInv, [LoadingNext]_loadingVars PROVE LoadingInv'
  OBVIOUS
<1>1. ASSUME NEW i \in Images, loader_execute_path(i) PROVE LoadingInv'
  BY <1>1, InspectedFormat, StartedResumes, RefusedResumes DEF loader_execute_path
<1>2. CASE program_returns
  BY <1>2, EndsResumes DEF program_returns
<1>3. CASE ExitProcess
  <2>1. CASE Ends
    BY <1>3, <2>1, EndsResumes DEF ExitProcess
  <2>2. CASE UNCHANGED <<frames, buffers, user_stack, execution_stack, saved_kernel_rsp>>
    BY <2>2 DEF LoadingInv
  <2>. QED
    BY <1>3, <2>1, <2>2 DEF ExitProcess
<1>4. CASE UNCHANGED loadingVars
  BY <1>4 DEF loadingVars, LoadingInv
<1>. QED
  BY <1>1, <1>2, <1>3, <1>4 DEF LoadingNext

\* The program that runs has the stack it was given and ExitProcess leads back
\* to its caller, unless it has run a program of its kind, and the copies of
\* files are those of running programs (loader_execute, exec_stub.S).
THEOREM ResumesHolds == LoadingSpec => [](ResumesWhole /\ BuffersHeld)
<1>1. LoadingSpec => []LoadingInv
  BY LoadingFirst, LoadingStep, PTL DEF LoadingSpec
<1>2. LoadingInv => ResumesWhole /\ BuffersHeld
  <2>. SUFFICES ASSUME LoadingInv PROVE ResumesWhole /\ BuffersHeld
    OBVIOUS
  <2>1. BuffersHeld
    BY DEF LoadingInv, BuffersHeld
  <2>2. CASE frames = <<>>
    BY <2>1, <2>2 DEF ResumesWhole
  <2>3. CASE frames # <<>>
    <3>1. Len(frames) \in 1..Len(frames)
      BY <2>3 DEF LoadingInv
    <3>2. Resumes(Last(frames), Len(frames), user_stack, execution_stack, saved_kernel_rsp)
      BY <3>1 DEF LoadingInv, Last
    <3>. QED
      BY <2>1, <3>2 DEF Resumes, ResumesWhole
  <2>. QED
    BY <2>1, <2>2, <2>3
<1>. QED
  BY <1>1, <1>2, PTL

\* An ELF file whose segments are all in the file loads whole.
LEMMA ParsedLoads ==
  ASSUME NEW image, image.format = "ELF", loader_inspect(image)
  PROVE  loader_load(image)
<1>. DEFINE all == Segments(image)
<1>1. \A s \in Range(all) : s.offset + s.filesz <= image.size
  BY DEF loader_inspect, elf_parse, InFile
<1>. HIDE DEF all
<1>2. \A k \in DOMAIN all : all[k].offset + all[k].filesz <= image.size
  BY <1>1 DEF Range
<1>3. Good(image) = all
  BY <1>2 DEF Good, all
<1>. QED
  BY <1>3 DEF loader_load, all

\* An ELF file that is refused leaves memory as it was, unless all it lacks is
\* an entry point: its segments are checked before any is placed (elf_parse).
THEOREM RefusedUnharmedHolds == LoadingSpec => RefusedUnharmed
<1>. DEFINE P == Len(frames') = Len(frames) /\ memory' # memory =>
                   \E i \in Images : (i.format = "PE" \/ i.entry = 0) /\ loader_execute_path(i)
<1>1. LoadingSpec => []LoadingInv
  BY LoadingFirst, LoadingStep, PTL DEF LoadingSpec
<1>2. LoadingInv /\ [LoadingNext]_loadingVars => [P]_loadingVars
  <2>. SUFFICES ASSUME LoadingInv, LoadingNext, Len(frames') = Len(frames), memory' # memory
                PROVE  \E i \in Images : (i.format = "PE" \/ i.entry = 0) /\ loader_execute_path(i)
    BY Zenon
  <2>1. ~program_returns /\ ~ExitProcess
    BY EndsResumes DEF program_returns, ExitProcess
  <2>2. PICK i \in Images : loader_execute_path(i)
    BY <2>1 DEF LoadingNext
  <2>3. ~(loader_inspect(i) /\ loader_load(i) /\ i.entry # 0)
    <3>. SUFFICES ASSUME loader_inspect(i) /\ loader_load(i) /\ i.entry # 0 PROVE FALSE
      OBVIOUS
    <3>1. Started(i) /\ i.format \in {"ELF", "PE"}
      BY <2>2, InspectedFormat DEF loader_execute_path
    <3>2. Len(frames') = Len(frames) + 1
      BY <3>1, StartedResumes
    <3>3. Len(frames) \in Nat
      BY DEF LoadingInv
    <3>. QED
      BY <3>2, <3>3
  <2>4. Refused(i)
    BY <2>2, <2>3 DEF loader_execute_path
  <2>5. loader_inspect(i)
    BY <2>4 DEF Refused
  <2>6. i.format = "PE" \/ i.entry = 0
    BY <2>3, <2>5, InspectedFormat, ParsedLoads
  <2>. QED
    BY <2>2, <2>6
<1>3. LoadingInv /\ [LoadingNext]_loadingVars => LoadingInv'
  BY LoadingStep
<1>. QED
  BY <1>1, <1>2, PTL DEF LoadingSpec, RefusedUnharmed, P

-----------------------------------------------------------------------------
(* Volumes.  The smallest and the greatest of a set, and going on.         *)

\* The least of some numbers is one of them and below the others.
LEMMA MinOf ==
  ASSUME NEW S \in SUBSET Nat, S # {}
  PROVE  Min(S) \in S /\ \A y \in S : Min(S) <= y
<1>. DEFINE R == {ss \in Nat \X Nat : ss[1] < ss[2]}
<1>1. IsWellFoundedOn(R, Nat)
  BY NatLessThanWellFounded, Zenon DEF OpToRel
<1>2. PICK x \in S : \A y \in S : <<y, x>> \notin R
  <2>. HIDE DEF R
  <2>. QED
    BY <1>1, WFMin
<1>3. \A y \in S : x =< y
  <2>. TAKE y \in S
  <2>1. <<y, x>> \in Nat \X Nat /\ ~(y < x)
    BY <1>2
  <2>. QED
    BY <2>1
<1>. QED
  BY <1>3 DEF Min

\* The greatest of some bounded numbers is one of them and above the others.
LEMMA MaxOf ==
  ASSUME NEW n \in Nat, NEW S \in SUBSET (0..n), S # {}
  PROVE  Max(S) \in S /\ \A y \in S : Max(S) >= y
<1>. DEFINE T == {n - y : y \in S}
<1>0. \A y \in S : y \in Nat /\ n - y \in Nat /\ n - y \in T
  <2>1. \A y \in S : n - y \in T
    OBVIOUS
  <2>2. \A y \in S : y \in Nat /\ n - y \in Nat
    OBVIOUS
  <2>. QED
    BY <2>1, <2>2
<1>1. T \in SUBSET Nat /\ T # {}
  BY <1>0
<1>2. Min(T) \in T /\ \A z \in T : Min(T) <= z
  <2>. HIDE DEF T
  <2>. QED
    BY <1>1, MinOf
<1>3. PICK x \in S : Min(T) = n - x
  BY <1>2
<1>4. \A y \in S : x >= y
  <2>. TAKE y \in S
  <2>1. x \in Nat /\ y \in Nat /\ n - x <= n - y
    BY <1>0, <1>2, <1>3
  <2>. QED
    BY <2>1
<1>. QED
  BY <1>4 DEF Max

\* Induction, over the set of the numbers a fact holds of.
LEMMA Upwards ==
  ASSUME NEW S \in SUBSET Nat, 0 \in S, \A n \in S : n + 1 \in S
  PROVE  S = Nat
<1>. SUFFICES ASSUME S # Nat PROVE FALSE
  OBVIOUS
<1>. DEFINE B == Nat \ S
<1>1. B \in SUBSET Nat /\ B # {}
  OBVIOUS
<1>2. Min(B) \in B /\ \A y \in B : Min(B) <= y
  <2>. HIDE DEF B
  <2>. QED
    BY <1>1, MinOf
<1>. DEFINE b == Min(B)
<1>3. b \in Nat /\ b # 0
  BY <1>2
<1>4. b - 1 \in Nat /\ ~(b <= b - 1) /\ (b - 1) + 1 = b
  <2>. HIDE DEF b
  <2>. QED
    BY <1>3
<1>5. b - 1 \in S
  BY <1>2, <1>4
<1>. QED
  BY <1>2, <1>4, <1>5

\* What holds of 0, and of i + 1 if of i, holds up to n.
LEMMA UpToN ==
  ASSUME NEW n \in Nat, NEW S, 0 \in S, \A i \in 0..n : i \in S /\ i # n => i + 1 \in S
  PROVE  \A i \in 0..n : i \in S
<1>. DEFINE T == {i \in Nat : i <= n => i \in S}
<1>1. T \in SUBSET Nat /\ 0 \in T
  OBVIOUS
<1>2. \A i \in T : i + 1 \in T
  OBVIOUS
<1>3. T = Nat
  <2>. HIDE DEF T
  <2>. QED
    BY <1>1, <1>2, Upwards
<1>. QED
  BY <1>3

\* A function that is defined by going on from the number before exists.
Follows(f, n, a, h) == f = [i \in 0..n |-> IF i = 0 THEN a ELSE h[<<f[i - 1], i>>]]

\* What is done n times over from a has a state after each time.
LEMMA Iterates ==
  ASSUME NEW n \in Nat, NEW S, NEW a \in S, NEW h \in [S \X (1..n) -> S]
  PROVE  \E f \in [0..n -> S] : Follows(f, n, a, h)
<1>. DEFINE K == {k \in Nat : k <= n => \E f \in [0..k -> S] : Follows(f, k, a, h)}
<1>1. 0 \in K
  <2>1. [i \in 0..0 |-> a] \in [0..0 -> S] /\ Follows([i \in 0..0 |-> a], 0, a, h)
    BY DEF Follows
  <2>. QED
    BY <2>1
<1>2. ASSUME NEW k \in K PROVE k + 1 \in K
  <2>. SUFFICES ASSUME k + 1 <= n PROVE \E f \in [0..(k + 1) -> S] : Follows(f, k + 1, a, h)
    OBVIOUS
  <2>1. PICK f \in [0..k -> S] : Follows(f, k, a, h)
    BY <1>2
  <2>. DEFINE g == [i \in 0..(k + 1) |-> IF i = k + 1 THEN h[<<f[k], k + 1>>] ELSE f[i]]
  <2>2. g \in [0..(k + 1) -> S]
    <3>1. <<f[k], k + 1>> \in S \X (1..n)
      BY <2>1
    <3>2. h[<<f[k], k + 1>>] \in S
      BY <3>1
    <3>. QED
      BY <3>2
  <2>3. \A i \in 0..(k + 1) : g[i] = IF i = 0 THEN a ELSE h[<<g[i - 1], i>>]
    <3>. TAKE i \in 0..(k + 1)
    <3>1. f[0] = a /\ \A j \in 1..k : f[j] = h[<<f[j - 1], j>>]
      BY <2>1 DEF Follows
    <3>2. CASE i = k + 1
      <4>1. g[i - 1] = f[k] /\ i # 0
        BY <3>2
      <4>. QED
        BY <3>2, <4>1
    <3>3. CASE i # k + 1
      BY <3>1, <3>3
    <3>. QED
      BY <3>2, <3>3
  <2>. HIDE DEF g
  <2>4. Follows(g, k + 1, a, h)
    BY <2>2, <2>3 DEF Follows
  <2>. QED
    BY <2>2, <2>4
<1>3. K = Nat
  <2>. HIDE DEF K
  <2>1. K \in SUBSET Nat
    BY DEF K
  <2>. QED
    BY <1>1, <1>2, <2>1, Upwards
<1>. QED
  BY <1>3

-----------------------------------------------------------------------------
(* Paths in their one form.                                                *)

Sym ==
  Characters \cup {"/", "backslash", ":", "mnt", "none"}
    \cup {"0", "1", "2", "3", "4", "5", "6", "7", "8", "9"}

Path == [drive : Sym, text : Seq(Sym)]

IsSqueeze(u, text) ==
  u = [i \in 0..Len(text) |-> IF i = 0 THEN <<"/">> ELSE Squeezed(u[i - 1], text[i])]

\* A character more leaves a text.
LEMMA SqueezedIn ==
  ASSUME NEW out \in Seq(Sym), NEW c \in Sym
  PROVE  Squeezed(out, c) \in Seq(Sym)
BY DEF Squeezed, Separators, Sym

\* Squeeze is followed one character after another.
LEMMA SqueezeIs ==
  ASSUME NEW text \in Seq(Sym)
  PROVE  \E u : IsSqueeze(u, text) /\ Squeeze(text) = u[Len(text)]
<1>. DEFINE n == Len(text)
<1>. DEFINE h == [x \in Seq(Sym) \X (1..n) |-> Squeezed(x[1], text[x[2]])]
<1>1. n \in Nat /\ \A i \in 1..n : text[i] \in Sym
  OBVIOUS
<1>2. h \in [Seq(Sym) \X (1..n) -> Seq(Sym)]
  <2>1. ASSUME NEW x \in Seq(Sym) \X (1..n) PROVE Squeezed(x[1], text[x[2]]) \in Seq(Sym)
    <3>1. x[1] \in Seq(Sym) /\ text[x[2]] \in Sym
      BY <1>1
    <3>. QED
      BY <3>1, SqueezedIn
  <2>. QED
    BY <2>1
<1>3. <<"/">> \in Seq(Sym)
  BY DEF Sym
<1>4. PICK f \in [0..n -> Seq(Sym)] : Follows(f, n, <<"/">>, h)
  <2>. HIDE DEF n, h
  <2>. QED
    BY <1>1, <1>2, <1>3, Iterates
<1>5. IsSqueeze(f, text)
  <2>1. ASSUME NEW i \in 1..n PROVE h[<<f[i - 1], i>>] = Squeezed(f[i - 1], text[i])
    <3>1. f[i - 1] \in Seq(Sym)
      BY <1>4
    <3>2. <<f[i - 1], i>> \in Seq(Sym) \X (1..n)
      BY <3>1
    <3>. QED
      BY <3>2
  <2>. HIDE DEF h
  <2>2. f = [i \in 0..n |-> IF i = 0 THEN <<"/">> ELSE h[<<f[i - 1], i>>]]
    BY <1>4 DEF Follows
  <2>3. \A i \in 0..n : f[i] = IF i = 0 THEN <<"/">> ELSE Squeezed(f[i - 1], text[i])
    <3>. TAKE i \in 0..n
    <3>1. i # 0 => i \in 1..n
      BY <1>1
    <3>2. f[i] = IF i = 0 THEN <<"/">> ELSE h[<<f[i - 1], i>>]
      BY <2>2, Zenon
    <3>. QED
      BY <2>1, <3>1, <3>2, Zenon
  <2>4. f = [i \in 0..n |-> f[i]]
    BY <1>4
  <2>. QED
    BY <2>3, <2>4, Zenon DEF IsSqueeze
<1>. DEFINE u == CHOOSE g : IsSqueeze(g, text)
<1>6. IsSqueeze(u, text)
  BY <1>5
<1>7. Squeeze(text) = u[Len(text)]
  BY Zenon DEF Squeeze, IsSqueeze
<1>. QED
  BY <1>6, <1>7

NoDoubles(t) ==
  /\ t \in Seq(Sym) /\ Len(t) > 0 /\ t[1] = "/"
  /\ \A j \in 1..Len(t) : t[j] # "backslash"
  /\ \A j \in 1..(Len(t) - 1) : ~(t[j] = "/" /\ t[j + 1] = "/")

Normal(t) == NoDoubles(t) /\ (Len(t) > 1 => t[Len(t)] # "/")

\* A character never makes two slashes follow one another.
LEMMA GoodStep ==
  ASSUME NEW out, NoDoubles(out), NEW c \in Sym
  PROVE  NoDoubles(Squeezed(out, c))
<1>. DEFINE d == IF c \in Separators THEN "/" ELSE c
<1>. DEFINE n == Len(out)
<1>1. d \in Sym /\ d # "backslash"
  BY DEF Separators, Sym
<1>2. out \in Seq(Sym) /\ n \in Nat /\ n > 0 /\ out[1] = "/" /\ Last(out) = out[n]
  BY DEF NoDoubles, Last
<1>3. CASE d = "/" /\ Last(out) = "/"
  BY <1>3 DEF Squeezed
<1>4. CASE ~(d = "/" /\ Last(out) = "/")
  <2>. DEFINE s == Append(out, d)
  <2>1. Squeezed(out, c) = s
    BY <1>4 DEF Squeezed
  <2>. HIDE DEF d
  <2>2. s \in Seq(Sym) /\ Len(s) = n + 1 /\ s[n + 1] = d /\ \A j \in 1..n : s[j] = out[j]
    BY <1>1, <1>2
  <2>. HIDE DEF s, n
  <2>3. \A j \in 1..(n + 1) : s[j] # "backslash"
    <3>1. \A j \in 1..(n + 1) : j \in 1..n \/ j = n + 1
      BY <1>2
    <3>2. \A j \in 1..n : out[j] # "backslash"
      BY DEF NoDoubles, n
    <3>. QED
      BY <1>1, <2>2, <3>1, <3>2
  <2>4. \A j \in 1..n : ~(s[j] = "/" /\ s[j + 1] = "/")
    <3>. TAKE j \in 1..n
    <3>1. CASE j = n
      BY <1>2, <1>4, <2>2, <3>1
    <3>2. CASE j # n
      <4>1. j \in 1..(n - 1) /\ j + 1 \in 1..n
        BY <1>2, <3>2
      <4>2. ~(out[j] = "/" /\ out[j + 1] = "/")
        BY <4>1 DEF NoDoubles, n
      <4>. QED
        BY <2>2, <4>1, <4>2
    <3>. QED
      BY <3>1, <3>2
  <2>. QED
    BY <1>2, <2>1, <2>2, <2>3, <2>4 DEF NoDoubles
<1>. QED
  BY <1>3, <1>4

\* A squeezed text has no two slashes in a row.
LEMMA SqueezeGood ==
  ASSUME NEW text \in Seq(Sym)
  PROVE  NoDoubles(Squeeze(text))
<1>1. PICK u : IsSqueeze(u, text) /\ Squeeze(text) = u[Len(text)]
  BY SqueezeIs
<1>. DEFINE n == Len(text)
<1>. DEFINE K == {i \in 0..n : NoDoubles(u[i])}
<1>2. n \in Nat /\ \A i \in 1..n : text[i] \in Sym
  OBVIOUS
<1>3. u[0] = <<"/">> /\ \A i \in 1..n : u[i] = Squeezed(u[i - 1], text[i])
  <2>1. \A i \in 0..n : u[i] = IF i = 0 THEN <<"/">> ELSE Squeezed(u[i - 1], text[i])
    BY <1>1 DEF IsSqueeze
  <2>. QED
    BY <1>2, <2>1
<1>4. NoDoubles(<<"/">>)
  BY DEF NoDoubles, Sym
<1>5. ASSUME NEW i \in 0..n, i \in K, i # n PROVE i + 1 \in K
  <2>1. i + 1 \in 1..n /\ (i + 1) - 1 = i
    BY <1>2, <1>5
  <2>2. u[i + 1] = Squeezed(u[i], text[i + 1])
    BY <1>3, <2>1
  <2>. QED
    BY <1>2, <1>5, <2>1, <2>2, GoodStep
<1>6. 0 \in K
  BY <1>2, <1>3, <1>4
<1>7. \A i \in 0..n : i \in K
  <2>. HIDE DEF K
  <2>. QED
    BY <1>2, <1>5, <1>6, UpToN
<1>. QED
  BY <1>1, <1>2, <1>7

\* Without the slash at its end it is in the one form.
LEMMA TrimNormal ==
  ASSUME NEW out, NoDoubles(out)
  PROVE  Normal(IF Len(out) > 1 /\ Last(out) = "/" THEN Front(out) ELSE out)
<1>. DEFINE n == Len(out)
<1>1. out \in Seq(Sym) /\ n \in Nat /\ n > 0 /\ Last(out) = out[n]
  BY DEF NoDoubles, Last
<1>2. CASE n > 1 /\ Last(out) = "/"
  <2>. DEFINE f == Front(out)
  <2>1. f \in Seq(Sym) /\ Len(f) = n - 1 /\ \A j \in 1..(n - 1) : f[j] = out[j]
    BY <1>1, <1>2 DEF Front
  <2>. HIDE DEF f, n
  <2>2. \A j \in 1..(n - 1) : j \in 1..n
    BY <1>1
  <2>3. \A j \in 1..(n - 2) : j \in 1..(n - 1) /\ j + 1 \in 1..(n - 1)
    BY <1>1
  <2>4. NoDoubles(f)
    <3>1. out[1] = "/" /\ (\A j \in 1..n : out[j] # "backslash")
          /\ \A j \in 1..(n - 1) : ~(out[j] = "/" /\ out[j + 1] = "/")
      BY DEF NoDoubles, n
    <3>2. 1 \in 1..(n - 1) /\ n - 1 > 0 /\ (n - 1) - 1 = n - 2
      BY <1>1, <1>2
    <3>. QED
      BY <2>1, <2>2, <2>3, <3>1, <3>2 DEF NoDoubles
  <2>5. f[n - 1] # "/"
    <3>1. n - 1 \in 1..(n - 1) /\ (n - 1) + 1 = n
      BY <1>1, <1>2
    <3>2. ~(out[n - 1] = "/" /\ out[n] = "/")
      BY <3>1 DEF NoDoubles, n
    <3>. QED
      BY <1>1, <1>2, <2>1, <3>1, <3>2
  <2>. QED
    BY <1>2, <2>1, <2>4, <2>5 DEF Normal, n, f
<1>3. CASE ~(n > 1 /\ Last(out) = "/")
  BY <1>1, <1>3 DEF Normal
<1>. QED
  BY <1>2, <1>3

\* The text vfs_normalize_path squeezes.
Whole(cwd, p) ==
  IF p.drive = NoLetter /\ (p.text = <<>> \/ Head(p.text) \notin Separators)
  THEN Joined(cwd, p.text) ELSE p.text

\* A path below the working directory is a text.
LEMMA JoinedIn ==
  ASSUME NEW cwd \in Path, NEW text \in Seq(Sym)
  PROVE  Joined(cwd, text) \in Seq(Sym)
<1>. DEFINE whole == IF cwd.drive = NoLetter THEN cwd.text ELSE <<cwd.drive, ":">> \o cwd.text
<1>1. cwd.drive \in Sym /\ cwd.text \in Seq(Sym) /\ ":" \in Sym /\ "/" \in Sym
  BY DEF Path, Sym
<1>2. whole \in Seq(Sym)
  <2>1. <<cwd.drive, ":">> \in Seq(Sym)
    BY <1>1
  <2>. QED
    BY <1>1, <2>1
<1>3. Joined(cwd, text) = (IF Last(whole) = "/" THEN whole ELSE Append(whole, "/")) \o text
  BY Zenon DEF Joined
<1>. HIDE DEF whole
<1>4. Append(whole, "/") \in Seq(Sym)
  BY <1>1, <1>2
<1>5. (IF Last(whole) = "/" THEN whole ELSE Append(whole, "/")) \in Seq(Sym)
  BY <1>2, <1>4
<1>. QED
  BY <1>3, <1>5

\* vfs_normalize_path gives a path in its one form, with its letter.
LEMMA NormalizeIs ==
  ASSUME NEW cwd \in Path, NEW p \in Path
  PROVE  LET n == vfs_normalize_path(cwd, p)
         IN  n \in Path /\ n.drive = p.drive /\ Normal(n.text)
<1>1. p.drive \in Sym /\ p.text \in Seq(Sym)
  BY DEF Path
<1>2. Whole(cwd, p) \in Seq(Sym)
  BY <1>1, JoinedIn DEF Whole
<1>. DEFINE out == Squeeze(Whole(cwd, p))
<1>. DEFINE t == IF Len(out) > 1 /\ Last(out) = "/" THEN Front(out) ELSE out
<1>3. Normal(t)
  <2>1. NoDoubles(out)
    BY <1>2, SqueezeGood
  <2>. HIDE DEF out
  <2>. QED
    BY <2>1, TrimNormal
<1>4. vfs_normalize_path(cwd, p) = [drive |-> p.drive, text |-> t]
  BY Zenon DEF vfs_normalize_path, Whole
<1>5. t \in Seq(Sym)
  BY <1>3 DEF Normal, NoDoubles
<1>. HIDE DEF t
<1>. QED
  BY <1>1, <1>3, <1>4, <1>5 DEF Path

\* A path in that form is not squeezed again.
LEMMA SqueezeSame ==
  ASSUME NEW t, Normal(t)
  PROVE  Squeeze(t) = t
<1>. DEFINE n == Len(t)
<1>1. /\ t \in Seq(Sym) /\ n \in Nat /\ n > 0 /\ t[1] = "/"
      /\ (\A j \in 1..n : t[j] # "backslash")
      /\ \A j \in 1..(n - 1) : ~(t[j] = "/" /\ t[j + 1] = "/")
  BY DEF Normal, NoDoubles
<1>2. PICK u : IsSqueeze(u, t) /\ Squeeze(t) = u[n]
  BY <1>1, SqueezeIs
<1>3. u[0] = <<"/">> /\ \A i \in 1..n : u[i] = Squeezed(u[i - 1], t[i])
  <2>1. \A i \in 0..n : u[i] = IF i = 0 THEN <<"/">> ELSE Squeezed(u[i - 1], t[i])
    BY <1>2 DEF IsSqueeze
  <2>. QED
    BY <1>1, <2>1
<1>. DEFINE K == {i \in 0..n : i > 0 => u[i] = SubSeq(t, 1, i)}
<1>. HIDE DEF n
<1>4. u[1] = SubSeq(t, 1, 1)
  <2>1. u[1] = Squeezed(<<"/">>, "/")
    BY <1>1, <1>3
  <2>2. Squeezed(<<"/">>, "/") = <<"/">>
    BY DEF Squeezed, Separators, Last
  <2>3. SubSeq(t, 1, 1) = <<"/">>
    <3>. DEFINE a == SubSeq(t, 1, 1)
    <3>1. a \in Seq(Sym) /\ Len(a) = 1 /\ a[1] = "/"
      BY <1>1 DEF n
    <3>2. <<"/">> \in Seq(Sym) /\ Len(<<"/">>) = 1 /\ <<"/">>[1] = "/"
      BY DEF Sym
    <3>. HIDE DEF a
    <3>3. \A i \in 1..Len(a) : a[i] = <<"/">>[i]
      BY <3>1, <3>2
    <3>4. a = <<"/">>
      BY <3>1, <3>2, <3>3, SeqEqual
    <3>. QED
      BY <3>4 DEF a
  <2>. QED
    BY <2>1, <2>2, <2>3
<1>5. ASSUME NEW i \in 0..n, i \in K, i # n PROVE i + 1 \in K
  <2>1. i + 1 \in 1..n /\ (i + 1) - 1 = i
    BY <1>1, <1>5
  <2>2. CASE i = 0
    BY <1>4, <2>1, <2>2
  <2>3. CASE i # 0
    <3>. DEFINE s == SubSeq(t, 1, i)
    <3>1. i \in 1..(n - 1) /\ u[i] = s
      BY <1>1, <1>5, <2>3
    <3>2. s \in Seq(Sym) /\ Len(s) = i /\ Last(s) = t[i]
      BY <1>1, <3>1 DEF n, Last
    <3>3. u[i + 1] = Squeezed(s, t[i + 1])
      BY <1>3, <2>1, <3>1
    <3>4. SubSeq(t, 1, i + 1) = Append(s, t[i + 1])
      BY <1>1, <2>1, <3>1 DEF n
    <3>5. t[i + 1] # "backslash" /\ ~(t[i] = "/" /\ t[i + 1] = "/")
      BY <1>1, <2>1, <3>1
    <3>6. Squeezed(s, t[i + 1]) = Append(s, t[i + 1])
      <4>. HIDE DEF s
      <4>. QED
        BY <3>2, <3>5 DEF Squeezed, Separators
    <3>. QED
      BY <2>1, <3>3, <3>4, <3>6
  <2>. QED
    BY <2>2, <2>3
<1>6. 0 \in K
  BY <1>1
<1>7. \A i \in 0..n : i \in K
  <2>. HIDE DEF K
  <2>. QED
    BY <1>1, <1>5, <1>6, UpToN
<1>8. u[n] = SubSeq(t, 1, n)
  BY <1>1, <1>7
<1>9. SubSeq(t, 1, n) = t
  BY <1>1 DEF n
<1>. QED
  BY <1>2, <1>8, <1>9

\* A path in its one form stays as it is.
LEMMA NormalizeSame ==
  ASSUME NEW cwd, NEW n \in Path, Normal(n.text)
  PROVE  vfs_normalize_path(cwd, n) = n
<1>1. n.text \in Seq(Sym) /\ Len(n.text) > 0 /\ n.text[1] = "/"
  BY DEF Normal, NoDoubles
<1>2. n.text # <<>> /\ Head(n.text) = "/"
  BY <1>1
<1>3. Whole(cwd, n) = n.text
  BY <1>2 DEF Whole, Separators
<1>4. vfs_normalize_path(cwd, n)
        = [drive |-> n.drive,
           text |-> IF Len(n.text) > 1 /\ Last(n.text) = "/" THEN Front(n.text) ELSE n.text]
  BY <1>3, SqueezeSame, Zenon DEF vfs_normalize_path, Whole
<1>5. ~(Len(n.text) > 1 /\ Last(n.text) = "/")
  BY DEF Normal, Last
<1>. QED
  BY <1>4, <1>5 DEF Path

\* One slash more in front of a text makes no difference.
LEMMA SqueezeSlash ==
  ASSUME NEW s \in Seq(Sym)
  PROVE  Squeeze(<<"/">> \o s) = Squeeze(s)
<1>. DEFINE t == <<"/">> \o s
<1>. DEFINE n == Len(s)
<1>1. /\ t \in Seq(Sym) /\ n \in Nat /\ Len(t) = n + 1 /\ t[1] = "/"
      /\ \A i \in 1..n : t[i + 1] = s[i]
  BY DEF Sym
<1>. HIDE DEF t
<1>2. PICK u : IsSqueeze(u, s) /\ Squeeze(s) = u[n]
  BY SqueezeIs
<1>3. PICK v : IsSqueeze(v, t) /\ Squeeze(t) = v[n + 1]
  BY <1>1, SqueezeIs
<1>4. u[0] = <<"/">> /\ \A i \in 1..n : u[i] = Squeezed(u[i - 1], s[i])
  <2>1. \A i \in 0..n : u[i] = IF i = 0 THEN <<"/">> ELSE Squeezed(u[i - 1], s[i])
    BY <1>2 DEF IsSqueeze
  <2>. QED
    BY <1>1, <2>1
<1>5. v[0] = <<"/">> /\ \A i \in 1..(n + 1) : v[i] = Squeezed(v[i - 1], t[i])
  <2>1. \A i \in 0..(n + 1) : v[i] = IF i = 0 THEN <<"/">> ELSE Squeezed(v[i - 1], t[i])
    BY <1>1, <1>3 DEF IsSqueeze
  <2>. QED
    BY <1>1, <2>1
<1>. HIDE DEF n
<1>. DEFINE K == {i \in 0..n : v[i + 1] = u[i]}
<1>6. 0 \in K
  <2>0. 1 \in 1..(n + 1) /\ 1 - 1 = 0
    BY <1>1
  <2>1. v[1] = Squeezed(<<"/">>, "/")
    BY <1>1, <1>5, <2>0
  <2>2. Squeezed(<<"/">>, "/") = <<"/">>
    BY DEF Squeezed, Separators, Last
  <2>. QED
    BY <1>1, <1>4, <2>1, <2>2
<1>7. ASSUME NEW i \in 0..n, i \in K, i # n PROVE i + 1 \in K
  <2>1. i + 1 \in 1..n /\ (i + 1) - 1 = i /\ i + 2 \in 1..(n + 1) /\ (i + 2) - 1 = i + 1
        /\ (i + 1) + 1 = i + 2
    BY <1>1, <1>7
  <2>2. u[i + 1] = Squeezed(u[i], s[i + 1])
    BY <1>4, <2>1
  <2>3. v[i + 2] = Squeezed(v[i + 1], t[i + 2])
    BY <1>5, <2>1
  <2>4. t[i + 2] = s[i + 1]
    BY <1>1, <2>1
  <2>. QED
    BY <1>7, <2>1, <2>2, <2>3, <2>4
<1>8. \A i \in 0..n : i \in K
  <2>. HIDE DEF K
  <2>. QED
    BY <1>1, <1>6, <1>7, UpToN
<1>9. v[n + 1] = u[n]
  BY <1>1, <1>8
<1>. QED
  BY <1>2, <1>3, <1>9 DEF t

-----------------------------------------------------------------------------
(* The table of mounts, and where a path leads.                            *)

Slots == 1..MAX_MOUNTS

TableOk(table) ==
  /\ table = [i \in Slots |-> table[i]]
  /\ \A i \in Slots :
       \/ table[i] = FreeMount
       \/ \E path \in Path : \E letter, root : Normal(path.text) /\ table[i] = Mount(path, letter, root)

ByPath(table, text) ==
  {i \in DOMAIN table :
     table[i].in_use /\ table[i].path.drive = NoLetter /\ Covers(table[i].path.text, text)}

\* Where vfs_resolve_path leads from a path in its one form.
Led(table, n) ==
  IF ByPath(table, n.text) = {} THEN [root |-> RamRoot, rest |-> Below(n.text)]
  ELSE LET m == table[Best(table, ByPath(table, n.text))]
       IN  [root |-> m.root, rest |-> Below(SubSeq(n.text, Len(m.path.text) + 1, Len(n.text)))]

\* There are mount slots, numbered from 1.
LEMMA SlotsAre == Slots \in SUBSET Nat /\ MAX_MOUNTS \in Nat /\ 0 \notin Slots /\ Slots # {}
<1>1. MAX_MOUNTS \in Nat /\ MAX_MOUNTS > 0
  BY VolumesAssumption
<1>2. 1 \in 1..MAX_MOUNTS
  BY <1>1
<1>. QED
  BY <1>1, <1>2 DEF Slots

\* What a slot in use holds is a path in its one form.
LEMMA SlotIs ==
  ASSUME NEW table, TableOk(table), NEW i \in Slots, table[i].in_use
  PROVE  /\ table[i].path \in Path /\ Normal(table[i].path.text)
         /\ table[i].path.drive \in Sym /\ table[i].path.text \in Seq(Sym)
<1>1. table[i] # FreeMount
  BY DEF FreeMount
<1>2. PICK path \in Path : \E letter, root : Normal(path.text) /\ table[i] = Mount(path, letter, root)
  BY <1>1 DEF TableOk
<1>3. table[i].path = path
  BY <1>2 DEF Mount
<1>. QED
  BY <1>2, <1>3 DEF Path

\* A path without a letter is led by the table.
LEMMA ResolveIs ==
  ASSUME NEW table, NEW cwd, NEW p, vfs_normalize_path(cwd, p).drive = NoLetter
  PROVE  vfs_resolve_path(table, cwd, p) = Led(table, vfs_normalize_path(cwd, p))
<1>. DEFINE n == vfs_normalize_path(cwd, p)
<1>. DEFINE used == {i \in DOMAIN table : table[i].in_use}
<1>. DEFINE byPath == {i \in used : table[i].path.drive = NoLetter /\ Covers(table[i].path.text, n.text)}
<1>1. byPath = ByPath(table, n.text)
  BY DEF ByPath
<1>2. vfs_resolve_path(table, cwd, p)
        = IF byPath = {} THEN [root |-> RamRoot, rest |-> Below(n.text)]
          ELSE LET m == table[Best(table, byPath)]
               IN  [root |-> m.root,
                    rest |-> Below(SubSeq(n.text, Len(m.path.text) + 1, Len(n.text)))]
  BY Zenon DEF vfs_resolve_path
<1>. HIDE DEF byPath, n
<1>. QED
  BY <1>1, <1>2, Zenon DEF Led, n

LetterSlots(table, letter) == {i \in DOMAIN table : table[i].in_use /\ table[i].letter = letter}
Drive(letter) == [drive |-> letter, text |-> <<>>]

\* Where a drive leads: to the first mount with that letter.
DriveRoot(table, cwd, letter) == vfs_resolve_path(table, cwd, Drive(letter)).root
FirstRoot(table, letter) == table[Min(LetterSlots(table, letter))].root

\* A mounted letter leads to the first mount that has it.
LEMMA ResolveLetter ==
  ASSUME NEW table, NEW cwd, NEW letter, ~(letter = NoLetter), LetterSlots(table, letter) # {}
  PROVE  DriveRoot(table, cwd, letter) = FirstRoot(table, letter)
<1>. DEFINE p == Drive(letter)
<1>. DEFINE n == vfs_normalize_path(cwd, p)
<1>. DEFINE used == {i \in DOMAIN table : table[i].in_use}
<1>. DEFINE byLetter == {i \in used : table[i].letter = n.drive}
<1>. DEFINE L == LetterSlots(table, letter)
<1>1. n.drive = letter
  <2>1. p.drive = letter
    BY DEF Drive
  <2>. HIDE DEF p
  <2>. QED
    BY <2>1 DEF vfs_normalize_path
<1>2. byLetter # {} /\ n.drive # NoLetter =>
        vfs_resolve_path(table, cwd, p)
          = [root |-> table[Min(byLetter)].root, rest |-> Below(n.text)]
  BY Zenon DEF vfs_resolve_path
<1>. HIDE DEF n, p
<1>3. byLetter = L
  BY <1>1 DEF LetterSlots
<1>. HIDE DEF byLetter, L
<1>4. L # {}
  BY Zenon DEF L
<1>5. vfs_resolve_path(table, cwd, p) = [root |-> table[Min(L)].root, rest |-> Below(n.text)]
  BY <1>1, <1>2, <1>3, <1>4, Zenon
<1>. DEFINE r == vfs_resolve_path(table, cwd, p)
<1>. HIDE DEF r
<1>6. r.root = table[Min(L)].root
  BY <1>5 DEF r
<1>. QED
  BY <1>6, Zenon DEF r, p, L, DriveRoot, FirstRoot

\* A prefix has the same symbols as far as it goes.
LEMMA PrefixIs ==
  ASSUME NEW s \in Seq(Sym), NEW t \in Seq(Sym)
  PROVE  IsPrefix(s, t) <=> Len(s) <= Len(t) /\ \A i \in 1..Len(s) : s[i] = t[i]
<1>. DEFINE n == Len(s)
<1>1. n \in Nat /\ Len(t) \in Nat /\ SubSeq(s, 1, n) = s
  OBVIOUS
<1>2. IsPrefix(s, t) <=> n <= Len(t) /\ s = SubSeq(t, 1, n)
  BY <1>1 DEF IsPrefix
<1>3. ASSUME n <= Len(t) PROVE s = SubSeq(t, 1, n) <=> \A i \in 1..n : s[i] = t[i]
  <2>. DEFINE a == SubSeq(t, 1, n)
  <2>1. a \in Seq(Sym) /\ Len(a) = n /\ \A i \in 1..n : a[i] = t[i]
    BY <1>1, <1>3
  <2>. HIDE DEF a
  <2>2. s = a <=> \A i \in 1..n : s[i] = a[i]
    <3>1. (\A i \in 1..n : s[i] = a[i]) => s = a
      BY <2>1, SeqEqual
    <3>. QED
      BY <3>1
  <2>. HIDE DEF n
  <2>3. (\A i \in 1..n : s[i] = a[i]) <=> \A i \in 1..n : s[i] = t[i]
    BY <2>1
  <2>. QED
    BY <2>2, <2>3 DEF a
<1>. HIDE DEF n
<1>. QED
  BY <1>2, <1>3 DEF n

\* A mount is not longer than what it covers, and is it when as long.
LEMMA CoversLen ==
  ASSUME NEW m \in Seq(Sym), Normal(m), NEW t, Normal(t), Covers(m, t)
  PROVE  Len(m) <= Len(t) /\ (Len(m) = Len(t) => m = t)
<1>1. t \in Seq(Sym) /\ Len(t) \in Nat /\ Len(t) > 0 /\ t[1] = "/"
  BY DEF Normal, NoDoubles
<1>2. IsPrefix(m, t)
  <2>1. CASE m = <<"/">>
    <3>1. Len(m) = 1 /\ m[1] = "/"
      BY <2>1
    <3>. QED
      BY <1>1, <3>1, PrefixIs
  <2>2. CASE m # <<"/">>
    BY <2>2 DEF Covers
  <2>. QED
    BY <2>1, <2>2
<1>3. Len(m) <= Len(t) /\ \A i \in 1..Len(m) : m[i] = t[i]
  BY <1>1, <1>2, PrefixIs
<1>. QED
  BY <1>1, <1>3, SeqEqual

\* A mount covers its own path.
LEMMA CoversSelf ==
  ASSUME NEW t, Normal(t)
  PROVE  Covers(t, t)
<1>1. t \in Seq(Sym)
  BY DEF Normal, NoDoubles
<1>2. IsPrefix(t, t)
  BY <1>1, PrefixIs
<1>. QED
  BY <1>2 DEF Covers

\* The mount that is taken: it covers the path, none that does is longer, and of
\* those it is the first.
LEMMA BestIs ==
  ASSUME NEW table, TableOk(table), NEW t, Normal(t), ByPath(table, t) # {}
  PROVE  LET B == ByPath(table, t)
             b == Best(table, B)
         IN  /\ b \in B /\ b \in Slots
             /\ \A j \in B : Len(table[j].path.text) <= Len(table[b].path.text)
             /\ \A i \in B : Len(table[b].path.text) <= Len(table[i].path.text) => b <= i
<1>. DEFINE B == ByPath(table, t)
<1>. DEFINE len(i) == Len(table[i].path.text)
<1>. DEFINE Lens == {len(i) : i \in B}
<1>. DEFINE D == {i \in B : \A j \in B : len(j) <= len(i)}
<1>1. DOMAIN table = Slots
  BY DEF TableOk
<1>2. B \subseteq Slots /\ B # {}
  BY <1>1 DEF ByPath
<1>3. Len(t) \in Nat
  BY DEF Normal, NoDoubles
<1>4. \A i \in B : len(i) \in 0..Len(t)
  <2>. TAKE i \in B
  <2>1. table[i].in_use /\ Covers(table[i].path.text, t) /\ i \in Slots
    BY <1>2 DEF ByPath
  <2>2. table[i].path.text \in Seq(Sym) /\ Normal(table[i].path.text)
    BY <2>1, SlotIs
  <2>3. len(i) <= Len(t)
    BY <2>1, <2>2, CoversLen
  <2>4. len(i) \in Nat
    BY <2>2
  <2>. QED
    BY <1>3, <2>3, <2>4
<1>. HIDE DEF B
<1>5. Lens \in SUBSET (0..Len(t)) /\ Lens # {}
  BY <1>2, <1>4
<1>6. Max(Lens) \in Lens /\ \A y \in Lens : Max(Lens) >= y
  <2>. HIDE DEF Lens
  <2>. QED
    BY <1>3, <1>5, MaxOf
<1>7. \E i \in B : \A j \in B : len(j) <= len(i)
  <2>1. PICK i \in B : Max(Lens) = len(i)
    BY <1>6
  <2>2. \A j \in B : len(j) <= Max(Lens)
    <3>. TAKE j \in B
    <3>1. len(j) \in Lens
      OBVIOUS
    <3>2. len(j) \in Nat /\ Max(Lens) \in Nat /\ Max(Lens) >= len(j)
      BY <1>3, <1>4, <1>5, <1>6, <3>1
    <3>. HIDE DEF Lens
    <3>. QED
      BY <3>2
  <2>. QED
    BY <2>1, <2>2
<1>8. D \in SUBSET Nat /\ D # {}
  BY <1>2, <1>7, SlotsAre
<1>9. Min(D) \in D /\ \A y \in D : Min(D) <= y
  <2>. HIDE DEF D
  <2>. QED
    BY <1>8, MinOf
<1>10. Best(table, B) = Min(D)
  BY Zenon DEF Best
<1>. DEFINE b == Min(D)
<1>11. b \in B /\ b \in Slots /\ \A j \in B : len(j) <= len(b)
  BY <1>2, <1>9
<1>12. \A i \in B : len(b) <= len(i) => b <= i
  <2>. TAKE i \in B
  <2>. HAVE len(b) <= len(i)
  <2>1. \A j \in B : len(j) \in Nat
    BY <1>3, <1>4
  <2>2. \A j \in B : len(j) <= len(i)
    <3>. TAKE j \in B
    <3>1. len(j) <= len(b) /\ len(b) \in Nat /\ len(i) \in Nat /\ len(j) \in Nat
      BY <1>11, <2>1
    <3>. HIDE DEF len, b
    <3>. QED
      BY <3>1
  <2>3. i \in D
    BY <2>2
  <2>. QED
    BY <1>9, <2>3
<1>. HIDE DEF D
<1>. QED
  BY <1>10, <1>11, <1>12 DEF B

-----------------------------------------------------------------------------
(* Mounting and unmounting.                                                *)

\* The slot vfs_mount fills, if there is one.
Filled(table, path, letter, k) ==
  /\ k \in Slots
  /\ \/ /\ k \in Replaces(table, path, letter)
        /\ \A i \in Replaces(table, path, letter) : k <= i
     \/ /\ Replaces(table, path, letter) = {} /\ ~table[k].in_use
        /\ \A i \in Slots : i < k => table[i].in_use

\* vfs_mount fills one slot, or leaves the table alone when it is full.
LEMMA MountIs ==
  ASSUME NEW table, TableOk(table), NEW path, NEW letter, NEW root
  PROVE  LET d == vfs_mount(table, path, letter, root)
         IN  \/ d = table /\ Replaces(table, path, letter) = {} /\ \A i \in Slots : table[i].in_use
             \/ \E k \in Slots : /\ Filled(table, path, letter, k)
                                 /\ d = [table EXCEPT ![k] = Mount(path, letter, root)]
<1>. DEFINE d == vfs_mount(table, path, letter, root)
<1>. DEFINE R == Replaces(table, path, letter)
<1>. DEFINE F == FreeMounts(table)
<1>1. DOMAIN table = Slots
  BY DEF TableOk
<1>2. R \in SUBSET Slots /\ F \in SUBSET Slots /\ R \in SUBSET Nat /\ F \in SUBSET Nat
      /\ \A i \in F : ~table[i].in_use
  BY <1>1, SlotsAre DEF Replaces, FreeMounts
<1>3. d = IF R # {} THEN [table EXCEPT ![Min(R)] = Mount(path, letter, root)]
          ELSE IF F # {} THEN [table EXCEPT ![Min(F)] = Mount(path, letter, root)] ELSE table
  BY Zenon DEF vfs_mount
<1>4. F = {} => \A i \in Slots : table[i].in_use
  BY <1>1 DEF FreeMounts
<1>. HIDE DEF d, R, F
<1>5. CASE R # {}
  <2>1. Min(R) \in R /\ \A i \in R : Min(R) <= i
    BY <1>2, <1>5, MinOf
  <2>2. Min(R) \in Slots /\ d = [table EXCEPT ![Min(R)] = Mount(path, letter, root)]
    BY <1>2, <1>3, <1>5, <2>1
  <2>3. Filled(table, path, letter, Min(R))
    BY <2>1, <2>2, Zenon DEF Filled, R
  <2>. QED
    BY <2>2, <2>3, Zenon DEF d
<1>6. CASE R = {} /\ F # {}
  <2>1. Min(F) \in F /\ \A i \in F : Min(F) <= i
    BY <1>2, <1>6, MinOf
  <2>0. \A i \in Slots : i < Min(F) => table[i].in_use
    <3>. DEFINE m == Min(F)
    <3>1. \A i \in Slots : i < m => i \notin F
      <4>1. m \in Nat /\ \A i \in Slots : i \in Nat
        BY <1>2, <2>1, SlotsAre
      <4>2. \A i \in F : m <= i
        BY <2>1
      <4>. HIDE DEF m
      <4>. QED
        BY <4>1, <4>2
    <3>. QED
      BY <1>1, <3>1 DEF F, FreeMounts
  <2>2. Min(F) \in Slots /\ ~table[Min(F)].in_use
        /\ d = [table EXCEPT ![Min(F)] = Mount(path, letter, root)]
    BY <1>2, <1>3, <1>6, <2>1
  <2>3. Filled(table, path, letter, Min(F))
    BY <1>6, <2>0, <2>2, Zenon DEF Filled, R
  <2>. QED
    BY <2>2, <2>3, Zenon DEF d
<1>7. CASE R = {} /\ F = {}
  BY <1>3, <1>4, <1>7, Zenon DEF d, R
<1>. QED
  BY <1>5, <1>6, <1>7

\* A table with one slot changed is a table, and differs in that slot only.
LEMMA TableSlot ==
  ASSUME NEW table, TableOk(table), NEW k \in Slots, NEW e,
         e = FreeMount \/ \E path \in Path : \E letter, root : Normal(path.text) /\ e = Mount(path, letter, root)
  PROVE  /\ TableOk([table EXCEPT ![k] = e])
         /\ [table EXCEPT ![k] = e][k] = e
         /\ \A i \in Slots : i # k => [table EXCEPT ![k] = e][i] = table[i]
<1>. DEFINE d == [table EXCEPT ![k] = e]
<1>1. table = [i \in Slots |-> table[i]]
  BY DEF TableOk
<1>2. d = [i \in Slots |-> d[i]] /\ d[k] = e /\ \A i \in Slots : i # k => d[i] = table[i]
  BY <1>1
<1>. HIDE DEF d
<1>3. TableOk(d)
  BY <1>2 DEF TableOk
<1>. QED
  BY <1>2, <1>3 DEF d

\* vfs_mount leaves a table.
LEMMA MountOk ==
  ASSUME NEW table, TableOk(table), NEW path \in Path, Normal(path.text), NEW letter, NEW root
  PROVE  TableOk(vfs_mount(table, path, letter, root))
<1>. DEFINE d == vfs_mount(table, path, letter, root)
<1>1. CASE d = table
  BY <1>1
<1>2. CASE \E k \in Slots : d = [table EXCEPT ![k] = Mount(path, letter, root)]
  <2>1. PICK k \in Slots : d = [table EXCEPT ![k] = Mount(path, letter, root)]
    BY <1>2
  <2>. HIDE DEF d
  <2>2. TableOk([table EXCEPT ![k] = Mount(path, letter, root)])
    BY TableSlot
  <2>. QED
    BY <2>1, <2>2 DEF d
<1>3. d = table \/ \E k \in Slots : d = [table EXCEPT ![k] = Mount(path, letter, root)]
  BY MountIs
<1>. HIDE DEF d
<1>4. TableOk(d)
  BY <1>1, <1>2, <1>3, Zenon DEF d
<1>. QED
  BY <1>4 DEF d

\* A slot that covers a path neither before nor after does not matter to it.
Aside(m, text) == m.in_use /\ m.path.drive = NoLetter => ~Covers(m.path.text, text)
Changed(d, table, k, e) == d = [table EXCEPT ![k] = e]

\* A path that lies outside what a slot held and holds is led as before.
LEMMA Untouched ==
  ASSUME NEW table, TableOk(table), NEW k \in Slots, NEW e, NEW n, Normal(n.text),
         NEW d, Changed(d, table, k, e),
         Aside(table[k], n.text), Aside(e, n.text)
  PROVE  Led(d, n) = Led(table, n)
<1>. DEFINE t == n.text
<1>. DEFINE B == ByPath(table, t)
<1>1. table = [i \in Slots |-> table[i]]
  BY DEF TableOk
<1>2. DOMAIN table = Slots /\ DOMAIN d = Slots /\ d[k] = e /\ \A i \in Slots : i # k => d[i] = table[i]
  BY <1>1 DEF Changed
<1>3. ByPath(d, t) = B
  <2>1. \A i \in Slots : i \in ByPath(d, t) <=> i \in B
    <3>. TAKE i \in Slots
    <3>1. CASE i = k
      BY <1>2, <3>1 DEF ByPath, Aside
    <3>2. CASE i # k
      BY <1>2, <3>2 DEF ByPath
    <3>. QED
      BY <3>1, <3>2
  <2>2. ByPath(d, t) \subseteq Slots /\ B \subseteq Slots
    BY <1>2 DEF ByPath
  <2>. QED
    BY <2>1, <2>2
<1>4. \A i \in B : i \in Slots /\ d[i] = table[i]
  <2>. TAKE i \in B
  <2>1. i \in Slots /\ table[i].in_use /\ table[i].path.drive = NoLetter /\ Covers(table[i].path.text, t)
    BY <1>2 DEF ByPath
  <2>2. CASE i # k
    BY <1>2, <2>1, <2>2
  <2>3. CASE i = k
    BY <2>1, <2>3 DEF Aside
  <2>. QED
    BY <2>2, <2>3
<1>. HIDE DEF B
<1>5. Best(d, B) = Best(table, B)
  <2>1. {i \in B : \A j \in B : Len(d[j].path.text) <= Len(d[i].path.text)}
          = {i \in B : \A j \in B : Len(table[j].path.text) <= Len(table[i].path.text)}
    BY <1>4
  <2>. QED
    BY <2>1, Zenon DEF Best
<1>6. B # {} => Best(table, B) \in B
  BY BestIs DEF B
<1>7. B # {} => d[Best(d, B)] = table[Best(table, B)]
  BY <1>4, <1>5, <1>6
<1>. QED
  BY <1>3, <1>7, Zenon DEF Led, B

-----------------------------------------------------------------------------
(* The invariant.                                                          *)

FirstTable ==
  [i \in 1..MAX_MOUNTS |-> IF i = 1 THEN Mount(Absolute(<<"/">>), "C", RamRoot) ELSE FreeMount]

VolumesInv ==
  /\ disk \in Disk
  /\ g_cwd \in Path /\ Normal(g_cwd.text)
  /\ TableOk(g_mount_table)
  /\ ~booted => g_mount_table = FirstTable /\ done = Nothing
  /\ MountVisible
  /\ file_name \in FileNames

\* The root's path is in its one form.
LEMMA RootPath == Absolute(<<"/">>) \in Path /\ Normal(<<"/">>) /\ <<"/">> \in Seq(Sym) /\ NoLetter \in Sym
<1>1. NoLetter \in Sym
  BY DEF NoLetter, Sym
<1>2. <<"/">> \in Seq(Sym) /\ Normal(<<"/">>)
  BY DEF Sym, Normal, NoDoubles
<1>. QED
  BY <1>1, <1>2 DEF Absolute, Path

\* The table boot begins with is one.
LEMMA FirstOk == TableOk(FirstTable)
<1>1. \A i \in Slots : FirstTable[i] = IF i = 1 THEN Mount(Absolute(<<"/">>), "C", RamRoot) ELSE FreeMount
  BY DEF FirstTable, Slots
<1>2. FirstTable = [i \in Slots |-> FirstTable[i]]
  BY DEF FirstTable, Slots
<1>3. Absolute(<<"/">>).text = <<"/">>
  BY DEF Absolute
<1>4. \E path \in Path : \E letter, root :
        Normal(path.text) /\ Mount(Absolute(<<"/">>), "C", RamRoot) = Mount(path, letter, root)
  BY <1>3, RootPath
<1>. QED
  BY <1>1, <1>2, <1>4 DEF TableOk

\* What is mounted, unmounted and entered are paths.
LEMMA GivenPath == MountPaths \subseteq Path
<1>1. Characters \subseteq Sym
  BY DEF Sym
<1>2. \A p \in MountPaths : p \in [drive : Characters, text : Seq(Characters)]
  BY VolumesAssumption
<1>3. \A t \in Seq(Characters) : t \in Seq(Sym)
  BY <1>1
<1>. QED
  BY <1>1, <1>2, <1>3 DEF Path

\* The invariant holds before boot.
LEMMA VolumesStart == VolumesInit => VolumesInv
<1>. SUFFICES ASSUME VolumesInit PROVE VolumesInv
  OBVIOUS
<1>1. g_cwd = Absolute(<<"/">>) /\ g_cwd.text = <<"/">>
  BY DEF VolumesInit, Absolute
<1>2. g_mount_table = FirstTable /\ done = Nothing
  BY DEF VolumesInit, FirstTable
<1>3. done.op = "none"
  BY <1>2 DEF Nothing
<1>4. MountVisible
  BY <1>3 DEF MountVisible
<1>. QED
  BY <1>1, <1>2, <1>4, RootPath, FirstOk DEF VolumesInit, VolumesInv

\* vfs_unmount keeps the invariant.
LEMMA UnmountStep ==
  ASSUME VolumesInv, NEW path \in MountPaths, vfs_unmount(path)
  PROVE  VolumesInv'
<1>. DEFINE p == vfs_normalize_path(g_cwd, path)
<1>. DEFINE R == {i \in DOMAIN g_mount_table : g_mount_table[i].in_use /\ g_mount_table[i].path = p}
<1>1. DOMAIN g_mount_table = Slots
  BY DEF VolumesInv, TableOk
<1>2. /\ R # {} /\ g_mount_table' = [g_mount_table EXCEPT ![Min(R)] = FreeMount]
      /\ booted' = booted /\ booted /\ g_cwd' = g_cwd /\ disk' = disk /\ file_name' = file_name
      /\ done' = [op |-> "unmount", path |-> p, letter |-> NoLetter, taken |-> FALSE]
  BY DEF vfs_unmount
<1>3. R \in SUBSET Nat /\ R \in SUBSET Slots
  BY <1>1, SlotsAre
<1>. HIDE DEF R, p
<1>4. Min(R) \in Slots
  BY <1>2, <1>3, MinOf
<1>5. TableOk(g_mount_table')
  BY <1>2, <1>4, TableSlot DEF VolumesInv
<1>6. MountVisible'
  <2>1. done'.op = "unmount"
    BY <1>2
  <2>. QED
    BY <2>1 DEF MountVisible
<1>. QED
  BY <1>2, <1>5, <1>6 DEF VolumesInv

\* vfs_chdir keeps the invariant.
LEMMA ChdirStep ==
  ASSUME VolumesInv, NEW path \in MountPaths, vfs_chdir(path)
  PROVE  VolumesInv'
<1>1. g_cwd' \in Path /\ Normal(g_cwd'.text)
  <2>1. g_cwd' = vfs_normalize_path(g_cwd, path) /\ g_cwd \in Path /\ path \in Path
    BY GivenPath DEF vfs_chdir, VolumesInv
  <2>. QED
    BY <2>1, NormalizeIs
<1>2. /\ booted' = booted /\ booted /\ done' = Nothing /\ g_mount_table' = g_mount_table /\ disk' = disk
      /\ file_name' = file_name
  BY DEF vfs_chdir
<1>3. MountVisible'
  <2>1. done'.op = "none"
    BY <1>2 DEF Nothing
  <2>. QED
    BY <2>1 DEF MountVisible
<1>. QED
  BY <1>1, <1>2, <1>3 DEF VolumesInv

Made(d, table, k, path, letter, root) == d = [table EXCEPT ![k] = Mount(path, letter, root)]

\* The letter of a new mount leads to it.
LEMMA NewLetter ==
  ASSUME NEW table, TableOk(table), NEW path, NEW letter, ~(letter = NoLetter), NEW root, NEW k,
         Filled(table, path, letter, k), NEW cwd,
         NEW d, Made(d, table, k, path, letter, root)
  PROVE  DriveRoot(d, cwd, letter) = root
<1>. DEFINE L == LetterSlots(d, letter)
<1>1. k \in Slots /\ table = [i \in Slots |-> table[i]] /\ DOMAIN table = Slots
  BY DEF Filled, TableOk
<1>2. DOMAIN d = Slots /\ d[k] = Mount(path, letter, root) /\ \A i \in Slots : i # k => d[i] = table[i]
  BY <1>1 DEF Made
<1>3. d[k].in_use /\ d[k].letter = letter /\ d[k].root = root
  BY <1>2 DEF Mount
<1>4. k \in L /\ L \in SUBSET Nat
  BY <1>1, <1>2, <1>3, SlotsAre DEF LetterSlots
<1>5. \A i \in L : k <= i
  <2>. TAKE i \in L
  <2>0. i \in Slots /\ d[i].in_use /\ d[i].letter = letter
    BY <1>2 DEF LetterSlots
  <2>1. CASE i = k
    BY <1>1, <2>1, SlotsAre
  <2>2. CASE i # k
    <3>1. table[i].in_use /\ table[i].letter = letter
      BY <1>2, <2>0, <2>2
    <3>2. i \in Replaces(table, path, letter)
      BY <1>1, <2>0, <3>1 DEF Replaces
    <3>. QED
      BY <3>2 DEF Filled
  <2>. QED
    BY <2>1, <2>2
<1>. HIDE DEF L
<1>6. Min(L) = k
  <2>. DEFINE m == Min(L)
  <2>1. m \in L /\ m <= k
    BY <1>4, MinOf
  <2>2. m \in Nat /\ k \in Nat /\ k <= m
    BY <1>4, <1>5, <2>1
  <2>. HIDE DEF m
  <2>3. m = k
    BY <2>1, <2>2
  <2>. QED
    BY <2>3 DEF m
<1>7. LetterSlots(d, letter) # {}
  BY <1>4 DEF L
<1>8. DriveRoot(d, cwd, letter) = FirstRoot(d, letter)
  BY <1>7, ResolveLetter, Zenon
<1>9. FirstRoot(d, letter) = root
  BY <1>3, <1>6, Zenon DEF FirstRoot, L
<1>. QED
  BY <1>8, <1>9

\* The path of a new mount leads to it.
LEMMA NewPath ==
  ASSUME NEW table, TableOk(table), NEW path \in Path, Normal(path.text), path.drive = NoLetter,
         NEW letter, NEW root, NEW k, Filled(table, path, letter, k)
  PROVE  Led([table EXCEPT ![k] = Mount(path, letter, root)], path).root = root
<1>. DEFINE d == [table EXCEPT ![k] = Mount(path, letter, root)]
<1>. DEFINE t == path.text
<1>. DEFINE B == ByPath(d, t)
<1>1. k \in Slots /\ TableOk(d) /\ d[k] = Mount(path, letter, root)
      /\ \A i \in Slots : i # k => d[i] = table[i]
  <2>1. k \in Slots
    BY DEF Filled
  <2>. QED
    BY <2>1, TableSlot
<1>. HIDE DEF d
<1>2. DOMAIN d = Slots /\ DOMAIN table = Slots
  BY <1>1 DEF TableOk
<1>3. d[k].in_use /\ d[k].path = path /\ d[k].root = root
  BY <1>1 DEF Mount
<1>4. k \in B
  BY <1>1, <1>2, <1>3, CoversSelf DEF ByPath
<1>. DEFINE b == Best(d, B)
<1>5. /\ b \in B /\ b \in Slots /\ Len(d[k].path.text) <= Len(d[b].path.text)
      /\ (Len(d[b].path.text) <= Len(d[k].path.text) => b <= k)
  <2>1. B # {}
    BY <1>4
  <2>2. /\ b \in B /\ b \in Slots
        /\ \A j \in B : Len(d[j].path.text) <= Len(d[b].path.text)
        /\ \A i \in B : Len(d[b].path.text) <= Len(d[i].path.text) => b <= i
    BY <1>1, <2>1, BestIs
  <2>. HIDE DEF b, B
  <2>. QED
    BY <1>4, <2>2
<1>. HIDE DEF b
<1>6. d[b].in_use /\ d[b].path.drive = NoLetter /\ Covers(d[b].path.text, t)
  BY <1>5 DEF ByPath
<1>7. d[b].path \in Path /\ d[b].path.text \in Seq(Sym) /\ Normal(d[b].path.text)
  BY <1>1, <1>5, <1>6, SlotIs
<1>8. d[b].path.text = t
  <2>1. Len(d[b].path.text) <= Len(t) /\ (Len(d[b].path.text) = Len(t) => d[b].path.text = t)
    BY <1>6, <1>7, CoversLen
  <2>2. Len(t) <= Len(d[b].path.text) /\ Len(t) \in Nat /\ Len(d[b].path.text) \in Nat
    BY <1>3, <1>5, <1>7 DEF Path
  <2>. QED
    BY <2>1, <2>2
<1>9. d[b].path = path
  BY <1>6, <1>7, <1>8 DEF Path
<1>10. b <= k
  <2>1. Len(t) \in Nat
    BY DEF Path
  <2>. QED
    BY <1>3, <1>5, <1>8, <2>1
<1>11. b = k
  <2>. SUFFICES ASSUME b # k PROVE FALSE
    OBVIOUS
  <2>1. table[b].in_use /\ table[b].path = path
    BY <1>1, <1>5, <1>6, <1>9
  <2>2. b \in Replaces(table, path, letter)
    BY <1>2, <1>5, <2>1 DEF Replaces
  <2>3. k <= b
    BY <2>2 DEF Filled
  <2>4. b \in Nat /\ k \in Nat
    BY <1>1, <1>5, SlotsAre
  <2>. QED
    BY <1>10, <2>3, <2>4
<1>12. Led(d, path) = [root |-> d[k].root,
                       rest |-> Below(SubSeq(t, Len(d[k].path.text) + 1, Len(t)))]
  <2>1. B # {}
    BY <1>4
  <2>. HIDE DEF B
  <2>. QED
    BY <1>11, <2>1, Zenon DEF Led, b, B
<1>13. Led(d, path).root = d[k].root
  <2>. HIDE DEF t
  <2>. QED
    BY <1>12
<1>. QED
  BY <1>3, <1>13 DEF d

\* The mount command keeps the invariant.
LEMMA CmdMountStep ==
  ASSUME VolumesInv, NEW path \in MountPaths, NEW letter, cmd_mount(path, letter)
  PROVE  VolumesInv'
<1>. DEFINE p == vfs_normalize_path(g_cwd, path)
<1>. DEFINE root == g_fat32_instance_count + 1
<1>1. /\ g_mount_table' = vfs_mount(g_mount_table, p, letter, root)
      /\ g_fat32_instance_count' = root
      /\ booted' = booted /\ booted /\ g_cwd' = g_cwd /\ disk' = disk /\ file_name' = file_name
      /\ done'.op = (IF g_mount_table' = g_mount_table THEN "full" ELSE "mount")
      /\ done'.path = p /\ done'.letter = letter
  BY DEF cmd_mount
<1>2. p \in Path /\ Normal(p.text) /\ TableOk(g_mount_table)
  BY GivenPath, NormalizeIs DEF VolumesInv
<1>. HIDE DEF p, root
<1>3. TableOk(g_mount_table')
  BY <1>1, <1>2, MountOk
<1>4. MountVisible'
  <2>. SUFFICES ASSUME g_mount_table' # g_mount_table
                PROVE  /\ p.drive = NoLetter => vfs_resolve_path(g_mount_table', g_cwd, p).root = root
                       /\ letter # NoLetter =>
                            vfs_resolve_path(g_mount_table', g_cwd, [drive |-> letter, text |-> <<>>]).root
                              = root
    BY <1>1 DEF MountVisible
  <2>1. PICK k \in Slots : /\ Filled(g_mount_table, p, letter, k)
                           /\ g_mount_table' = [g_mount_table EXCEPT ![k] = Mount(p, letter, root)]
    BY <1>1, <1>2, MountIs
  <2>2. ASSUME p.drive = NoLetter PROVE vfs_resolve_path(g_mount_table', g_cwd, p).root = root
    <3>1. vfs_normalize_path(g_cwd, p) = p
      BY <1>2, NormalizeSame
    <3>2. vfs_resolve_path(g_mount_table', g_cwd, p) = Led(g_mount_table', p)
      BY <2>2, <3>1, ResolveIs
    <3>3. Led(g_mount_table', p).root = root
      BY <1>2, <2>1, <2>2, NewPath
    <3>. QED
      BY <3>2, <3>3
  <2>3. ASSUME letter # NoLetter
        PROVE  vfs_resolve_path(g_mount_table', g_cwd, [drive |-> letter, text |-> <<>>]).root = root
    <3>1. DriveRoot(g_mount_table', g_cwd, letter) = root
      <4>1. TableOk(g_mount_table) /\ letter # NoLetter /\ Filled(g_mount_table, p, letter, k)
        BY <1>2, <2>1, <2>3, Zenon
      <4>2. Made(g_mount_table', g_mount_table, k, p, letter, root)
        BY <2>1, Zenon DEF Made
      <4>3. ~(letter = NoLetter)
        BY <4>1, Zenon
      <4>. QED
        BY <4>1, <4>2, <4>3, NewLetter
    <3>. QED
      BY <3>1, Zenon DEF DriveRoot, Drive
  <2>. QED
    BY <2>2, <2>3
<1>. QED
  BY <1>1, <1>3, <1>4 DEF VolumesInv

-----------------------------------------------------------------------------
(* What is kept of a sequence.                                             *)

IsKept(u, s, places) ==
  u = [i \in 0..Len(s) |->
        IF i = 0 THEN <<>> ELSE IF i \in places THEN Append(u[i - 1], s[i]) ELSE u[i - 1]]

\* What is kept of a sequence is followed one place after another.
LEMMA KeptIs ==
  ASSUME NEW T, NEW s \in Seq(T), NEW places
  PROVE  \E u : IsKept(u, s, places) /\ Kept(s, places) = u[Len(s)]
<1>. DEFINE n == Len(s)
<1>. DEFINE h == [x \in Seq(T) \X (1..n) |-> IF x[2] \in places THEN Append(x[1], s[x[2]]) ELSE x[1]]
<1>1. n \in Nat /\ (\A i \in 1..n : s[i] \in T) /\ <<>> \in Seq(T)
  OBVIOUS
<1>2. h \in [Seq(T) \X (1..n) -> Seq(T)]
  <2>1. ASSUME NEW x \in Seq(T) \X (1..n)
        PROVE  (IF x[2] \in places THEN Append(x[1], s[x[2]]) ELSE x[1]) \in Seq(T)
    <3>1. x[1] \in Seq(T) /\ s[x[2]] \in T
      BY <1>1
    <3>. QED
      BY <3>1
  <2>. QED
    BY <2>1
<1>3. PICK f \in [0..n -> Seq(T)] : Follows(f, n, <<>>, h)
  <2>. HIDE DEF n, h
  <2>. QED
    BY <1>1, <1>2, Iterates
<1>4. IsKept(f, s, places)
  <2>1. ASSUME NEW i \in 1..n
        PROVE  h[<<f[i - 1], i>>] = IF i \in places THEN Append(f[i - 1], s[i]) ELSE f[i - 1]
    <3>1. f[i - 1] \in Seq(T)
      BY <1>3
    <3>2. <<f[i - 1], i>> \in Seq(T) \X (1..n)
      BY <3>1
    <3>. QED
      BY <3>2
  <2>. HIDE DEF h
  <2>2. f = [i \in 0..n |-> IF i = 0 THEN <<>> ELSE h[<<f[i - 1], i>>]]
    BY <1>3 DEF Follows
  <2>3. \A i \in 0..n : f[i] = IF i = 0 THEN <<>>
                               ELSE IF i \in places THEN Append(f[i - 1], s[i]) ELSE f[i - 1]
    <3>. TAKE i \in 0..n
    <3>1. i # 0 => i \in 1..n
      BY <1>1
    <3>2. f[i] = IF i = 0 THEN <<>> ELSE h[<<f[i - 1], i>>]
      BY <2>2, Zenon
    <3>. QED
      BY <2>1, <3>1, <3>2, Zenon
  <2>4. f = [i \in 0..n |-> f[i]]
    BY <1>3
  <2>. QED
    BY <2>3, <2>4, Zenon DEF IsKept
<1>. DEFINE u == CHOOSE g : IsKept(g, s, places)
<1>5. IsKept(u, s, places)
  BY <1>4
<1>6. Kept(s, places) = u[Len(s)]
  BY Zenon DEF Kept, IsKept
<1>. QED
  BY <1>5, <1>6

\* Each place is kept or left out.
LEMMA KeptStep ==
  ASSUME NEW T, NEW s \in Seq(T), NEW places, NEW u, IsKept(u, s, places)
  PROVE  /\ u[0] = <<>>
         /\ \A i \in 1..Len(s) : u[i] = IF i \in places THEN Append(u[i - 1], s[i]) ELSE u[i - 1]
<1>1. \A i \in 0..Len(s) : u[i] = IF i = 0 THEN <<>>
                                  ELSE IF i \in places THEN Append(u[i - 1], s[i]) ELSE u[i - 1]
  BY DEF IsKept
<1>. QED
  BY <1>1

\* What is kept is of the same kind.
LEMMA KeptIn ==
  ASSUME NEW T, NEW s \in Seq(T), NEW places
  PROVE  Kept(s, places) \in Seq(T)
<1>1. PICK u : IsKept(u, s, places) /\ Kept(s, places) = u[Len(s)]
  BY KeptIs
<1>. DEFINE n == Len(s)
<1>. DEFINE K == {i \in 0..n : u[i] \in Seq(T)}
<1>2. n \in Nat /\ \A i \in 1..n : s[i] \in T
  OBVIOUS
<1>3. u[0] = <<>> /\ \A i \in 1..n : u[i] = IF i \in places THEN Append(u[i - 1], s[i]) ELSE u[i - 1]
  BY <1>1, KeptStep
<1>. HIDE DEF n
<1>4. 0 \in K
  <2>1. u[0] = <<>>
    BY <1>3, Zenon
  <2>2. u[0] \in Seq(T)
    BY <2>1
  <2>. QED
    BY <1>2, <2>2
<1>5. ASSUME NEW i \in 0..n, i \in K, i # n PROVE i + 1 \in K
  <2>1. i + 1 \in 1..n /\ (i + 1) - 1 = i
    BY <1>2, <1>5
  <2>2. u[i + 1] = IF i + 1 \in places THEN Append(u[i], s[i + 1]) ELSE u[i]
    BY <1>3, <2>1
  <2>3. u[i] \in Seq(T) /\ s[i + 1] \in T
    BY <1>2, <1>5, <2>1
  <2>4. u[i + 1] \in Seq(T)
    BY <2>2, <2>3
  <2>5. i + 1 \in 0..n
    BY <1>2, <2>1
  <2>. QED
    BY <2>4, <2>5
<1>6. \A i \in 0..n : i \in K
  <2>. HIDE DEF K
  <2>. QED
    BY <1>2, <1>4, <1>5, UpToN
<1>7. u[n] \in Seq(T)
  BY <1>2, <1>6
<1>. QED
  BY <1>1, <1>7 DEF n

\* All of a sequence is kept, and nothing of what is added to it.
LEMMA KeptFront ==
  ASSUME NEW T, NEW s \in Seq(T), NEW m \in 0..Len(s), NEW places,
         \A i \in 1..Len(s) : i \in places <=> i <= m
  PROVE  Kept(s, places) = SubSeq(s, 1, m)
<1>1. PICK u : IsKept(u, s, places) /\ Kept(s, places) = u[Len(s)]
  BY KeptIs
<1>. DEFINE n == Len(s)
<1>. DEFINE front(i) == SubSeq(s, 1, IF i <= m THEN i ELSE m)
<1>. DEFINE K == {i \in 0..n : u[i] = front(i)}
<1>2. n \in Nat /\ m \in Nat /\ m <= n
  OBVIOUS
<1>3. u[0] = <<>> /\ \A i \in 1..n : u[i] = IF i \in places THEN Append(u[i - 1], s[i]) ELSE u[i - 1]
  BY <1>1, KeptStep
<1>4. \A i \in 0..(n - 1) : SubSeq(s, 1, i + 1) = Append(SubSeq(s, 1, i), s[i + 1])
  OBVIOUS
<1>5. front(0) = <<>>
  BY <1>2
<1>6. 0 \in K
  <2>1. u[0] = <<>>
    BY <1>3, Zenon
  <2>. HIDE DEF front
  <2>. QED
    BY <1>2, <1>5, <2>1
<1>7. ASSUME NEW i \in 0..n, i \in K, i # n PROVE i + 1 \in K
  <2>. HIDE DEF n
  <2>1. i + 1 \in 1..n /\ (i + 1) - 1 = i /\ i \in 0..(n - 1)
    BY <1>2, <1>7
  <2>2. u[i + 1] = IF i + 1 \in places THEN Append(u[i], s[i + 1]) ELSE u[i]
    BY <1>3, <2>1
  <2>3. i + 1 \in places <=> i + 1 <= m
    BY <2>1 DEF n
  <2>4. CASE i + 1 <= m
    <3>1. i <= m
      BY <1>2, <2>1, <2>4
    <3>2. u[i] = SubSeq(s, 1, i)
      BY <1>7, <3>1
    <3>3. u[i + 1] = SubSeq(s, 1, i + 1)
      BY <1>4, <2>1, <2>2, <2>3, <2>4, <3>2
    <3>. QED
      BY <2>1, <2>4, <3>3
  <2>5. CASE ~(i + 1 <= m)
    <3>1. i >= m
      BY <1>2, <2>1, <2>5
    <3>2. front(i + 1) = SubSeq(s, 1, m) /\ front(i) = SubSeq(s, 1, m)
      BY <1>2, <2>1, <2>5, <3>1
    <3>3. u[i + 1] = u[i]
      BY <2>2, <2>3, <2>5
    <3>. QED
      BY <1>7, <2>1, <3>2, <3>3
  <2>. QED
    BY <2>4, <2>5
<1>8. \A i \in 0..n : i \in K
  <2>. HIDE DEF K, n
  <2>. QED
    BY <1>2, <1>6, <1>7, UpToN
<1>9. u[n] = front(n)
  BY <1>2, <1>8
<1>10. front(n) = SubSeq(s, 1, m)
  BY <1>2
<1>. QED
  BY <1>1, <1>9, <1>10

-----------------------------------------------------------------------------
(* What lies elsewhere is not affected.                                    *)

Elsewhere(q) ==
  LET n == vfs_normalize_path(g_cwd, q)
  IN  n.drive = NoLetter /\ ~Covers(done'.path.text, n.text) =>
        vfs_resolve_path(g_mount_table', g_cwd, n) = vfs_resolve_path(g_mount_table, g_cwd, n)

\* A slot that only has what was asked for changes nothing elsewhere.
LEMMA ElsewhereIs ==
  ASSUME VolumesInv, NEW q \in MountPaths, NEW k \in Slots, NEW e,
         g_mount_table' = [g_mount_table EXCEPT ![k] = e],
         g_mount_table[k].in_use => g_mount_table[k].path = done'.path,
         e.in_use => e.path = done'.path
  PROVE  Elsewhere(q)
<1>. DEFINE n == vfs_normalize_path(g_cwd, q)
<1>. SUFFICES ASSUME n.drive = NoLetter, ~Covers(done'.path.text, n.text)
              PROVE  vfs_resolve_path(g_mount_table', g_cwd, n) = vfs_resolve_path(g_mount_table, g_cwd, n)
  BY Zenon DEF Elsewhere
<1>1. n \in Path /\ Normal(n.text)
  BY GivenPath, NormalizeIs DEF VolumesInv
<1>. HIDE DEF n
<1>2. vfs_normalize_path(g_cwd, n) = n
  BY <1>1, NormalizeSame
<1>3. Led(g_mount_table', n) = Led(g_mount_table, n)
  <2>1. TableOk(g_mount_table)
    BY DEF VolumesInv
  <2>2. Aside(g_mount_table[k], n.text) /\ Aside(e, n.text)
    BY DEF Aside
  <2>3. Changed(g_mount_table', g_mount_table, k, e)
    BY Zenon DEF Changed
  <2>. QED
    BY <1>1, <2>1, <2>2, <2>3, Untouched
<1>4. vfs_resolve_path(g_mount_table', g_cwd, n) = Led(g_mount_table', n)
  BY <1>2, ResolveIs
<1>5. vfs_resolve_path(g_mount_table, g_cwd, n) = Led(g_mount_table, n)
  BY <1>2, ResolveIs
<1>. QED
  BY <1>3, <1>4, <1>5

\* vfs_unmount changes nothing elsewhere.
LEMMA UnmountElsewhere ==
  ASSUME VolumesInv, NEW path \in MountPaths, vfs_unmount(path), NEW q \in MountPaths
  PROVE  Elsewhere(q)
<1>. DEFINE p == vfs_normalize_path(g_cwd, path)
<1>. DEFINE R == {i \in DOMAIN g_mount_table : g_mount_table[i].in_use /\ g_mount_table[i].path = p}
<1>1. DOMAIN g_mount_table = Slots
  BY DEF VolumesInv, TableOk
<1>2. /\ R # {} /\ g_mount_table' = [g_mount_table EXCEPT ![Min(R)] = FreeMount]
      /\ done'.path = p
  BY DEF vfs_unmount
<1>3. R \in SUBSET Nat /\ \A i \in R : i \in Slots /\ g_mount_table[i].path = p
  BY <1>1, SlotsAre
<1>. HIDE DEF R, p
<1>4. Min(R) \in Slots /\ g_mount_table[Min(R)].path = p
  BY <1>2, <1>3, MinOf
<1>5. ~FreeMount.in_use
  BY DEF FreeMount
<1>. QED
  BY <1>2, <1>4, <1>5, ElsewhereIs

\* The mount command changes nothing elsewhere.
LEMMA CmdMountElsewhere ==
  ASSUME VolumesInv, NEW path \in MountPaths, NEW letter, cmd_mount(path, letter),
         g_mount_table' # g_mount_table, ~done'.taken, NEW q \in MountPaths
  PROVE  Elsewhere(q)
<1>. DEFINE p == vfs_normalize_path(g_cwd, path)
<1>. DEFINE root == g_fat32_instance_count + 1
<1>1. /\ g_mount_table' = vfs_mount(g_mount_table, p, letter, root)
      /\ done'.path = p
      /\ done'.taken = \E m \in Range(g_mount_table) :
                              m.letter = letter /\ letter # NoLetter /\ m.path # p
  BY DEF cmd_mount
<1>2. TableOk(g_mount_table) /\ DOMAIN g_mount_table = Slots
  BY DEF VolumesInv, TableOk
<1>. HIDE DEF p, root
<1>3. PICK k \in Slots : /\ Filled(g_mount_table, p, letter, k)
                         /\ g_mount_table' = [g_mount_table EXCEPT ![k] = Mount(p, letter, root)]
  BY <1>1, <1>2, MountIs
<1>4. g_mount_table[k].in_use => g_mount_table[k].path = p
  <2>. SUFFICES ASSUME g_mount_table[k].in_use, g_mount_table[k].path # p PROVE FALSE
    OBVIOUS
  <2>1. k \in Replaces(g_mount_table, p, letter)
    BY <1>3 DEF Filled
  <2>2. letter # NoLetter /\ g_mount_table[k].letter = letter
    BY <2>1 DEF Replaces
  <2>3. g_mount_table[k] \in Range(g_mount_table)
    BY <1>2 DEF Range
  <2>. QED
    BY <1>1, <2>2, <2>3
<1>5. Mount(p, letter, root).path = p
  BY DEF Mount
<1>. QED
  BY <1>1, <1>3, <1>4, <1>5, ElsewhereIs

\* A mount or an unmount changes nothing for paths that lie elsewhere.
LEMMA MountLocalStep ==
  ASSUME VolumesInv, VolumesNext, g_mount_table' # g_mount_table, booted, ~done'.taken
  PROVE  \A q \in MountPaths : Elsewhere(q)
<1>. SUFFICES ASSUME NEW q \in MountPaths PROVE Elsewhere(q)
  OBVIOUS
<1>1. CASE kernel_main
  BY <1>1 DEF kernel_main
<1>2. ASSUME NEW p \in MountPaths, vfs_unmount(p) PROVE Elsewhere(q)
  BY <1>2, UnmountElsewhere
<1>3. ASSUME NEW p \in MountPaths, vfs_chdir(p) PROVE Elsewhere(q)
  BY <1>3 DEF vfs_chdir
<1>4. ASSUME NEW p \in MountPaths, NEW l \in GivenLetters, cmd_mount(p, l) PROVE Elsewhere(q)
  BY <1>4, CmdMountElsewhere
<1>. QED
  BY <1>1, <1>2, <1>3, <1>4 DEF VolumesNext

-----------------------------------------------------------------------------
(* The paths boot gives to volumes.                                        *)

DigitSet == {"0", "1", "2", "3", "4", "5", "6", "7", "8", "9"}

\* Two numbers have the same digit only if they are the same below Digits.
LEMMA DigitIs ==
  ASSUME NEW i \in Nat, NEW j \in Nat
  PROVE  /\ Digit(i) \in DigitSet
         /\ Digit(i) = Digit(j) => i % Digits = j % Digits
<1>1. Digits \in 1..10
  BY VolumesAssumption
<1>2. i % Digits \in 0..9 /\ j % Digits \in 0..9
  BY <1>1
<1>. DEFINE a == i % Digits
<1>. DEFINE b == j % Digits
<1>. DEFINE name(x) == <<"0", "1", "2", "3", "4", "5", "6", "7", "8", "9">>[x + 1]
<1>3. Digit(i) = name(a) /\ Digit(j) = name(b)
  BY Zenon DEF Digit
<1>4. a \in 0..9 /\ b \in 0..9
  BY <1>2
<1>. HIDE DEF a, b
<1>5. name(a) \in DigitSet /\ (name(a) = name(b) => a = b)
  BY <1>4 DEF DigitSet
<1>. HIDE DEF name
<1>. QED
  BY <1>3, <1>5 DEF a, b

\* Partitions whose numbers differ in the last digit have different digits.
LEMMA DigitsDiffer ==
  ASSUME NEW x \in Nat \ {0}, NEW y \in Nat \ {0}, (x - y) % Digits # 0
  PROVE  Digit(x - 1) # Digit(y - 1)
<1>1. Digits \in 1..10
  BY VolumesAssumption
<1>2. (x - 1) % Digits = (y - 1) % Digits => (x - y) % Digits = 0
  <2>1. CASE Digits \in 1..5
    BY <2>1
  <2>2. CASE Digits \in 6..10
    BY <2>2
  <2>. QED
    BY <1>1, <2>1, <2>2
<1>3. x - 1 \in Nat /\ y - 1 \in Nat
  OBVIOUS
<1>. QED
  BY <1>2, <1>3, DigitIs

\* The path of a numbered mount ends in its digit.
LEMMA MntIs ==
  ASSUME NEW i \in Nat
  PROVE  LET p == MntPath(i)
         IN  /\ p \in Path /\ Normal(p.text) /\ p.drive = NoLetter
             /\ Len(p.text) = 4 /\ p.text[4] = Digit(i)
<1>. DEFINE d == Digit(i)
<1>. DEFINE t == <<"/", "mnt", "/">> \o <<d>>
<1>1. d \in DigitSet
  BY DigitIs
<1>2. d \in Sym /\ d # "/" /\ d # "backslash"
  BY <1>1 DEF Sym, DigitSet
<1>. HIDE DEF d
<1>3. t \in Seq(Sym) /\ Len(t) = 4 /\ t[1] = "/" /\ t[2] = "mnt" /\ t[3] = "/" /\ t[4] = d
  BY <1>2 DEF Sym
<1>. HIDE DEF t
<1>4. Normal(t)
  <2>1. \A j \in 1..4 : j = 1 \/ j = 2 \/ j = 3 \/ j = 4
    OBVIOUS
  <2>2. \A j \in 1..(4 - 1) : j = 1 \/ j = 2 \/ j = 3
    OBVIOUS
  <2>3. \A j \in 1..4 : t[j] # "backslash"
    BY <1>2, <1>3, <2>1
  <2>4. \A j \in 1..(4 - 1) : ~(t[j] = "/" /\ t[j + 1] = "/")
    BY <1>2, <1>3, <2>2
  <2>. QED
    BY <1>2, <1>3, <2>3, <2>4 DEF Normal, NoDoubles
<1>5. MntPath(i) = [drive |-> NoLetter, text |-> t]
  BY Zenon DEF MntPath, Absolute, t, d
<1>. QED
  BY <1>3, <1>4, <1>5, RootPath DEF Path, d

\* The path of an alias is shorter than that of a mount.
LEMMA AliasIs ==
  ASSUME NEW i \in Nat
  PROVE  LET p == AliasPath(i)
         IN  p \in Path /\ Normal(p.text) /\ p.drive = NoLetter /\ Len(p.text) = 2
<1>. DEFINE d == Digit(i)
<1>. DEFINE t == <<"/">> \o <<d>>
<1>1. d \in DigitSet
  BY DigitIs
<1>2. d \in Sym /\ d # "/" /\ d # "backslash"
  BY <1>1 DEF Sym, DigitSet
<1>. HIDE DEF d
<1>3. t \in Seq(Sym) /\ Len(t) = 2 /\ t[1] = "/" /\ t[2] = d
  BY <1>2 DEF Sym
<1>. HIDE DEF t
<1>4. Normal(t)
  <2>1. (\A j \in 1..2 : j = 1 \/ j = 2) /\ \A j \in 1..(2 - 1) : j = 1
    OBVIOUS
  <2>. QED
    BY <1>2, <1>3, <2>1 DEF Normal, NoDoubles
<1>5. AliasPath(i) = [drive |-> NoLetter, text |-> t]
  BY Zenon DEF AliasPath, Absolute, t, d
<1>. QED
  BY <1>3, <1>4, <1>5, RootPath DEF Path

\* A mount that no other one's letter is taken for leaves every path with one
\* mount at most.
OnePath(table) ==
  \A i, j \in Slots : table[i].in_use /\ table[j].in_use /\ table[i].path = table[j].path => i = j

LetterFree(table, letter) ==
  letter = NoLetter \/ \A i \in Slots : table[i].in_use => table[i].letter # letter

\* Filling a slot leaves every path in one slot.
LEMMA OnePathStep ==
  ASSUME NEW table, TableOk(table), OnePath(table), NEW path, NEW letter, LetterFree(table, letter),
         NEW root, NEW k, Filled(table, path, letter, k),
         NEW d, Changed(d, table, k, Mount(path, letter, root))
  PROVE  /\ OnePath(d)
         /\ table[k].in_use => table[k].path = path
<1>1. k \in Slots /\ table = [i \in Slots |-> table[i]] /\ DOMAIN table = Slots
  BY DEF Filled, TableOk
<1>2. d[k] = Mount(path, letter, root) /\ \A i \in Slots : i # k => d[i] = table[i]
  BY <1>1 DEF Changed
<1>3. d[k].in_use /\ d[k].path = path
  BY <1>2 DEF Mount
<1>4. \A i \in Slots : i \in Replaces(table, path, letter) <=> table[i].in_use /\ table[i].path = path
  BY <1>1 DEF Replaces, LetterFree
<1>5. table[k].in_use => table[k].path = path
  BY <1>1, <1>4 DEF Filled
<1>6. \A i \in Slots : table[i].in_use /\ table[i].path = path => i = k
  <2>. SUFFICES ASSUME NEW i \in Slots, table[i].in_use, table[i].path = path PROVE i = k
    OBVIOUS
  <2>1. i \in Replaces(table, path, letter)
    BY <1>4
  <2>2. k \in Replaces(table, path, letter)
    BY <2>1 DEF Filled
  <2>3. table[k].in_use /\ table[k].path = path
    BY <1>1, <1>4, <2>2
  <2>. QED
    BY <1>1, <2>3 DEF OnePath
<1>7. OnePath(d)
  <2>. SUFFICES ASSUME NEW i \in Slots, NEW j \in Slots, d[i].in_use, d[j].in_use,
                       d[i].path = d[j].path
                PROVE  i = j
    BY DEF OnePath
  <2>1. CASE i = k
    BY <1>2, <1>3, <1>6, <2>1
  <2>2. CASE j = k
    BY <1>2, <1>3, <1>6, <2>2
  <2>3. CASE i # k /\ j # k
    BY <1>2, <2>3 DEF OnePath
  <2>. QED
    BY <2>1, <2>2, <2>3
<1>. QED
  BY <1>5, <1>7

\* The slot is the first free one, if not one in use.
LEMMA FilledLow ==
  ASSUME NEW table, TableOk(table), NEW c \in Nat, NEW path, NEW letter, NEW root, NEW k,
         \A i \in Slots : i > c => ~table[i].in_use,
         Filled(table, path, letter, k),
         NEW d, Changed(d, table, k, Mount(path, letter, root))
  PROVE  \A i \in Slots : i > c + 1 => ~d[i].in_use
<1>1. k \in Slots /\ table = [i \in Slots |-> table[i]] /\ DOMAIN table = Slots /\ k \in Nat
  BY SlotsAre DEF Filled, TableOk
<1>2. d[k] = Mount(path, letter, root) /\ \A i \in Slots : i # k => d[i] = table[i]
  BY <1>1 DEF Changed
<1>3. k <= c + 1
  <2>. SUFFICES ASSUME k > c + 1 PROVE FALSE
    BY <1>1
  <2>1. ~table[k].in_use
    BY <1>1
  <2>2. k \notin Replaces(table, path, letter)
    BY <2>1 DEF Replaces
  <2>3. c + 1 \in Slots
    BY <1>1, SlotsAre DEF Slots
  <2>4. table[c + 1].in_use
    BY <2>2, <2>3 DEF Filled
  <2>. QED
    BY <2>3, <2>4
<1>. QED
  BY <1>1, <1>2, <1>3, SlotsAre

\* What boot has mounted: the mount of a volume is in the table as long as no
\* later volume has the same path, and the slots beyond c are free.
MntMount(vols, v) == Mount(MntPath(vols[v] - 1), DriveLetters[v], v)

BootSlot(m, vols) ==
  \/ m.letter = "C" /\ m.path = Absolute(<<"/">>)
  \/ m.letter = NoLetter /\ \E i \in Nat : m.path = AliasPath(i)
  \/ \E v \in DOMAIN vols : m = MntMount(vols, v)

Live(vols, v) == \A w \in DOMAIN vols : w > v => MntPath(vols[w] - 1) # MntPath(vols[v] - 1)

BootOk(table, vols, c) ==
  /\ TableOk(table) /\ OnePath(table)
  /\ \A i \in Slots : i > c => ~table[i].in_use
  /\ \A i \in Slots : table[i].in_use => BootSlot(table[i], vols)
  /\ \A v \in DOMAIN vols : Live(vols, v) => \E i \in Slots : table[i] = MntMount(vols, v)

\* The letters boot gives are distinct, and the table has room for two slots each.
LEMMA LettersAre ==
  /\ Instances \in Nat /\ MAX_MOUNTS >= 2 * Instances
  /\ \A v \in 1..Instances : DriveLetters[v] # "C" /\ DriveLetters[v] # NoLetter
  /\ \A v, w \in 1..Instances : DriveLetters[v] = DriveLetters[w] => v = w
<1>1. /\ DriveLetters \in Seq(Characters \ {"C", NoLetter}) /\ Len(DriveLetters) >= Instances
      /\ \A i, j \in DOMAIN DriveLetters : DriveLetters[i] = DriveLetters[j] => i = j
      /\ Instances \in Nat /\ MAX_MOUNTS >= 2 * Instances
  BY VolumesAssumption
<1>. DEFINE n == Len(DriveLetters)
<1>2. n \in Nat /\ DOMAIN DriveLetters = 1..n
      /\ \A i \in 1..n : DriveLetters[i] \in Characters \ {"C", NoLetter}
  BY <1>1
<1>. HIDE DEF n
<1>3. \A i \in 1..Instances : i \in 1..n
  BY <1>1, <1>2 DEF n
<1>. QED
  BY <1>1, <1>2, <1>3

\* One volume more leaves the ones before as they were.
LEMMA Longer ==
  ASSUME NEW vols \in Seq(Nat \ {0}), NEW x \in Nat
  PROVE  LET more == Append(vols, x + 1)
         IN  /\ more \in Seq(Nat \ {0}) /\ Len(more) = Len(vols) + 1
             /\ DOMAIN vols = 1..Len(vols) /\ DOMAIN more = 1..(Len(vols) + 1)
             /\ more[Len(vols) + 1] - 1 = x
             /\ \A v \in 1..Len(vols) : more[v] = vols[v] /\ MntMount(more, v) = MntMount(vols, v)
<1>. DEFINE more == Append(vols, x + 1)
<1>. DEFINE n == Len(vols)
<1>1. more \in Seq(Nat \ {0}) /\ Len(more) = n + 1 /\ more[n + 1] = x + 1
      /\ (\A v \in 1..n : more[v] = vols[v]) /\ n \in Nat
      /\ DOMAIN vols = 1..n /\ DOMAIN more = 1..(n + 1)
  OBVIOUS
<1>. HIDE DEF more, n
<1>2. \A v \in 1..n : MntMount(more, v) = MntMount(vols, v)
  BY <1>1 DEF MntMount
<1>3. more[n + 1] - 1 = x
  BY <1>1
<1>. QED
  BY <1>1, <1>2, <1>3, Zenon DEF more, n

\* Mounting a volume under its number keeps what boot has made.
LEMMA MntStep ==
  ASSUME NEW vols \in Seq(Nat \ {0}), Len(vols) + 1 <= Instances, NEW x \in Nat,
         NEW table, BootOk(table, vols, 1 + 2 * Len(vols))
  PROVE  BootOk(vfs_mount(table, MntPath(x), DriveLetters[Len(vols) + 1], Len(vols) + 1),
                Append(vols, x + 1), 2 + 2 * Len(vols))
<1>. DEFINE n == Len(vols)
<1>. DEFINE root == n + 1
<1>. DEFINE more == Append(vols, x + 1)
<1>. DEFINE path == MntPath(x)
<1>. DEFINE letter == DriveLetters[root]
<1>. DEFINE d == vfs_mount(table, path, letter, root)
<1>. DEFINE e == Mount(path, letter, root)
<1>1. /\ more \in Seq(Nat \ {0}) /\ DOMAIN vols = 1..n /\ DOMAIN more = 1..(n + 1)
      /\ more[n + 1] - 1 = x
      /\ \A v \in 1..n : more[v] = vols[v] /\ MntMount(more, v) = MntMount(vols, v)
  BY Longer, Zenon
<1>2. n \in Nat /\ root \in 1..Instances /\ \A v \in 1..n : v \in 1..Instances /\ v # root
  BY LettersAre
<1>3. path \in Path /\ Normal(path.text) /\ path.drive = NoLetter /\ Len(path.text) = 4
  BY MntIs
<1>4. MntMount(more, root) = e
  BY <1>1, Zenon DEF MntMount
<1>5. LetterFree(table, letter)
  <2>1. letter # "C" /\ letter # NoLetter
    BY <1>2, LettersAre
  <2>2. \A v \in 1..n : DriveLetters[v] # letter
    BY <1>2, LettersAre
  <2>3. \A v \in 1..n : MntMount(vols, v).letter = DriveLetters[v]
    BY DEF MntMount, Mount
  <2>. HIDE DEF letter
  <2>4. ASSUME NEW i \in Slots, table[i].in_use PROVE table[i].letter # letter
    <3>1. BootSlot(table[i], vols)
      BY <2>4 DEF BootOk
    <3>. QED
      BY <1>1, <2>1, <2>2, <2>3, <3>1 DEF BootSlot
  <2>. QED
    BY <2>4 DEF LetterFree
<1>6. TableOk(table) /\ OnePath(table)
  BY DEF BootOk
<1>7. 2 + 2 * n \in Slots /\ ~table[2 + 2 * n].in_use
  <2>1. 2 + 2 * n \in Slots
    BY <1>2, LettersAre, SlotsAre DEF Slots
  <2>2. 2 + 2 * n > 1 + 2 * n
    BY <1>2
  <2>. QED
    BY <2>1, <2>2 DEF BootOk
<1>. HIDE DEF letter, path, root
<1>8. PICK k \in Slots : Filled(table, path, letter, k) /\ d = [table EXCEPT ![k] = e]
  BY <1>6, <1>7, MountIs
<1>. HIDE DEF d, e, more, n
<1>9. Changed(d, table, k, Mount(path, letter, root))
  BY <1>8, Zenon DEF Changed, e
<1>10. TableOk(d)
  BY <1>3, <1>6, MountOk, Zenon DEF d
<1>11. OnePath(d) /\ (table[k].in_use => table[k].path = path)
  BY <1>5, <1>6, <1>8, <1>9, OnePathStep
<1>12. \A i \in Slots : i > 2 + 2 * n => ~d[i].in_use
  <2>1. \A i \in Slots : i > 1 + 2 * n => ~table[i].in_use
    BY DEF BootOk, n
  <2>2. (1 + 2 * n) + 1 = 2 + 2 * n /\ 1 + 2 * n \in Nat
    BY <1>2
  <2>. DEFINE c == 1 + 2 * n
  <2>. HIDE DEF c
  <2>3. \A i \in Slots : i > c + 1 => ~d[i].in_use
    BY <1>6, <1>8, <1>9, <2>1, <2>2, FilledLow DEF c
  <2>. QED
    BY <2>2, <2>3 DEF c
<1>13. d[k] = e /\ \A i \in Slots : i # k => d[i] = table[i]
  <2>1. table = [i \in Slots |-> table[i]]
    BY <1>6 DEF TableOk
  <2>. QED
    BY <1>8, <2>1
<1>14. \A i \in Slots : d[i].in_use => BootSlot(d[i], more)
  <2>. SUFFICES ASSUME NEW i \in Slots, d[i].in_use PROVE BootSlot(d[i], more)
    OBVIOUS
  <2>1. CASE i = k
    <3>1. root \in DOMAIN more
      BY <1>1, <1>2 DEF root
    <3>. QED
      BY <1>4, <1>13, <2>1, <3>1 DEF BootSlot
  <2>2. CASE i # k
    <3>1. BootSlot(table[i], vols)
      BY <1>13, <2>2 DEF BootOk
    <3>2. \A v \in DOMAIN vols : v \in DOMAIN more /\ MntMount(more, v) = MntMount(vols, v)
      BY <1>1, <1>2
    <3>3. BootSlot(table[i], more)
      BY <3>1, <3>2 DEF BootSlot
    <3>. QED
      BY <1>13, <2>2, <3>3
  <2>. QED
    BY <2>1, <2>2
<1>15. \A v \in DOMAIN more : Live(more, v) => \E i \in Slots : d[i] = MntMount(more, v)
  <2>. SUFFICES ASSUME NEW v \in DOMAIN more, Live(more, v)
                PROVE  \E i \in Slots : d[i] = MntMount(more, v)
    OBVIOUS
  <2>1. CASE v = root
    BY <1>4, <1>13, <2>1
  <2>2. CASE v # root
    <3>1. v \in 1..n /\ root \in DOMAIN more /\ root > v
      BY <1>1, <1>2, <2>2 DEF root
    <3>2. Live(vols, v)
      <4>. SUFFICES ASSUME NEW w \in DOMAIN vols, w > v
                    PROVE  MntPath(vols[w] - 1) # MntPath(vols[v] - 1)
        BY DEF Live
      <4>1. w \in 1..n /\ w \in DOMAIN more
        BY <1>1, <1>2
      <4>2. more[w] = vols[w] /\ more[v] = vols[v]
        BY <1>1, <3>1, <4>1
      <4>. QED
        BY <4>1, <4>2 DEF Live
    <3>3. PICK i \in Slots : table[i] = MntMount(vols, v)
      BY <1>1, <3>1, <3>2 DEF BootOk
    <3>4. table[i].in_use /\ table[i].path = MntPath(more[v] - 1)
      <4>1. table[i] = MntMount(more, v)
        BY <1>1, <3>1, <3>3
      <4>2. MntMount(more, v).in_use /\ MntMount(more, v).path = MntPath(more[v] - 1)
        BY DEF MntMount, Mount
      <4>. QED
        BY <4>1, <4>2
    <3>5. MntPath(more[v] - 1) # path
      BY <1>1, <3>1 DEF Live, path, root
    <3>6. i # k
      BY <1>11, <3>4, <3>5
    <3>. QED
      BY <1>1, <1>13, <3>1, <3>3, <3>6
  <2>. QED
    BY <2>1, <2>2
<1>. QED
  BY <1>10, <1>11, <1>12, <1>14, <1>15 DEF BootOk, d, more, n, path, letter, root

\* Mounting an alias keeps what boot has made.
LEMMA AliasStep ==
  ASSUME NEW vols \in Seq(Nat \ {0}), NEW c \in Nat, NEW x \in Nat, NEW root,
         \A v \in DOMAIN vols : vols[v] - 1 \in Nat,
         NEW table, BootOk(table, vols, c)
  PROVE  BootOk(vfs_mount(table, AliasPath(x), NoLetter, root), vols, c + 1)
<1>. DEFINE path == AliasPath(x)
<1>. DEFINE d == vfs_mount(table, path, NoLetter, root)
<1>. DEFINE e == Mount(path, NoLetter, root)
<1>1. path \in Path /\ Normal(path.text) /\ path.drive = NoLetter /\ Len(path.text) = 2
  BY AliasIs
<1>2. TableOk(table) /\ OnePath(table)
  BY DEF BootOk
<1>3. LetterFree(table, NoLetter)
  BY DEF LetterFree
<1>. HIDE DEF path
<1>4. TableOk(d)
  BY <1>1, <1>2, MountOk, Zenon
<1>5. CASE d = table
  <2>1. \A i \in Slots : i > c + 1 => i > c
    BY SlotsAre
  <2>. HIDE DEF d
  <2>2. BootOk(table, vols, c + 1)
    BY <2>1 DEF BootOk
  <2>. QED
    BY <1>5, <2>2, Zenon DEF d, path
<1>6. ASSUME NEW k \in Slots, Filled(table, path, NoLetter, k), d = [table EXCEPT ![k] = e]
      PROVE  BootOk(d, vols, c + 1)
  <2>. HIDE DEF d, e
  <2>1. Changed(d, table, k, Mount(path, NoLetter, root))
    BY <1>6, Zenon DEF Changed, e
  <2>2. OnePath(d) /\ (table[k].in_use => table[k].path = path)
    BY <1>2, <1>3, <1>6, <2>1, OnePathStep
  <2>3. \A i \in Slots : i > c + 1 => ~d[i].in_use
    <3>1. \A i \in Slots : i > c => ~table[i].in_use
      BY DEF BootOk
    <3>. QED
      BY <1>2, <1>6, <2>1, <3>1, FilledLow
  <2>4. d[k] = e /\ \A i \in Slots : i # k => d[i] = table[i]
    <3>1. table = [i \in Slots |-> table[i]]
      BY <1>2 DEF TableOk
    <3>. QED
      BY <1>6, <3>1
  <2>5. \A i \in Slots : d[i].in_use => BootSlot(d[i], vols)
    <3>. SUFFICES ASSUME NEW i \in Slots, d[i].in_use PROVE BootSlot(d[i], vols)
      OBVIOUS
    <3>1. CASE i = k
      <4>1. e.letter = NoLetter /\ e.path = AliasPath(x)
        BY DEF e, Mount, path
      <4>. QED
        BY <2>4, <3>1, <4>1 DEF BootSlot
    <3>2. CASE i # k
      BY <2>4, <3>2 DEF BootOk
    <3>. QED
      BY <3>1, <3>2
  <2>6. \A v \in DOMAIN vols : Live(vols, v) => \E i \in Slots : d[i] = MntMount(vols, v)
    <3>. SUFFICES ASSUME NEW v \in DOMAIN vols, Live(vols, v)
                  PROVE  \E i \in Slots : d[i] = MntMount(vols, v)
      OBVIOUS
    <3>1. PICK i \in Slots : table[i] = MntMount(vols, v)
      BY DEF BootOk
    <3>2. MntMount(vols, v).in_use /\ MntMount(vols, v).path = MntPath(vols[v] - 1)
      BY DEF MntMount, Mount
    <3>3. Len(MntPath(vols[v] - 1).text) = 4
      BY MntIs
    <3>4. ASSUME i = k PROVE FALSE
      <4>1. table[k].in_use /\ table[k].path = MntPath(vols[v] - 1)
        BY <3>1, <3>2, <3>4
      <4>2. path = MntPath(vols[v] - 1)
        BY <2>2, <4>1
      <4>3. Len(path.text) = 4
        BY <3>3, <4>2, Zenon
      <4>4. Len(path.text) = 2
        BY <1>1
      <4>5. 2 # 4
        OBVIOUS
      <4>. QED
        BY <4>3, <4>4, <4>5, Zenon
    <3>. QED
      BY <2>4, <3>1, <3>4
  <2>. QED
    BY <1>4, <2>2, <2>3, <2>5, <2>6 DEF BootOk
<1>7. d = table \/ \E k \in Slots : Filled(table, path, NoLetter, k) /\ d = [table EXCEPT ![k] = e]
  BY <1>2, MountIs
<1>. HIDE DEF d, e
<1>8. BootOk(d, vols, c + 1)
  BY <1>5, <1>6, <1>7 DEF d, path
<1>. QED
  BY <1>8, Zenon DEF d, path

-----------------------------------------------------------------------------
(* The mounts of boot, one partition after another.                        *)

BootStart(table) == [table |-> table, volumes |-> <<>>, index |-> 0]

IsBoot(u, n, table, parts) ==
  u = [i \in 0..n |-> IF i = 0 THEN BootStart(table) ELSE BootMount(u[i - 1], parts[i])]

\* Boot has a state after each of the partitions.
LEMMA BootExists ==
  ASSUME NEW n \in Nat, NEW table, NEW parts
  PROVE  \E u : IsBoot(u, n, table, parts)
<1>. DEFINE K == {k \in Nat : \E u : IsBoot(u, k, table, parts)}
<1>1. 0 \in K
  <2>. DEFINE g == [i \in 0..0 |-> BootStart(table)]
  <2>1. \A i \in 0..0 : g[i] = IF i = 0 THEN BootStart(table) ELSE BootMount(g[i - 1], parts[i])
    OBVIOUS
  <2>2. g = [i \in 0..0 |-> g[i]]
    OBVIOUS
  <2>. HIDE DEF g
  <2>3. IsBoot(g, 0, table, parts)
    BY <2>1, <2>2, Zenon DEF IsBoot
  <2>. QED
    BY <2>3
<1>2. ASSUME NEW k \in K PROVE k + 1 \in K
  <2>1. PICK f : IsBoot(f, k, table, parts)
    BY <1>2
  <2>. DEFINE g == [i \in 0..(k + 1) |-> IF i = k + 1 THEN BootMount(f[k], parts[k + 1]) ELSE f[i]]
  <2>2. k \in Nat
    BY <1>2
  <2>3. f[0] = BootStart(table) /\ \A j \in 1..k : f[j] = BootMount(f[j - 1], parts[j])
    <3>1. \A j \in 0..k : f[j] = IF j = 0 THEN BootStart(table) ELSE BootMount(f[j - 1], parts[j])
      BY <2>1 DEF IsBoot
    <3>. QED
      BY <2>2, <3>1
  <2>4. \A i \in 0..(k + 1) : g[i] = IF i = 0 THEN BootStart(table) ELSE BootMount(g[i - 1], parts[i])
    <3>. TAKE i \in 0..(k + 1)
    <3>1. CASE i = k + 1
      <4>1. g[i - 1] = f[k] /\ i # 0
        BY <2>2, <3>1
      <4>. QED
        BY <3>1, <4>1
    <3>2. CASE i = 0
      BY <2>2, <2>3, <3>2
    <3>3. CASE i # k + 1 /\ i # 0
      <4>1. i \in 1..k /\ g[i - 1] = f[i - 1] /\ g[i] = f[i]
        BY <2>2, <3>3
      <4>. HIDE DEF g
      <4>. QED
        BY <2>3, <3>3, <4>1
    <3>. QED
      BY <3>1, <3>2, <3>3
  <2>5. g = [i \in 0..(k + 1) |-> g[i]]
    OBVIOUS
  <2>. HIDE DEF g
  <2>6. IsBoot(g, k + 1, table, parts)
    BY <2>4, <2>5, Zenon DEF IsBoot
  <2>. QED
    BY <2>2, <2>6
<1>3. K = Nat
  <2>. HIDE DEF K
  <2>1. K \in SUBSET Nat
    BY DEF K
  <2>. QED
    BY <1>1, <1>2, <2>1, Upwards
<1>. QED
  BY <1>3

\* After k partitions.
BootIs(b, k) ==
  /\ b = [table |-> b.table, volumes |-> b.volumes, index |-> k]
  /\ b.volumes \in Seq(Nat \ {0}) /\ Len(b.volumes) <= Instances
  /\ BootOk(b.table, b.volumes, 1 + 2 * Len(b.volumes))

\* One partition more keeps what boot has made.
LEMMA BootStep ==
  ASSUME NEW k \in Nat, NEW b, BootIs(b, k), NEW part
  PROVE  BootIs(BootMount(b, part), k + 1)
<1>. DEFINE vols == b.volumes
<1>. DEFINE n == Len(vols)
<1>. DEFINE root == n + 1
<1>. DEFINE next == [b EXCEPT !.index = @ + 1]
<1>. DEFINE d1 == vfs_mount(b.table, MntPath(k), DriveLetters[root], root)
<1>. DEFINE d2 == vfs_mount(d1, AliasPath(k), NoLetter, root)
<1>. DEFINE more == Append(vols, k + 1)
<1>1. /\ b = [table |-> b.table, volumes |-> vols, index |-> k]
      /\ vols \in Seq(Nat \ {0}) /\ n <= Instances /\ n \in Nat
      /\ BootOk(b.table, vols, 1 + 2 * n)
  BY DEF BootIs
<1>2. next = [table |-> b.table, volumes |-> vols, index |-> k + 1]
  BY <1>1
<1>3. CASE part.fs # "FAT32" \/ root > Instances
  <2>1. BootMount(b, part) = next
    BY <1>3, Zenon DEF BootMount
  <2>. HIDE DEF next, vols, n
  <2>2. next.table = b.table /\ next.volumes = vols
    BY <1>2
  <2>. QED
    BY <1>1, <1>2, <2>1, <2>2 DEF BootIs, vols, n
<1>4. CASE ~(part.fs # "FAT32" \/ root > Instances)
  <2>1. b.index = k
    BY <1>1
  <2>2. BootMount(b, part)
          = [next EXCEPT !.table = BothPaths(@, b.index, root), !.volumes = Append(@, b.index + 1)]
    BY <1>4, Zenon DEF BootMount
  <2>3. BothPaths(b.table, k, root) = d2
    BY Zenon DEF BothPaths
  <2>. HIDE DEF next, vols, d2, more
  <2>4. BootMount(b, part) = [table |-> d2, volumes |-> more, index |-> k + 1]
    BY <1>2, <2>1, <2>2, <2>3 DEF more
  <2>5. more \in Seq(Nat \ {0}) /\ Len(more) = n + 1
        /\ \A v \in DOMAIN more : more[v] \in Nat \ {0} /\ more[v] - 1 \in Nat
    <3>1. more \in Seq(Nat \ {0}) /\ Len(more) = n + 1
      BY <1>1, Longer, Zenon DEF more
    <3>. QED
      BY <3>1
  <2>6. n + 1 <= Instances
    BY <1>1, <1>4, LettersAre
  <2>. HIDE DEF d1
  <2>7. BootOk(d1, more, 2 + 2 * n)
    BY <1>1, <2>6, MntStep, Zenon DEF d1, more, n
  <2>8. BootOk(d2, more, (2 + 2 * n) + 1)
    <3>1. 2 + 2 * n \in Nat
      BY <1>1
    <3>. QED
      BY <2>5, <2>7, <3>1, AliasStep DEF d2
  <2>9. (2 + 2 * n) + 1 = 1 + 2 * (n + 1)
    BY <1>1
  <2>10. BootOk(d2, more, 1 + 2 * Len(more))
    BY <2>5, <2>8, <2>9
  <2>. HIDE DEF n
  <2>. DEFINE m == BootMount(b, part)
  <2>. HIDE DEF m
  <2>11. m = [table |-> d2, volumes |-> more, index |-> k + 1]
    BY <2>4, Zenon DEF m
  <2>12. m.table = d2 /\ m.volumes = more
         /\ m = [table |-> m.table, volumes |-> m.volumes, index |-> k + 1]
    BY <2>11
  <2>13. more \in Seq(Nat \ {0}) /\ Len(more) <= Instances
    BY <2>5, <2>6
  <2>14. BootIs(m, k + 1)
    BY <2>10, <2>12, <2>13, Zenon DEF BootIs
  <2>. QED
    BY <2>14, Zenon DEF m
<1>. QED
  BY <1>3, <1>4

\* Boot begins with no volume and the root.
LEMMA BootStartOk ==
  BootIs(BootStart(FirstTable), 0)
<1>. DEFINE b == BootStart(FirstTable)
<1>1. b.table = FirstTable /\ b.volumes = <<>> /\ b = [table |-> b.table, volumes |-> b.volumes, index |-> 0]
  BY DEF BootStart
<1>2. <<>> \in Seq(Nat \ {0}) /\ Len(<<>>) = 0 /\ DOMAIN <<>> = {} /\ 0 <= Instances
  BY LettersAre
<1>3. \A i \in Slots : FirstTable[i] = IF i = 1 THEN Mount(Absolute(<<"/">>), "C", RamRoot) ELSE FreeMount
  BY DEF FirstTable, Slots
<1>4. ~FreeMount.in_use /\ Mount(Absolute(<<"/">>), "C", RamRoot).letter = "C"
      /\ Mount(Absolute(<<"/">>), "C", RamRoot).path = Absolute(<<"/">>)
  BY DEF FreeMount, Mount
<1>5. \A i \in Slots : FirstTable[i].in_use => i = 1
  BY <1>3, <1>4
<1>6. BootOk(FirstTable, <<>>, 1)
  <2>1. OnePath(FirstTable)
    BY <1>5 DEF OnePath
  <2>2. \A i \in Slots : i > 1 => ~FirstTable[i].in_use
    BY <1>5, SlotsAre
  <2>3. \A i \in Slots : FirstTable[i].in_use => BootSlot(FirstTable[i], <<>>)
    BY <1>3, <1>4, <1>5 DEF BootSlot
  <2>. QED
    BY <1>2, <2>1, <2>2, <2>3, FirstOk DEF BootOk
<1>7. 1 + 2 * 0 = 1
  OBVIOUS
<1>. HIDE DEF b
<1>8. BootOk(b.table, b.volumes, 1 + 2 * Len(b.volumes))
  BY <1>1, <1>2, <1>6, <1>7
<1>9. BootIs(b, 0)
  BY <1>1, <1>2, <1>8 DEF BootIs
<1>. QED
  BY <1>9 DEF b

\* When boot is done there are volumes, and the table is as it has made it.
LEMMA BootMountsIs ==
  ASSUME NEW parts, Len(parts) \in Nat
  PROVE  \E k \in Nat : BootIs(BootMounts(FirstTable, parts), k)
<1>. DEFINE n == Len(parts)
<1>. DEFINE u == CHOOSE g : IsBoot(g, n, FirstTable, parts)
<1>1. IsBoot(u, n, FirstTable, parts)
  <2>1. \E g : IsBoot(g, n, FirstTable, parts)
    BY BootExists
  <2>. QED
    BY <2>1, Zenon
<1>2. BootMounts(FirstTable, parts) = u[n]
  BY Zenon DEF BootMounts, IsBoot, BootStart
<1>. HIDE DEF u
<1>3. u[0] = BootStart(FirstTable) /\ \A j \in 1..n : u[j] = BootMount(u[j - 1], parts[j])
  <2>1. \A j \in 0..n : u[j] = IF j = 0 THEN BootStart(FirstTable) ELSE BootMount(u[j - 1], parts[j])
    BY <1>1 DEF IsBoot
  <2>. QED
    BY <2>1
<1>. DEFINE K == {i \in 0..n : BootIs(u[i], i)}
<1>4. n \in Nat
  OBVIOUS
<1>. HIDE DEF n
<1>5. 0 \in K
  BY <1>3, <1>4, BootStartOk
<1>6. ASSUME NEW i \in 0..n, i \in K, i # n PROVE i + 1 \in K
  <2>1. i + 1 \in 1..n /\ (i + 1) - 1 = i /\ i \in Nat /\ i + 1 \in 0..n
    BY <1>4, <1>6
  <2>2. u[i + 1] = BootMount(u[i], parts[i + 1])
    BY <1>3, <2>1
  <2>3. BootIs(BootMount(u[i], parts[i + 1]), i + 1)
    BY <1>6, <2>1, BootStep
  <2>. QED
    BY <2>1, <2>2, <2>3
<1>7. \A i \in 0..n : i \in K
  <2>. HIDE DEF K
  <2>. QED
    BY <1>4, <1>5, <1>6, UpToN
<1>8. BootIs(u[n], n)
  BY <1>4, <1>7
<1>. QED
  BY <1>2, <1>4, <1>8

\* A probe finds a number of partitions.
LEMMA ProbeIs ==
  ASSUME NEW d \in Disk
  PROVE  Len(partition_probe(d)) \in Nat
<1>. DEFINE m(entries) == Min({Len(entries), MAX_PARTITIONS})
<1>1. d.gpt \in Seq(Entry) /\ d.mbr \in Seq(Entry)
  BY VolumesAssumption
<1>2. ASSUME NEW entries \in Seq(Entry), NEW scheme PROVE Len(Listed(entries, scheme)) \in Nat
  <2>1. MAX_PARTITIONS \in Nat
    BY VolumesAssumption
  <2>2. {Len(entries), MAX_PARTITIONS} \in SUBSET Nat /\ {Len(entries), MAX_PARTITIONS} # {}
    BY <2>1
  <2>3. m(entries) \in Nat
    BY <2>2, MinOf
  <2>. DEFINE k == m(entries)
  <2>4. Listed(entries, scheme) = [i \in 1..k |-> [scheme |-> scheme, fs |-> entries[i].fs]]
    BY Zenon DEF Listed
  <2>. HIDE DEF k
  <2>5. Len([i \in 1..k |-> [scheme |-> scheme, fs |-> entries[i].fs]]) = k
    BY <2>3 DEF k
  <2>. QED
    BY <2>3, <2>4, <2>5 DEF k
<1>3. Usable(d.gpt) \in Seq(Entry) /\ Usable(d.mbr) \in Seq(Entry)
  BY <1>1, KeptIn DEF Usable
<1>4. Len(Listed(Usable(d.gpt), "GPT")) \in Nat /\ Len(Listed(Usable(d.mbr), "MBR")) \in Nat
  BY <1>2, <1>3
<1>5. Len(<<>>) \in Nat /\ Len(<<[scheme |-> "NONE", fs |-> d.raw]>>) \in Nat
  OBVIOUS
<1>. DEFINE r == partition_probe(d)
<1>6. \/ r = <<>> \/ r = Listed(Usable(d.gpt), "GPT") \/ r = Listed(Usable(d.mbr), "MBR")
      \/ r = <<[scheme |-> "NONE", fs |-> d.raw]>>
  BY Zenon DEF partition_probe
<1>. HIDE DEF r
<1>7. Len(r) \in Nat
  BY <1>4, <1>5, <1>6
<1>. QED
  BY <1>7 DEF r

\* kernel_main keeps the invariant and mounts what the probe found.
LEMMA KernelStep ==
  ASSUME VolumesInv, kernel_main
  PROVE  VolumesInv' /\ \E k \in Nat : BootIs(BootMounts(g_mount_table, partition_probe(disk)), k)
<1>. DEFINE b == BootMounts(g_mount_table, partition_probe(disk))
<1>1. /\ ~booted /\ booted' = TRUE /\ disk' = disk /\ g_cwd' = g_cwd /\ file_name' = file_name
      /\ done' = done
  BY DEF kernel_main
<1>2. g_mount_table' = b.table
  BY DEF kernel_main
<1>3. g_mount_table = FirstTable /\ done = Nothing /\ disk \in Disk
  BY <1>1 DEF VolumesInv
<1>4. \E k \in Nat : BootIs(b, k)
  BY <1>3, ProbeIs, BootMountsIs
<1>. HIDE DEF b
<1>5. TableOk(g_mount_table')
  BY <1>2, <1>4 DEF BootIs, BootOk
<1>6. MountVisible'
  <2>1. done'.op = "none"
    BY <1>1, <1>3 DEF Nothing
  <2>. QED
    BY <2>1 DEF MountVisible
<1>7. VolumesInv'
  BY <1>1, <1>5, <1>6 DEF VolumesInv
<1>. QED
  BY <1>4, <1>7 DEF b

\* After boot every live volume is reached.
Reached(table, cwd, vols, v) ==
  /\ vfs_resolve_path(table, cwd, MntPath(vols[v] - 1)).root = v
  /\ DriveRoot(table, cwd, DriveLetters[v]) = v

\* A volume whose path no later one has is reached by path and letter.
LEMMA BootedReached ==
  ASSUME NEW table, NEW cwd, NEW vols \in Seq(Nat \ {0}), Len(vols) <= Instances, NEW c,
         BootOk(table, vols, c), NEW v \in DOMAIN vols, Live(vols, v)
  PROVE  Reached(table, cwd, vols, v)
<1>. DEFINE p == MntPath(vols[v] - 1)
<1>. DEFINE letter == DriveLetters[v]
<1>. DEFINE n == Len(vols)
<1>1. /\ n \in Nat /\ DOMAIN vols = 1..n /\ \A w \in 1..n : w \in 1..Instances /\ vols[w] - 1 \in Nat
      /\ v \in 1..n
  BY LettersAre
<1>2. p \in Path /\ Normal(p.text) /\ p.drive = NoLetter /\ Len(p.text) = 4 /\ vols[v] - 1 \in Nat
  <2>1. vols[v] - 1 \in Nat
    BY <1>1
  <2>. QED
    BY <2>1, MntIs
<1>3. TableOk(table) /\ OnePath(table) /\ DOMAIN table = Slots
  BY DEF BootOk, TableOk
<1>4. PICK k \in Slots : table[k] = MntMount(vols, v)
  BY DEF BootOk
<1>5. \A w : /\ MntMount(vols, w).in_use /\ MntMount(vols, w).root = w
             /\ MntMount(vols, w).path = MntPath(vols[w] - 1)
             /\ MntMount(vols, w).letter = DriveLetters[w]
  BY DEF MntMount, Mount
<1>6. table[k].in_use /\ table[k].root = v /\ table[k].path = p /\ table[k].letter = letter
  BY <1>4, <1>5
<1>. HIDE DEF p, n
<1>7. vfs_resolve_path(table, cwd, p).root = v
  <2>. DEFINE B == ByPath(table, p.text)
  <2>. DEFINE s == Best(table, B)
  <2>1. k \in B
    BY <1>2, <1>3, <1>6, CoversSelf DEF ByPath
  <2>2. /\ s \in B /\ s \in Slots /\ Len(table[k].path.text) <= Len(table[s].path.text)
    <3>1. B # {}
      BY <2>1
    <3>2. s \in B /\ s \in Slots /\ \A j \in B : Len(table[j].path.text) <= Len(table[s].path.text)
      BY <1>2, <1>3, <3>1, BestIs
    <3>. HIDE DEF B, s
    <3>. QED
      BY <2>1, <3>2
  <2>. HIDE DEF s
  <2>3. table[s].in_use /\ table[s].path.drive = NoLetter /\ Covers(table[s].path.text, p.text)
    BY <2>2 DEF ByPath
  <2>4. table[s].path \in Path /\ table[s].path.text \in Seq(Sym) /\ Normal(table[s].path.text)
    BY <1>3, <2>2, <2>3, SlotIs
  <2>5. table[s].path.text = p.text
    <3>. DEFINE m == table[s].path.text
    <3>. DEFINE t == p.text
    <3>1. m \in Seq(Sym) /\ Normal(m) /\ Covers(m, t) /\ Normal(t)
      BY <1>2, <2>3, <2>4
    <3>2. t \in Seq(Sym)
      BY <1>2 DEF Path
    <3>3. Len(t) <= Len(m)
      BY <1>6, <2>2, Zenon
    <3>. HIDE DEF m, t
    <3>4. Len(m) <= Len(t) /\ (Len(m) = Len(t) => m = t)
      BY <3>1, CoversLen
    <3>5. Len(m) \in Nat /\ Len(t) \in Nat
      BY <3>1, <3>2
    <3>6. m = t
      BY <3>3, <3>4, <3>5
    <3>. QED
      BY <3>6, Zenon DEF m, t
  <2>6. table[s].path = p
    BY <1>2, <2>3, <2>4, <2>5 DEF Path
  <2>7. s = k
    BY <1>3, <1>6, <2>2, <2>3, <2>6 DEF OnePath
  <2>8. Led(table, p) = [root |-> table[k].root,
                         rest |-> Below(SubSeq(p.text, Len(table[k].path.text) + 1, Len(p.text)))]
    <3>1. B # {}
      BY <2>1
    <3>. HIDE DEF B
    <3>. QED
      BY <2>7, <3>1, Zenon DEF Led, s, B
  <2>9. Led(table, p).root = v
    BY <1>6, <2>8
  <2>10. vfs_normalize_path(cwd, p) = p
    BY <1>2, NormalizeSame
  <2>11. vfs_resolve_path(table, cwd, p) = Led(table, p)
    BY <1>2, <2>10, ResolveIs
  <2>. QED
    BY <2>9, <2>11
<1>8. DriveRoot(table, cwd, letter) = v
  <2>. DEFINE L == LetterSlots(table, letter)
  <2>1. k \in L /\ L \in SUBSET Nat
    BY <1>3, <1>6, SlotsAre DEF LetterSlots
  <2>2. Min(L) \in L
    <3>. HIDE DEF L
    <3>. QED
      BY <2>1, MinOf
  <2>. DEFINE s == Min(L)
  <2>3. s \in Slots /\ table[s].in_use /\ table[s].letter = letter
    BY <1>3, <2>2 DEF LetterSlots
  <2>. HIDE DEF s, L
  <2>4. letter # "C" /\ letter # NoLetter /\ \A w \in 1..n : DriveLetters[w] = letter => w = v
    BY <1>1, LettersAre
  <2>. HIDE DEF letter
  <2>5. BootSlot(table[s], vols)
    BY <2>3 DEF BootOk
  <2>6. table[s].root = v
    <3>1. \E w \in DOMAIN vols : table[s] = MntMount(vols, w)
      BY <2>3, <2>4, <2>5, Zenon DEF BootSlot
    <3>2. PICK w \in DOMAIN vols : table[s] = MntMount(vols, w)
      BY <3>1
    <3>3. table[s].letter = DriveLetters[w] /\ table[s].root = w
      BY <1>5, <3>2
    <3>4. w = v
      BY <1>1, <2>3, <2>4, <3>3
    <3>. QED
      BY <3>3, <3>4
  <2>7. LetterSlots(table, letter) # {}
    BY <2>1 DEF L
  <2>8. DriveRoot(table, cwd, letter) = FirstRoot(table, letter)
    BY <2>4, <2>7, ResolveLetter
  <2>9. FirstRoot(table, letter) = v
    BY <2>6, Zenon DEF FirstRoot, s, L
  <2>. QED
    BY <2>8, <2>9
<1>. HIDE DEF letter
<1>. QED
  BY <1>7, <1>8, Zenon DEF Reached, p, letter

\* So it is right after kernel_main.
LEMMA BootReachesStep ==
  ASSUME VolumesInv, kernel_main, NEW v \in DOMAIN volumes',
         \A w \in DOMAIN volumes' : w > v => (volumes'[w] - volumes'[v]) % Digits # 0
  PROVE  /\ vfs_resolve_path(g_mount_table', g_cwd, MntPath(volumes'[v] - 1)).root = v
         /\ vfs_resolve_path(g_mount_table', g_cwd, [drive |-> DriveLetters[v], text |-> <<>>]).root = v
<1>. DEFINE b == BootMounts(g_mount_table, partition_probe(disk))
<1>. DEFINE vols == b.volumes
<1>1. g_mount_table' = b.table /\ volumes' = vols
  BY DEF kernel_main
<1>2. PICK k \in Nat : BootIs(b, k)
  BY KernelStep
<1>. HIDE DEF b
<1>3. vols \in Seq(Nat \ {0}) /\ Len(vols) <= Instances /\ BootOk(b.table, vols, 1 + 2 * Len(vols))
  BY <1>2 DEF BootIs
<1>. HIDE DEF vols
<1>4. v \in DOMAIN vols /\ \A w \in DOMAIN vols : vols[w] \in Nat \ {0}
  BY <1>1, <1>3
<1>5. Live(vols, v)
  <2>. SUFFICES ASSUME NEW w \in DOMAIN vols, w > v
                PROVE  MntPath(vols[w] - 1) # MntPath(vols[v] - 1)
    BY DEF Live
  <2>1. (vols[w] - vols[v]) % Digits # 0
    BY <1>1
  <2>2. Digit(vols[w] - 1) # Digit(vols[v] - 1)
    BY <1>4, <2>1, DigitsDiffer
  <2>3. vols[w] - 1 \in Nat /\ vols[v] - 1 \in Nat
    BY <1>4
  <2>4. MntPath(vols[w] - 1).text[4] = Digit(vols[w] - 1)
    BY <2>3, MntIs
  <2>5. MntPath(vols[v] - 1).text[4] = Digit(vols[v] - 1)
    BY <2>3, MntIs
  <2>. QED
    BY <2>2, <2>4, <2>5, Zenon
<1>6. Reached(b.table, g_cwd, vols, v)
  BY <1>3, <1>4, <1>5, BootedReached
<1>7. Reached(g_mount_table', g_cwd, volumes', v)
  BY <1>1, <1>6, Zenon
<1>. QED
  BY <1>7, Zenon DEF Reached, DriveRoot, Drive

\* Every step keeps the invariant.
LEMMA VolumesStep == VolumesInv /\ [VolumesNext]_volumeVars => VolumesInv'
<1>. SUFFICES ASSUME VolumesInv, [VolumesNext]_volumeVars PROVE VolumesInv'
  OBVIOUS
<1>1. CASE kernel_main
  BY <1>1, KernelStep
<1>2. ASSUME NEW p \in MountPaths, vfs_unmount(p) PROVE VolumesInv'
  BY <1>2, UnmountStep
<1>3. ASSUME NEW p \in MountPaths, vfs_chdir(p) PROVE VolumesInv'
  BY <1>3, ChdirStep
<1>4. ASSUME NEW p \in MountPaths, NEW l \in GivenLetters, cmd_mount(p, l) PROVE VolumesInv'
  BY <1>4, CmdMountStep
<1>5. CASE UNCHANGED volumeVars
  <2>1. /\ disk' = disk /\ booted' = booted /\ g_mount_table' = g_mount_table /\ g_cwd' = g_cwd
        /\ file_name' = file_name /\ done' = done /\ g_fat32_instance_count' = g_fat32_instance_count
    BY <1>5 DEF volumeVars
  <2>2. MountVisible'
    BY <2>1 DEF VolumesInv, MountVisible
  <2>. QED
    BY <2>1, <2>2 DEF VolumesInv
<1>. QED
  BY <1>1, <1>2, <1>3, <1>4, <1>5 DEF VolumesNext

\* Whatever is mounted, unmounted and entered, every mounted path and the working directory
\* is in its one form, and every slot of the table has a mount or nothing.
THEOREM VolumesInvariant == VolumesSpec => []VolumesInv
BY VolumesStart, VolumesStep, PTL DEF VolumesSpec

\* No mount takes away what others reach.
THEOREM MountsStayKept == VolumesSpec => MountsKept
<1>1. ASSUME VolumesInv, [VolumesNext]_volumeVars
      PROVE  [g_mount_table' # g_mount_table /\ booted /\ ~done'.taken =>
                \A q \in MountPaths :
                  LET n == vfs_normalize_path(g_cwd, q)
                  IN  n.drive = NoLetter /\ ~Covers(done'.path.text, n.text) =>
                        vfs_resolve_path(g_mount_table', g_cwd, n)
                          = vfs_resolve_path(g_mount_table, g_cwd, n)]_volumeVars
  <2>1. CASE VolumesNext
    <3>1. g_mount_table' # g_mount_table /\ booted /\ ~done'.taken =>
            \A q \in MountPaths : Elsewhere(q)
      BY <1>1, <2>1, MountLocalStep
    <3>. QED
      BY <3>1, Zenon DEF Elsewhere
  <2>2. CASE UNCHANGED volumeVars
    BY <2>2
  <2>. QED
    BY <1>1, <2>1, <2>2
<1>2. ASSUME VolumesInv
      PROVE  [kernel_main =>
                \A v \in DOMAIN volumes' :
                  (\A w \in DOMAIN volumes' : w > v => (volumes'[w] - volumes'[v]) % Digits # 0) =>
                    /\ vfs_resolve_path(g_mount_table', g_cwd, MntPath(volumes'[v] - 1)).root = v
                    /\ vfs_resolve_path(g_mount_table', g_cwd,
                                        [drive |-> DriveLetters[v], text |-> <<>>]).root = v]_volumeVars
  BY <1>2, BootReachesStep, Zenon
<1>3. VolumesSpec => []VolumesInv
  BY VolumesInvariant
<1>4. VolumesSpec => [][VolumesNext]_volumeVars
  BY DEF VolumesSpec
<1>5. VolumesSpec => MountLocal
  BY <1>1, <1>3, <1>4, PTL DEF MountLocal
<1>6. VolumesSpec => BootReaches
  BY <1>2, <1>3, PTL DEF BootReaches
<1>. QED
  BY <1>5, <1>6 DEF MountsKept

-----------------------------------------------------------------------------
(* Where paths lead.                                                       *)

\* Paths are in their one form.
LEMMA NormalFormHolds == VolumesInv => NormalForm
<1>. SUFFICES ASSUME VolumesInv, NEW p \in MountPaths
              PROVE  LET n == vfs_normalize_path(g_cwd, p)
                         t == n.text
                     IN  /\ Head(t) = "/" /\ (Len(t) > 1 => Last(t) # "/")
                         /\ \A i \in 1..(Len(t) - 1) : ~(t[i] = "/" /\ t[i + 1] = "/")
                         /\ vfs_normalize_path(g_cwd, n) = n
  BY Zenon DEF NormalForm
<1>. DEFINE n == vfs_normalize_path(g_cwd, p)
<1>. DEFINE t == n.text
<1>1. n \in Path /\ Normal(t)
  BY GivenPath, NormalizeIs DEF VolumesInv
<1>. HIDE DEF n
<1>2. vfs_normalize_path(g_cwd, n) = n
  BY <1>1, NormalizeSame
<1>. HIDE DEF t
<1>3. /\ Head(t) = "/" /\ (Len(t) > 1 => Last(t) # "/")
      /\ \A i \in 1..(Len(t) - 1) : ~(t[i] = "/" /\ t[i + 1] = "/")
  BY <1>1 DEF Normal, NoDoubles, Last
<1>. QED
  BY <1>2, <1>3, Zenon DEF n, t

\* A mount covers a path if its names are the first names of the path.
LEMMA CoversIs ==
  ASSUME NEW m, Normal(m), NEW t, Normal(t)
  PROVE  Covers(m, t) <=> IsPrefix(Slashed(m), Slashed(t))
<1>. DEFINE a == Len(m)
<1>. DEFINE b == Len(t)
<1>1. m \in Seq(Sym) /\ t \in Seq(Sym) /\ a \in Nat /\ b \in Nat /\ a > 0 /\ b > 0
      /\ m[1] = "/" /\ t[1] = "/" /\ "/" \in Sym
  BY DEF Normal, NoDoubles, Sym
<1>2. Append(t, "/") \in Seq(Sym) /\ Len(Append(t, "/")) = b + 1 /\ Append(t, "/")[b + 1] = "/"
      /\ \A i \in 1..b : Append(t, "/")[i] = t[i]
  BY <1>1
<1>3. Append(m, "/") \in Seq(Sym) /\ Len(Append(m, "/")) = a + 1 /\ Append(m, "/")[a + 1] = "/"
      /\ \A i \in 1..a : Append(m, "/")[i] = m[i]
  BY <1>1
<1>4. <<"/">> \in Seq(Sym) /\ Len(<<"/">>) = 1 /\ <<"/">>[1] = "/"
  BY <1>1
<1>. DEFINE st == Slashed(t)
<1>. DEFINE sm == Slashed(m)
<1>5. \/ st = t /\ t = <<"/">>
      \/ st = Append(t, "/") /\ t # <<"/">>
  BY DEF Slashed
<1>6. \/ sm = m /\ m = <<"/">>
      \/ sm = Append(m, "/") /\ m # <<"/">>
  BY DEF Slashed
<1>. HIDE DEF st, sm
<1>7. st \in Seq(Sym) /\ sm \in Seq(Sym)
  BY <1>1, <1>2, <1>3, <1>5, <1>6
<1>8. IsPrefix(sm, st) <=> Len(sm) <= Len(st) /\ \A i \in 1..Len(sm) : sm[i] = st[i]
  BY <1>7, PrefixIs
<1>9. IsPrefix(m, t) <=> a <= b /\ \A i \in 1..a : m[i] = t[i]
  BY <1>1, PrefixIs
<1>10. Covers(m, t) <=> m = <<"/">> \/ (IsPrefix(m, t) /\ (a = b \/ t[a + 1] = "/"))
  BY Zenon DEF Covers
<1>. DEFINE at == Append(t, "/")
<1>. DEFINE am == Append(m, "/")
<1>. HIDE DEF a, b, at, am
<1>11. CASE m = <<"/">>
  <2>1. a = 1 /\ sm = m
    BY <1>4, <1>6, <1>11 DEF a
  <2>2. Len(st) >= 1 /\ st[1] = "/"
    <3>1. 1 \in 1..b /\ b + 1 >= 1 /\ b >= 1
      BY <1>1
    <3>. QED
      BY <1>1, <1>2, <1>5, <3>1 DEF b
  <2>3. Len(sm) = 1 /\ sm[1] = "/"
    BY <1>4, <1>11, <2>1
  <2>4. IsPrefix(sm, st)
    BY <1>8, <2>2, <2>3
  <2>. QED
    BY <1>10, <1>11, <2>4 DEF sm, st
<1>12. CASE m # <<"/">>
  <2>1. sm = am /\ Len(sm) = a + 1
    BY <1>3, <1>6, <1>12 DEF am
  <2>2. a > 1
    <3>1. a = 1 => m = <<"/">>
      <4>. SUFFICES ASSUME a = 1 PROVE m = <<"/">>
        OBVIOUS
      <4>1. Len(m) = Len(<<"/">>) /\ \A i \in 1..Len(m) : m[i] = <<"/">>[i]
        BY <1>1, <1>4 DEF a
      <4>. QED
        BY <1>1, <1>4, <4>1, SeqEqual
    <3>. QED
      BY <1>1, <1>12, <3>1
  <2>3. CASE t = <<"/">>
    <3>1. b = 1 /\ Len(st) = 1
      BY <1>4, <1>5, <2>3 DEF b
    <3>2. ~IsPrefix(m, t) /\ ~IsPrefix(sm, st)
      BY <1>1, <1>8, <1>9, <2>1, <2>2, <3>1
    <3>. QED
      BY <1>10, <1>12, <3>2 DEF sm, st
  <2>4. CASE t # <<"/">>
    <3>1. st = at /\ Len(st) = b + 1 /\ st[b + 1] = "/" /\ \A i \in 1..b : st[i] = t[i]
      BY <1>2, <1>5, <2>4 DEF at
    <3>2. sm[a + 1] = "/" /\ \A i \in 1..a : sm[i] = m[i]
      BY <1>3, <1>6, <1>12
    <3>3. ASSUME IsPrefix(sm, st) PROVE IsPrefix(m, t) /\ (a = b \/ t[a + 1] = "/")
      <4>1. a <= b /\ \A i \in 1..(a + 1) : sm[i] = st[i]
        BY <1>1, <1>8, <2>1, <3>1, <3>3
      <4>2. \A i \in 1..a : i \in 1..(a + 1) /\ i \in 1..b
        BY <1>1, <4>1
      <4>3. \A i \in 1..a : m[i] = t[i]
        BY <3>1, <3>2, <4>1, <4>2
      <4>4. a + 1 \in 1..(a + 1) /\ (a = b \/ a + 1 \in 1..b)
        BY <1>1, <4>1
      <4>. QED
        BY <1>9, <3>1, <3>2, <4>1, <4>3, <4>4
    <3>4. ASSUME IsPrefix(m, t), a = b \/ t[a + 1] = "/" PROVE IsPrefix(sm, st)
      <4>1. a <= b /\ \A i \in 1..a : m[i] = t[i]
        BY <1>9, <3>4
      <4>2. st[a + 1] = "/"
        <5>1. a = b \/ a + 1 \in 1..b
          BY <1>1, <4>1
        <5>2. CASE a = b
          BY <3>1, <5>2
        <5>3. CASE a # b
          BY <3>1, <3>4, <5>1, <5>3
        <5>. QED
          BY <5>2, <5>3
      <4>3. \A i \in 1..(a + 1) : i = a + 1 \/ (i \in 1..a /\ i \in 1..b)
        BY <1>1, <4>1
      <4>4. \A i \in 1..(a + 1) : sm[i] = st[i]
        BY <3>1, <3>2, <4>1, <4>2, <4>3
      <4>5. a + 1 <= b + 1
        BY <1>1, <4>1
      <4>. QED
        BY <1>8, <2>1, <3>1, <4>4, <4>5
    <3>. QED
      BY <1>10, <1>12, <3>3, <3>4 DEF sm, st
  <2>. QED
    BY <2>3, <2>4
<1>. QED
  BY <1>11, <1>12

\* Paths lead into the deepest mount above them.
LEMMA DeepestHolds == VolumesInv => LeadsToDeepest
<1>. SUFFICES ASSUME VolumesInv, NEW p \in MountPaths
              PROVE  LET n == vfs_normalize_path(g_cwd, p)
                         above == {i \in DOMAIN g_mount_table :
                                     /\ g_mount_table[i].in_use /\ g_mount_table[i].path.drive = NoLetter
                                     /\ IsPrefix(Slashed(g_mount_table[i].path.text), Slashed(n.text))}
                         deepest == {i \in above : \A j \in above :
                                       Len(g_mount_table[j].path.text)
                                         <= Len(g_mount_table[i].path.text)}
                     IN  n.drive = NoLetter /\ above # {} =>
                           \E i \in deepest :
                             vfs_resolve_path(g_mount_table, g_cwd, p).root = g_mount_table[i].root
  BY Zenon DEF LeadsToDeepest
<1>. DEFINE n == vfs_normalize_path(g_cwd, p)
<1>. DEFINE above == {i \in DOMAIN g_mount_table :
                        /\ g_mount_table[i].in_use /\ g_mount_table[i].path.drive = NoLetter
                        /\ IsPrefix(Slashed(g_mount_table[i].path.text), Slashed(n.text))}
<1>. DEFINE deepest == {i \in above : \A j \in above :
                          Len(g_mount_table[j].path.text) <= Len(g_mount_table[i].path.text)}
<1>. SUFFICES ASSUME n.drive = NoLetter, above # {}
              PROVE  \E i \in deepest :
                       vfs_resolve_path(g_mount_table, g_cwd, p).root = g_mount_table[i].root
  OBVIOUS
<1>1. n \in Path /\ Normal(n.text) /\ TableOk(g_mount_table) /\ DOMAIN g_mount_table = Slots
  BY GivenPath, NormalizeIs DEF VolumesInv, TableOk
<1>2. vfs_resolve_path(g_mount_table, g_cwd, p) = Led(g_mount_table, n)
  BY ResolveIs
<1>. HIDE DEF n
<1>. DEFINE B == ByPath(g_mount_table, n.text)
<1>3. above = B
  <2>1. \A i \in Slots : i \in above <=> i \in B
    <3>. TAKE i \in Slots
    <3>1. CASE g_mount_table[i].in_use
      <4>. DEFINE m == g_mount_table[i].path.text
      <4>1. Normal(m)
        BY <1>1, <3>1, SlotIs
      <4>. HIDE DEF m
      <4>2. Covers(m, n.text) <=> IsPrefix(Slashed(m), Slashed(n.text))
        BY <1>1, <4>1, CoversIs
      <4>. QED
        BY <1>1, <4>2, Zenon DEF ByPath, m
    <3>2. CASE ~g_mount_table[i].in_use
      BY <3>2 DEF ByPath
    <3>. QED
      BY <3>1, <3>2
  <2>2. above \subseteq Slots /\ B \subseteq Slots
    BY <1>1 DEF ByPath
  <2>. HIDE DEF above, B
  <2>. QED
    BY <2>1, <2>2
<1>. DEFINE b == Best(g_mount_table, B)
<1>4. B # {}
  BY <1>3
<1>5. b \in B /\ \A j \in B : Len(g_mount_table[j].path.text) <= Len(g_mount_table[b].path.text)
  BY <1>1, <1>4, BestIs
<1>. HIDE DEF above, B
<1>6. Led(g_mount_table, n)
        = [root |-> g_mount_table[b].root,
           rest |-> Below(SubSeq(n.text, Len(g_mount_table[b].path.text) + 1, Len(n.text)))]
  BY <1>4, Zenon DEF Led, B
<1>. HIDE DEF b
<1>7. Led(g_mount_table, n).root = g_mount_table[b].root
  BY <1>6
<1>8. b \in deepest
  BY <1>3, <1>5
<1>. HIDE DEF deepest
<1>9. vfs_resolve_path(g_mount_table, g_cwd, p).root = g_mount_table[b].root
  BY <1>2, <1>7, Zenon
<1>. QED
  BY <1>8, <1>9, Zenon

\* A relative path goes on from a working directory that has no drive.
LEMMA JoinedIs ==
  ASSUME NEW cwd \in Path, Normal(cwd.text), cwd.drive = NoLetter, NEW text \in Seq(Sym)
  PROVE  Squeeze(Joined(cwd, text)) = Squeeze(cwd.text \o <<"/">> \o text)
<1>. DEFINE w == cwd.text
<1>1. /\ w \in Seq(Sym) /\ Len(w) \in Nat /\ Len(w) > 0 /\ w[1] = "/" /\ "/" \in Sym
      /\ (Len(w) > 1 => w[Len(w)] # "/") /\ Last(w) = w[Len(w)]
  BY DEF Normal, NoDoubles, Sym, Last
<1>2. Joined(cwd, text) = (IF Last(w) = "/" THEN w ELSE Append(w, "/")) \o text
  BY Zenon DEF Joined
<1>. HIDE DEF w
<1>3. Last(w) = "/" => w = <<"/">>
  <2>. SUFFICES ASSUME Last(w) = "/" PROVE w = <<"/">>
    OBVIOUS
  <2>0. ~(Len(w) > 1)
    BY <1>1, Zenon
  <2>. DEFINE k == Len(w)
  <2>3. k \in Nat /\ k > 0 /\ ~(k > 1)
    BY <1>1, <2>0, Zenon
  <2>. HIDE DEF k
  <2>4. k = 1
    BY <2>3
  <2>1. Len(w) = 1
    BY <2>4, Zenon DEF k
  <2>2. <<"/">> \in Seq(Sym) /\ Len(<<"/">>) = 1 /\ \A i \in 1..1 : w[i] = <<"/">>[i]
    BY <1>1
  <2>. QED
    BY <1>1, <2>1, <2>2, SeqEqual
<1>4. CASE Last(w) = "/"
  <2>1. Joined(cwd, text) = <<"/">> \o text
    BY <1>2, <1>3, <1>4
  <2>2. <<"/">> \o text \in Seq(Sym)
    BY <1>1
  <2>3. Squeeze(<<"/">> \o (<<"/">> \o text)) = Squeeze(<<"/">> \o text)
    BY <2>2, SqueezeSlash, Zenon
  <2>4. w \o <<"/">> \o text = <<"/">> \o (<<"/">> \o text)
    <3>1. <<"/">> \in Seq(Sym) /\ w = <<"/">>
      BY <1>1, <1>3, <1>4
    <3>2. (<<"/">> \o <<"/">>) \o text = <<"/">> \o (<<"/">> \o text)
      BY <3>1
    <3>. QED
      BY <3>1, <3>2, Zenon
  <2>. QED
    BY <2>1, <2>3, <2>4, Zenon DEF w
<1>5. CASE Last(w) # "/"
  <2>1. Append(w, "/") = w \o <<"/">>
    BY <1>1, AppendIsConcat
  <2>. QED
    BY <1>2, <1>5, <2>1, Zenon DEF w
<1>. QED
  BY <1>4, <1>5

\* Relative paths go on from the working directory.
LEMMA RelativeHolds == VolumesInv => RelativeFollows
<1>. SUFFICES ASSUME VolumesInv, NEW p \in MountPaths, p.drive = NoLetter, g_cwd.drive = NoLetter,
                     p.text # <<>>, Head(p.text) \notin Separators
              PROVE  vfs_resolve_path(g_mount_table, g_cwd, p)
                       = vfs_resolve_path(g_mount_table, Absolute(<<"/">>),
                                          Absolute(g_cwd.text \o <<"/">> \o p.text))
  BY Zenon DEF RelativeFollows
<1>. DEFINE t == g_cwd.text \o <<"/">> \o p.text
<1>. DEFINE q == Absolute(t)
<1>. DEFINE root == Absolute(<<"/">>)
<1>1. p \in Path /\ p.text \in Seq(Sym) /\ g_cwd \in Path /\ Normal(g_cwd.text)
      /\ g_cwd.text \in Seq(Sym) /\ Len(g_cwd.text) > 0 /\ g_cwd.text[1] = "/"
  BY GivenPath DEF VolumesInv, Path, Normal, NoDoubles
<1>2. t # <<>> /\ Head(t) = "/"
  <2>1. "/" \in Sym
    BY DEF Sym
  <2>2. t \in Seq(Sym) /\ Len(t) > 0 /\ t[1] = "/"
    <3>. DEFINE w == g_cwd.text
    <3>. DEFINE v == w \o <<"/">>
    <3>. DEFINE x == p.text
    <3>1. w \in Seq(Sym) /\ Len(w) > 0 /\ w[1] = "/" /\ <<"/">> \in Seq(Sym) /\ x \in Seq(Sym)
      BY <1>1, <2>1
    <3>. HIDE DEF w, x
    <3>2. v \in Seq(Sym) /\ Len(v) > 0 /\ v[1] = "/"
      BY <3>1
    <3>. HIDE DEF v
    <3>3. v \o x \in Seq(Sym) /\ Len(v \o x) > 0 /\ (v \o x)[1] = "/"
      BY <3>1, <3>2
    <3>. QED
      BY <3>3, Zenon DEF v, w, x
  <2>. HIDE DEF t
  <2>. QED
    BY <2>2
<1>3. q.drive = NoLetter /\ q.text = t
  BY DEF Absolute
<1>4. Squeeze(Whole(g_cwd, p)) = Squeeze(Whole(root, q))
  <2>1. Whole(g_cwd, p) = Joined(g_cwd, p.text)
    BY DEF Whole
  <2>2. Squeeze(Joined(g_cwd, p.text)) = Squeeze(t)
    BY <1>1, JoinedIs, Zenon
  <2>. HIDE DEF t, q
  <2>3. "/" \in Separators
    BY DEF Separators
  <2>4. Whole(root, q) = t
    BY <1>2, <1>3, <2>3, Zenon DEF Whole
  <2>. QED
    BY <2>1, <2>2, <2>4, Zenon
<1>. HIDE DEF t, q, root
<1>. DEFINE out == Squeeze(Whole(g_cwd, p))
<1>. DEFINE u == IF Len(out) > 1 /\ Last(out) = "/" THEN Front(out) ELSE out
<1>5. vfs_normalize_path(g_cwd, p) = [drive |-> p.drive, text |-> u]
  BY Zenon DEF vfs_normalize_path, Whole
<1>. DEFINE out2 == Squeeze(Whole(root, q))
<1>. DEFINE u2 == IF Len(out2) > 1 /\ Last(out2) = "/" THEN Front(out2) ELSE out2
<1>0. vfs_normalize_path(root, q) = [drive |-> q.drive, text |-> u2]
  BY Zenon DEF vfs_normalize_path, Whole
<1>. HIDE DEF out, out2
<1>01. out2 = out
  BY <1>4, Zenon DEF out, out2
<1>6. vfs_normalize_path(root, q) = [drive |-> q.drive, text |-> u]
  BY <1>0, <1>01, Zenon
<1>. HIDE DEF u, u2
<1>. DEFINE n == [drive |-> NoLetter, text |-> u]
<1>7. vfs_normalize_path(g_cwd, p) = n /\ vfs_normalize_path(root, q) = n
  BY <1>3, <1>5, <1>6
<1>8. n.drive = NoLetter
  OBVIOUS
<1>. HIDE DEF n
<1>9. vfs_resolve_path(g_mount_table, g_cwd, p) = Led(g_mount_table, n)
  BY <1>7, <1>8, ResolveIs
<1>10. vfs_resolve_path(g_mount_table, root, q) = Led(g_mount_table, n)
  BY <1>7, <1>8, ResolveIs
<1>. QED
  BY <1>9, <1>10, Zenon DEF root, q, t

-----------------------------------------------------------------------------
(* Names.                                                                  *)

\* What is put into a field that is long enough comes out of it again.
LEMMA FieldKept ==
  ASSUME NEW T, Blank \in T, NEW text \in Seq(T), NEW n \in Nat, Len(text) <= n,
         \A i \in 1..Len(text) : text[i] # Blank
  PROVE  Trimmed(Field(text, n)) = text
<1>. DEFINE m == Len(text)
<1>. DEFINE bl == Blanks(n)
<1>. DEFINE f == Field(text, n)
<1>1. m \in Nat /\ m <= n /\ SubSeq(text, 1, m) = text
  OBVIOUS
<1>2. bl \in Seq(T) /\ Len(bl) = n /\ \A i \in 1..n : bl[i] = Blank
  <2>1. bl = [i \in 1..n |-> Blank]
    BY Zenon DEF Blanks
  <2>2. bl \in [1..n -> T]
    BY <2>1
  <2>3. bl \in Seq(T) /\ Len(bl) = n
    BY <2>2
  <2>. HIDE DEF bl
  <2>. QED
    BY <2>1, <2>3
<1>. HIDE DEF bl, m
<1>3. /\ text \o bl \in Seq(T) /\ Len(text \o bl) = m + n
      /\ (\A i \in 1..m : (text \o bl)[i] = text[i])
      /\ \A i \in (m + 1)..n : (text \o bl)[i] = Blank
  <2>1. text \o bl \in Seq(T) /\ Len(text \o bl) = m + n
        /\ (\A i \in 1..m : (text \o bl)[i] = text[i])
        /\ \A i \in 1..n : (text \o bl)[m + i] = bl[i]
    BY <1>1, <1>2 DEF m
  <2>2. ASSUME NEW i \in (m + 1)..n PROVE (text \o bl)[i] = Blank
    <3>1. i - m \in 1..n /\ m + (i - m) = i
      BY <1>1
    <3>2. (text \o bl)[m + (i - m)] = bl[i - m]
      BY <2>1, <3>1
    <3>. QED
      BY <1>2, <3>1, <3>2
  <2>. QED
    BY <2>1, <2>2
<1>. DEFINE w == text \o bl
<1>4. f = SubSeq(w, 1, n)
  BY Zenon DEF Field, bl
<1>. HIDE DEF w, f
<1>5. /\ w \in Seq(T) /\ Len(w) = m + n /\ (\A i \in 1..m : w[i] = text[i])
      /\ \A i \in (m + 1)..n : w[i] = Blank
  BY <1>3, Zenon DEF w
<1>6. f \in Seq(T) /\ Len(f) = n /\ \A i \in 1..n : f[i] = w[i]
  BY <1>1, <1>4, <1>5
<1>. DEFINE places == {i \in DOMAIN f : f[i] # Blank}
<1>7. \A i \in 1..Len(f) : i \in places <=> i <= m
  <2>. TAKE i \in 1..Len(f)
  <2>1. i \in 1..n /\ i \in DOMAIN f /\ (i <= m => i \in 1..m) /\ (~(i <= m) => i \in (m + 1)..n)
    BY <1>1, <1>6
  <2>2. i <= m => f[i] # Blank
    BY <1>5, <1>6, <2>1 DEF m
  <2>3. ~(i <= m) => f[i] = Blank
    BY <1>5, <1>6, <2>1
  <2>. QED
    BY <2>1, <2>2, <2>3
<1>. HIDE DEF places
<1>8. m \in 0..Len(f)
  BY <1>1, <1>6
<1>9. Kept(f, places) = SubSeq(f, 1, m)
  BY <1>6, <1>7, <1>8, KeptFront
<1>10. SubSeq(f, 1, m) = text
  <2>. DEFINE a == SubSeq(f, 1, m)
  <2>1. a \in Seq(T) /\ Len(a) = m /\ \A i \in 1..m : a[i] = f[i]
    BY <1>1, <1>6
  <2>. HIDE DEF a
  <2>2. \A i \in 1..m : i \in 1..n
    BY <1>1
  <2>3. Len(a) = Len(text) /\ \A i \in 1..Len(a) : a[i] = text[i]
    BY <1>5, <1>6, <2>1, <2>2 DEF m
  <2>4. a = text
    BY <2>1, <2>3, SeqEqual
  <2>. QED
    BY <2>4 DEF a
<1>11. Trimmed(f) = Kept(f, places)
  BY Zenon DEF Trimmed, places
<1>12. Trimmed(f) = text
  BY <1>9, <1>10, <1>11
<1>. QED
  BY <1>12 DEF f

\* An empty field.
LEMMA NothingKept ==
  ASSUME NEW n \in Nat
  PROVE  Trimmed(Blanks(n)) = <<>>
<1>. DEFINE f == Blanks(n)
<1>1. f = [i \in 1..n |-> Blank]
  BY Zenon DEF Blanks
<1>2. f \in [1..n -> {Blank}]
  BY <1>1
<1>3. f \in Seq({Blank}) /\ Len(f) = n /\ DOMAIN f = 1..n
  BY <1>2
<1>. DEFINE places == {i \in DOMAIN f : f[i] # Blank}
<1>. HIDE DEF f
<1>4. \A i \in 1..Len(f) : i \in places <=> i <= 0
  BY <1>1, <1>3
<1>5. Trimmed(f) = Kept(f, places)
  BY Zenon DEF Trimmed
<1>. HIDE DEF places
<1>6. Kept(f, places) = SubSeq(f, 1, 0)
  <2>1. 0 \in 0..Len(f)
    BY <1>3
  <2>. QED
    BY <1>3, <1>4, <2>1, KeptFront
<1>7. SubSeq(f, 1, 0) = <<>>
  BY <1>3
<1>8. Trimmed(f) = <<>>
  BY <1>5, <1>6, <1>7
<1>. QED
  BY <1>8 DEF f

\* The last dot of a name is a dot, if there is one.
LEMMA DotIs ==
  ASSUME NEW name \in Seq(Sym)
  PROVE  /\ LastDot(name) \in 0..Len(name)
         /\ LastDot(name) # 0 => name[LastDot(name)] = "."
<1>. DEFINE S == {i \in DOMAIN name : name[i] = "."}
<1>1. Len(name) \in Nat /\ {0} \cup S \in SUBSET (0..Len(name)) /\ {0} \cup S # {}
  OBVIOUS
<1>2. \A i \in {0} \cup S : i # 0 => name[i] = "."
  OBVIOUS
<1>. DEFINE U == {0} \cup S
<1>. HIDE DEF S
<1>3. LastDot(name) = Max(U)
  BY Zenon DEF LastDot, S
<1>. HIDE DEF U
<1>4. U \in SUBSET (0..Len(name)) /\ U # {} /\ \A i \in U : i # 0 => name[i] = "."
  BY <1>1, <1>2 DEF U
<1>5. Max(U) \in U
  BY <1>1, <1>4, MaxOf
<1>. QED
  BY <1>3, <1>4, <1>5

Letters == Sym \cup {Blank}

\* The name that comes back.
LEMMA NameBack ==
  ASSUME NEW name \in Seq(Sym), \A i \in DOMAIN name : name[i] # Blank,
         IF LastDot(name) = 0 THEN Len(name) <= BaseLen
         ELSE LastDot(name) - 1 <= BaseLen /\ Len(name) - LastDot(name) \in 1..ExtLen
  PROVE  format_8_3_name(create_8_3_name(name)) = name
<1>. DEFINE dot == LastDot(name)
<1>. DEFINE n == Len(name)
<1>1. BaseLen \in Nat /\ ExtLen \in Nat
  BY VolumesAssumption
<1>2. n \in Nat /\ dot \in 0..n /\ (dot # 0 => name[dot] = ".") /\ DOMAIN name = 1..n
  BY DotIs
<1>3. name \in Seq(Letters) /\ Blank \in Letters
  <2>1. Blank \in Letters /\ \A x \in Sym : x \in Letters
    BY DEF Letters
  <2>. QED
    BY <2>1
<1>. DEFINE e == create_8_3_name(name)
<1>4. format_8_3_name(e) = Trimmed(e.base) \o
        (IF Trimmed(e.ext) = <<>> THEN <<>> ELSE <<".">> \o Trimmed(e.ext))
  BY Zenon DEF format_8_3_name
<1>5. CASE dot = 0
  <2>1. e = [base |-> Field(name, BaseLen), ext |-> Blanks(ExtLen)]
    BY <1>5, Zenon DEF create_8_3_name, Dot
  <2>. HIDE DEF e
  <2>2. e.base = Field(name, BaseLen) /\ e.ext = Blanks(ExtLen)
    BY <2>1
  <2>3. Trimmed(Field(name, BaseLen)) = name
    <3>1. n <= BaseLen /\ \A i \in 1..n : name[i] # Blank
      BY <1>2, <1>5
    <3>. QED
      BY <1>1, <1>3, <3>1, FieldKept
  <2>4. Trimmed(Blanks(ExtLen)) = <<>>
    BY <1>1, NothingKept
  <2>5. format_8_3_name(e) = name \o <<>>
    BY <1>4, <2>2, <2>3, <2>4, Zenon
  <2>6. name \o <<>> = name
    OBVIOUS
  <2>. QED
    BY <2>5, <2>6, Zenon DEF e
<1>6. CASE dot # 0
  <2>. DEFINE a == SubSeq(name, 1, dot - 1)
  <2>. DEFINE b == SubSeq(name, dot + 1, n)
  <2>1. e = [base |-> Field(a, BaseLen), ext |-> Field(b, ExtLen)]
    BY <1>6, Zenon DEF create_8_3_name, Dot
  <2>. HIDE DEF e
  <2>2. e.base = Field(a, BaseLen) /\ e.ext = Field(b, ExtLen)
    BY <2>1
  <2>0. dot \in 1..n /\ dot - 1 <= BaseLen /\ n - dot >= 1 /\ n - dot <= ExtLen
    BY <1>1, <1>2, <1>6
  <2>. HIDE DEF dot, n
  <2>3. a \in Seq(Letters) /\ Len(a) = dot - 1 /\ \A i \in 1..(dot - 1) : a[i] = name[i]
    BY <1>2, <1>3, <2>0 DEF n
  <2>4. b \in Seq(Letters) /\ Len(b) = n - dot /\ \A i \in 1..(n - dot) : b[i] = name[dot + i]
    <3>1. \A i \in (dot + 1)..n : name[i] \in Letters
      BY <1>2, <1>3, <2>0 DEF n
    <3>2. dot + 1 \in Int /\ n \in Int /\ dot + 1 <= n /\ n - (dot + 1) + 1 = n - dot
      BY <1>2, <2>0
    <3>3. /\ b \in Seq(Letters) /\ Len(b) = n - (dot + 1) + 1
          /\ \A i \in 1..(n - (dot + 1) + 1) : b[i] = name[dot + 1 + i - 1]
      <4>1. /\ b \in Seq(Letters) /\ Len(b) = IF dot + 1 <= n THEN n - (dot + 1) + 1 ELSE 0
            /\ \A i \in 1..(n - (dot + 1) + 1) : b[i] = name[dot + 1 + i - 1]
        BY <3>1, <3>2, SubSeqProperties
      <4>. HIDE DEF b
      <4>. QED
        BY <3>2, <4>1
    <3>. HIDE DEF b
    <3>4. \A i \in 1..(n - dot) : dot + 1 + i - 1 = dot + i
      BY <1>2, <2>0
    <3>. QED
      BY <3>2, <3>3, <3>4
  <2>. HIDE DEF a, b
  <2>5. Trimmed(Field(a, BaseLen)) = a
    <3>1. \A i \in 1..(dot - 1) : i \in 1..n
      BY <1>2, <2>0
    <3>2. \A i \in 1..Len(a) : a[i] # Blank
      BY <1>2, <2>3, <3>1
    <3>3. Len(a) <= BaseLen
      BY <2>0, <2>3
    <3>. QED
      BY <1>1, <1>3, <2>3, <3>2, <3>3, FieldKept
  <2>6. Trimmed(Field(b, ExtLen)) = b
    <3>1. \A i \in 1..(n - dot) : dot + i \in 1..n
      BY <1>2, <2>0
    <3>2. \A i \in 1..Len(b) : b[i] # Blank
      BY <1>2, <2>4, <3>1
    <3>3. Len(b) <= ExtLen
      BY <2>0, <2>4
    <3>. QED
      BY <1>1, <1>3, <2>4, <3>2, <3>3, FieldKept
  <2>7. b # <<>>
    <3>1. Len(b) # 0
      BY <1>2, <2>0, <2>4
    <3>. QED
      BY <3>1
  <2>8. format_8_3_name(e) = a \o (<<".">> \o b)
    BY <1>4, <2>2, <2>5, <2>6, <2>7, Zenon
  <2>9. a \o (<<".">> \o b) = name
    <3>. DEFINE T == Letters \cup {"."}
    <3>. DEFINE c == <<".">> \o b
    <3>. DEFINE r == a \o c
    <3>1. a \in Seq(T) /\ b \in Seq(T) /\ name \in Seq(T) /\ <<".">> \in Seq(T)
      BY <1>3, <2>3, <2>4
    <3>. HIDE DEF T
    <3>2. c \in Seq(T) /\ Len(c) = (n - dot) + 1 /\ c[1] = "." /\ \A i \in 1..(n - dot) : c[i + 1] = b[i]
      <4>. DEFINE o == <<".">>
      <4>1. o \in Seq(T) /\ Len(o) = 1 /\ o[1] = "."
        BY <3>1
      <4>. HIDE DEF o
      <4>2. /\ c \in Seq(T) /\ Len(c) = Len(o) + Len(b)
            /\ \A i \in 1..(Len(o) + Len(b)) : c[i] = IF i <= Len(o) THEN o[i] ELSE b[i - Len(o)]
        BY <3>1, <4>1, ConcatProperties DEF o
      <4>. HIDE DEF c
      <4>3. 1 \in 1..(1 + (n - dot)) /\ \A i \in 1..(n - dot) :
              i + 1 \in 1..(1 + (n - dot)) /\ ~(i + 1 <= 1) /\ (i + 1) - 1 = i
        BY <1>2, <2>0
      <4>. QED
        BY <1>2, <2>0, <2>4, <4>1, <4>2, <4>3
    <3>. HIDE DEF c
    <3>3. /\ r \in Seq(T) /\ Len(r) = n /\ (\A i \in 1..(dot - 1) : r[i] = a[i])
          /\ \A i \in 1..Len(c) : r[Len(a) + i] = c[i]
      <4>1. /\ r \in Seq(T) /\ Len(r) = Len(a) + Len(c)
            /\ \A i \in 1..(Len(a) + Len(c)) : r[i] = IF i <= Len(a) THEN a[i] ELSE c[i - Len(a)]
        BY <3>1, <3>2, ConcatProperties
      <4>. HIDE DEF r
      <4>2. Len(a) = dot - 1 /\ Len(c) = (n - dot) + 1 /\ Len(a) + Len(c) = n
        BY <1>2, <2>0, <2>3, <3>2
      <4>3. ASSUME NEW i \in 1..(dot - 1) PROVE r[i] = a[i]
        BY <1>2, <2>0, <4>1, <4>2
      <4>4. ASSUME NEW i \in 1..((n - dot) + 1) PROVE r[(dot - 1) + i] = c[i]
        <5>1. (dot - 1) + i \in 1..n /\ ~((dot - 1) + i <= dot - 1) /\ ((dot - 1) + i) - (dot - 1) = i
          BY <1>2, <2>0
        <5>. QED
          BY <4>1, <4>2, <5>1
      <4>. QED
        BY <4>1, <4>2, <4>3, <4>4
    <3>. HIDE DEF r
    <3>4. ASSUME NEW i \in 1..n PROVE r[i] = name[i]
      <4>1. CASE i < dot
        <5>1. i \in 1..(dot - 1)
          BY <1>2, <4>1
        <5>. QED
          BY <2>3, <3>3, <5>1
      <4>2. CASE i = dot
        <5>1. 1 \in 1..Len(c) /\ Len(a) + 1 = dot
          BY <1>2, <2>0, <2>3, <3>2
        <5>2. r[Len(a) + 1] = c[1]
          BY <3>3, <5>1
        <5>. QED
          BY <1>2, <1>6, <3>2, <4>2, <5>1, <5>2
      <4>3. CASE i > dot
        <5>. DEFINE j == i - dot
        <5>1. j \in 1..(n - dot) /\ j + 1 \in 1..Len(c) /\ Len(a) + (j + 1) = i /\ dot + j = i
          BY <1>2, <2>0, <2>3, <3>2, <4>3
        <5>. HIDE DEF j
        <5>2. r[Len(a) + (j + 1)] = c[j + 1] /\ c[j + 1] = b[j] /\ b[j] = name[dot + j]
          BY <2>4, <3>2, <3>3, <5>1
        <5>. QED
          BY <5>1, <5>2
      <4>. QED
        BY <1>2, <4>1, <4>2, <4>3
    <3>5. Len(name) = n
      BY DEF n
    <3>6. r = name
      BY <3>1, <3>3, <3>4, <3>5, SeqEqual
    <3>. QED
      BY <3>6 DEF r, c
  <2>. QED
    BY <2>8, <2>9, Zenon DEF e
<1>. QED
  BY <1>5, <1>6

\* A name that fits its entry comes back from it.
LEMMA NamesHold == VolumesInv => NamesKept
<1>. SUFFICES ASSUME VolumesInv PROVE NamesKept
  OBVIOUS
<1>. DEFINE dot == LastDot(file_name)
<1>. DEFINE plain == \A i \in DOMAIN file_name : file_name[i] # Blank
<1>. DEFINE fits == IF dot = 0 THEN Len(file_name) <= BaseLen
                    ELSE dot - 1 <= BaseLen /\ Len(file_name) - dot \in 1..ExtLen
<1>1. file_name \in Seq(Sym)
  <2>1. file_name \in Seq(Characters)
    BY VolumesAssumption DEF VolumesInv
  <2>2. \A x \in Characters : x \in Sym
    BY DEF Sym
  <2>. QED
    BY <2>1, <2>2
<1>2. plain /\ fits => format_8_3_name(create_8_3_name(file_name)) = file_name
  BY <1>1, NameBack, Zenon
<1>. HIDE DEF plain, fits
<1>3. plain /\ fits => \A n \in FileNames :
                         format_8_3_name(create_8_3_name(file_name)) = n <=> file_name = n
  BY <1>2, Zenon
<1>. QED
  BY <1>3, Zenon DEF NamesKept, plain, fits

\* Paths and names lead where they should.
THEOREM PathsAlwaysLead == VolumesSpec => []PathsLead
<1>1. VolumesInv => PathsLead
  BY NormalFormHolds, DeepestHolds, RelativeHolds, NamesHold DEF PathsLead, VolumesInv
<1>. QED
  BY <1>1, VolumesInvariant, PTL

-----------------------------------------------------------------------------
(* Images.                                                                 *)

IsSegments(u, image) ==
  u = [k \in 0..Len(image.headers) |->
         IF k = 0 THEN <<>> ELSE WithSegment(u[k - 1], image.headers[k])]

\* What segments are read from the headers.
LEMMA SegmentsIs ==
  ASSUME NEW image \in Images
  PROVE  /\ Segments(image) \in Seq(Header)
         /\ image.headers \in Seq(Header) /\ image.phoff \in Nat
<1>. DEFINE n == Len(image.headers)
            h == [x \in Seq(Header) \X (1..n) |-> WithSegment(x[1], image.headers[x[2]])]
<1>1. image.headers \in Seq(Header) /\ image.phoff \in Nat
  BY LoadingAssumption
<1>2. n \in Nat /\ \A i \in 1..n : image.headers[i] \in Header
  BY <1>1
<1>3. \A q \in Seq(Header), x \in Header : WithSegment(q, x) \in Seq(Header)
  BY DEF WithSegment
<1>4. h \in [Seq(Header) \X (1..n) -> Seq(Header)]
  <2>1. ASSUME NEW x \in Seq(Header) \X (1..n)
        PROVE  WithSegment(x[1], image.headers[x[2]]) \in Seq(Header)
    <3>1. x[1] \in Seq(Header) /\ image.headers[x[2]] \in Header
      BY <1>2
    <3>. QED
      BY <1>3, <3>1
  <2>. QED
    BY <2>1
<1>5. PICK f \in [0..n -> Seq(Header)] : Follows(f, n, <<>>, h)
  <2>1. <<>> \in Seq(Header)
    OBVIOUS
  <2>. HIDE DEF n, h
  <2>. QED
    BY <1>2, <1>4, <2>1, Iterates
<1>6. IsSegments(f, image)
  <2>1. ASSUME NEW i \in 1..n PROVE h[<<f[i - 1], i>>] = WithSegment(f[i - 1], image.headers[i])
    <3>1. <<f[i - 1], i>> \in Seq(Header) \X (1..n)
      BY <1>5
    <3>. QED
      BY <3>1
  <2>. HIDE DEF h
  <2>2. f = [i \in 0..n |-> IF i = 0 THEN <<>> ELSE h[<<f[i - 1], i>>]]
    BY <1>5 DEF Follows
  <2>3. \A i \in 0..n : f[i] = IF i = 0 THEN <<>> ELSE WithSegment(f[i - 1], image.headers[i])
    <3>. TAKE i \in 0..n
    <3>1. i # 0 => i \in 1..n
      BY <1>2
    <3>2. f[i] = IF i = 0 THEN <<>> ELSE h[<<f[i - 1], i>>]
      BY <2>2, Zenon
    <3>. QED
      BY <2>1, <3>1, <3>2, Zenon
  <2>4. f = [i \in 0..n |-> f[i]]
    BY <1>5
  <2>. QED
    BY <2>3, <2>4, Zenon DEF IsSegments
<1>. DEFINE u == CHOOSE g : IsSegments(g, image)
<1>7. IsSegments(u, image)
  BY <1>6
<1>8. Segments(image) = u[n]
  BY Zenon DEF Segments, IsSegments
<1>. HIDE DEF u
<1>9. u[0] = <<>> /\ \A i \in 1..n : u[i] = WithSegment(u[i - 1], image.headers[i])
  <2>1. \A i \in 0..n : u[i] = IF i = 0 THEN <<>> ELSE WithSegment(u[i - 1], image.headers[i])
    BY <1>7, Zenon DEF IsSegments
  <2>. HIDE DEF n
  <2>2. 0 \in 0..n /\ \A i \in 1..n : i \in 0..n /\ i # 0
    BY <1>2
  <2>. QED
    BY <2>1, <2>2, Zenon
<1>10. \A i \in 0..n : u[i] \in Seq(Header)
  <2>. DEFINE T == {i \in 0..n : u[i] \in Seq(Header)}
  <2>1. 0 \in T
    BY <1>2, <1>9
  <2>2. ASSUME NEW i \in 0..n, i \in T, i # n PROVE i + 1 \in T
    <3>1. i + 1 \in 1..n /\ (i + 1) - 1 = i
      BY <1>2, <2>2
    <3>2. u[i + 1] = WithSegment(u[i], image.headers[i + 1])
      BY <1>9, <3>1
    <3>. QED
      BY <1>2, <1>3, <2>2, <3>1, <3>2
  <2>. HIDE DEF T, n
  <2>3. \A i \in 0..n : i \in T
    BY <1>2, <2>1, <2>2, UpToN
  <2>. QED
    BY <2>3 DEF T
<1>. QED
  BY <1>1, <1>2, <1>8, <1>10

\* The segments that are placed are the first ones.
LEMMA GoodIs ==
  ASSUME NEW image \in Images
  PROVE  /\ Good(image) \in Seq(Header)
         /\ loader_load(image) => Good(image) = Segments(image)
<1>. DEFINE all == Segments(image)
            bad == {k \in DOMAIN all : ~(all[k].offset + all[k].filesz <= image.size)}
<1>1. all \in Seq(Header) /\ DOMAIN all = 1..Len(all) /\ Len(all) \in Nat
  BY SegmentsIs
<1>2. Good(image) = IF bad = {} THEN all ELSE SubSeq(all, 1, Min(bad) - 1)
  BY DEF Good
<1>. HIDE DEF all
<1>3. CASE bad = {}
  BY <1>1, <1>2, <1>3 DEF all
<1>4. CASE bad # {}
  <2>1. bad \in SUBSET Nat /\ bad \subseteq 1..Len(all)
    BY <1>1
  <2>2. Min(bad) \in bad
    <3>. HIDE DEF bad
    <3>. QED
      BY <1>4, <2>1, MinOf
  <2>. DEFINE m == Min(bad) - 1
  <2>3. m \in 0..(Len(all) - 1)
    BY <2>1, <2>2, <1>1
  <2>. HIDE DEF m
  <2>4. SubSeq(all, 1, m) \in Seq(Header) /\ Len(SubSeq(all, 1, m)) = m
    <3>1. \A i \in 1..m : all[i] \in Header
      BY <1>1, <2>3
    <3>. QED
      BY <1>1, <2>3, <3>1
  <2>5. Good(image) = SubSeq(all, 1, m)
    BY <1>2, <1>4 DEF m
  <2>6. ~loader_load(image)
    <3>1. m # Len(all)
      <4>. DEFINE n == Len(all)
      <4>1. n \in Nat /\ m \in 0..(n - 1)
        BY <1>1, <2>3
      <4>. HIDE DEF n
      <4>2. m # n
        BY <4>1
      <4>. QED
        BY <4>2 DEF n
    <3>2. Len(Good(image)) = m
      BY <2>4, <2>5, Zenon
    <3>. QED
      BY <3>1, <3>2, Zenon DEF loader_load, all
  <2>. QED
    BY <2>4, <2>5, <2>6
<1>. QED
  BY <1>3, <1>4


\* Of what is written to a place one after another the last stays.
LEMMA LastStays ==
  ASSUME NEW n \in Nat, NEW P \in SUBSET (1..n), NEW v, NEW c,
         \A i \in 1..n : v[i] = IF i \in P THEN c[i] ELSE v[i - 1]
  PROVE  /\ P = {} => v[n] = v[0]
         /\ P # {} => Max(P) \in P /\ v[n] = c[Max(P)]
<1>. DEFINE Clear(i) == (\A j \in 1..i : j \notin P) => v[i] = v[0]
            Latest(i) == \A k \in P : k <= i /\ (\A j \in P : j <= i => j <= k) => v[i] = c[k]
            T == {i \in 0..n : Clear(i) /\ Latest(i)}
<1>0. \A j \in P : j \in Nat /\ 1 <= j /\ j <= n
  OBVIOUS
<1>1. 0 \in T
  <2>1. Latest(0)
    OBVIOUS
  <2>2. Clear(0) /\ 0 \in 0..n
    OBVIOUS
  <2>. QED
    BY <2>1, <2>2
<1>2. ASSUME NEW i \in 0..n, i \in T, i # n PROVE i + 1 \in T
  <2>1. i \in Nat /\ i + 1 \in 1..n /\ (i + 1) - 1 = i
    BY <1>2
  <2>2. v[i + 1] = IF i + 1 \in P THEN c[i + 1] ELSE v[i]
    BY <2>1
  <2>3. Clear(i) /\ Latest(i)
    BY <1>2
  <2>4. Clear(i + 1)
    <3>. SUFFICES ASSUME \A j \in 1..(i + 1) : j \notin P PROVE v[i + 1] = v[0]
      OBVIOUS
    <3>1. i + 1 \notin P /\ \A j \in 1..i : j \notin P
      BY <2>1
    <3>. QED
      BY <2>2, <2>3, <3>1
  <2>5. Latest(i + 1)
    <3>. SUFFICES ASSUME NEW k \in P, k <= i + 1, \A j \in P : j <= i + 1 => j <= k
                  PROVE  v[i + 1] = c[k]
      OBVIOUS
    <3>1. CASE i + 1 \in P
      <4>1. k = i + 1
        BY <1>0, <2>1, <3>1
      <4>. QED
        BY <2>2, <3>1, <4>1
    <3>2. CASE i + 1 \notin P
      <4>1. k <= i /\ \A j \in P : j <= i => j <= k
        BY <1>0, <2>1, <3>2
      <4>. QED
        BY <2>2, <2>3, <3>2, <4>1
    <3>. QED
      BY <3>1, <3>2
  <2>. HIDE DEF Clear, Latest
  <2>. QED
    BY <2>1, <2>4, <2>5
<1>3. n \in T
  <2>. HIDE DEF T
  <2>1. \A i \in 0..n : i \in T
    BY <1>1, <1>2, UpToN
  <2>. QED
    BY <2>1
<1>4. Clear(n) /\ Latest(n)
  <2>. HIDE DEF Clear, Latest
  <2>. QED
    BY <1>3
<1>5. CASE P = {}
  BY <1>4, <1>5
<1>6. CASE P # {}
  <2>1. P \in SUBSET (0..n)
    OBVIOUS
  <2>2. Max(P) \in P /\ \A y \in P : Max(P) >= y
    BY <1>6, <2>1, MaxOf
  <2>. DEFINE k == Max(P)
  <2>3. k \in P /\ k <= n /\ \A j \in P : j <= n => j <= k
    BY <1>0, <2>2
  <2>. HIDE DEF k
  <2>4. v[n] = c[k]
    BY <1>4, <2>3
  <2>. QED
    BY <1>6, <2>3, <2>4 DEF k
<1>. QED
  BY <1>5, <1>6

IsPlaced(u, m, image) ==
  u = [k \in 0..Len(Good(image)) |->
         IF k = 0 THEN m ELSE Placed(u[k - 1], image, Good(image)[k])]

\* Memory after all segments is that after each of them in turn.
LEMMA PlacedIs ==
  ASSUME NEW image \in Images, NEW m
  PROVE  \E u : /\ IsPlaced(u, m, image)
                /\ PlacedAll(m, image) = u[Len(Good(image))]
<1>. DEFINE g == Good(image)
            n == Len(g)
            V == {FileByte(image, o) : o \in Int} \cup {Zero} \cup {m[a] : a \in Addr}
            S == [Addr -> V] \cup {m}
            h == [x \in S \X (1..n) |-> Placed(x[1], image, g[x[2]])]
<1>1. n \in Nat /\ \A i \in 1..n : g[i] \in Header
  BY GoodIs
<1>. HIDE DEF g, n
<1>2. ASSUME NEW x \in S, NEW s \in Header PROVE Placed(x, image, s) \in S
  <2>1. ASSUME NEW a \in Addr
        PROVE  (IF a \in Extent(s) THEN Cell(image, s, a, x[a]) ELSE x[a]) \in V
    <3>1. x[a] \in V
      OBVIOUS
    <3>2. CASE a \in Extent(s)
      <4>1. s.vaddr \in Nat /\ s.offset \in Nat /\ s.memsz \in Nat /\ s.filesz \in Nat
        BY DEF Header
      <4>2. a \in Int
        BY <3>2, <4>1 DEF Extent
      <4>3. s.offset + a - s.vaddr \in Int
        BY <4>1, <4>2
      <4>4. Cell(image, s, a, x[a]) \in {FileByte(image, s.offset + a - s.vaddr), Zero}
        BY DEF Cell
      <4>5. FileByte(image, s.offset + a - s.vaddr) \in V /\ Zero \in V
        BY <4>3, Zenon
      <4>. HIDE DEF V
      <4>. QED
        BY <3>2, <4>4, <4>5
    <3>. HIDE DEF V
    <3>. QED
      BY <3>1, <3>2
  <2>. HIDE DEF V
  <2>2. Placed(x, image, s) \in [Addr -> V]
    BY <2>1 DEF Placed
  <2>. QED
    BY <2>2
<1>3. h \in [S \X (1..n) -> S]
  <2>. HIDE DEF S
  <2>1. ASSUME NEW x \in S \X (1..n) PROVE Placed(x[1], image, g[x[2]]) \in S
    <3>1. x[1] \in S /\ g[x[2]] \in Header
      BY <1>1
    <3>. QED
      BY <1>2, <3>1
  <2>. QED
    BY <2>1
<1>4. PICK f \in [0..n -> S] : Follows(f, n, m, h)
  <2>1. m \in S
    OBVIOUS
  <2>. HIDE DEF S, h
  <2>. QED
    BY <1>1, <1>3, <2>1, Iterates
<1>5. IsPlaced(f, m, image)
  <2>. HIDE DEF S
  <2>1. ASSUME NEW i \in 1..n PROVE h[<<f[i - 1], i>>] = Placed(f[i - 1], image, g[i])
    <3>1. <<f[i - 1], i>> \in S \X (1..n)
      BY <1>1, <1>4
    <3>. QED
      BY <3>1
  <2>. HIDE DEF h
  <2>2. f = [i \in 0..n |-> IF i = 0 THEN m ELSE h[<<f[i - 1], i>>]]
    BY <1>4 DEF Follows
  <2>3. \A i \in 0..n : f[i] = IF i = 0 THEN m ELSE Placed(f[i - 1], image, g[i])
    <3>. TAKE i \in 0..n
    <3>1. i # 0 => i \in 1..n
      BY <1>1
    <3>2. f[i] = IF i = 0 THEN m ELSE h[<<f[i - 1], i>>]
      BY <2>2, Zenon
    <3>. QED
      BY <2>1, <3>1, <3>2, Zenon
  <2>4. f = [i \in 0..n |-> f[i]]
    BY <1>4
  <2>. QED
    BY <2>3, <2>4, Zenon DEF IsPlaced, n, g
<1>. DEFINE u == CHOOSE x : IsPlaced(x, m, image)
<1>6. IsPlaced(u, m, image)
  BY <1>5
<1>7. PlacedAll(m, image) = u[Len(Good(image))]
  BY Zenon DEF PlacedAll, IsPlaced
<1>. QED
  BY <1>6, <1>7

\* The segments over an address that are placed.
OverGood(image, a) == {k \in 1..Len(Good(image)) : a \in Extent(Good(image)[k])}

CellOf(image, s, a) == Cell(image, s, a, Zero)

\* The last segment over an address decides, the others and what was there
\* before do not matter.
PlacedThere(m, image, a) ==
  IF OverGood(image, a) = {} THEN PlacedAll(m, image)[a] = m[a]
  ELSE /\ Max(OverGood(image, a)) \in OverGood(image, a)
       /\ PlacedAll(m, image)[a] = CellOf(image, Good(image)[Max(OverGood(image, a))], a)

\* An address has what the last segment over it placed there, or what it had.
LEMMA PlacedAt ==
  ASSUME NEW image \in Images, NEW m, NEW a \in Addr
  PROVE  PlacedThere(m, image, a)
<1>. DEFINE g == Good(image)
            n == Len(g)
            P == OverGood(image, a)
<1>1. n \in Nat
  BY GoodIs
<1>2. PICK u : IsPlaced(u, m, image) /\ PlacedAll(m, image) = u[n]
  BY PlacedIs
<1>. DEFINE v == [i \in 0..n |-> u[i][a]]
            c == [i \in 1..n |-> CellOf(image, g[i], a)]
<1>3. u[0] = m /\ \A i \in 1..n : u[i] = Placed(u[i - 1], image, g[i])
  <2>1. \A i \in 0..n : u[i] = IF i = 0 THEN m ELSE Placed(u[i - 1], image, g[i])
    BY <1>2, Zenon DEF IsPlaced
  <2>. HIDE DEF n, g
  <2>2. 0 \in 0..n /\ \A i \in 1..n : i \in 0..n /\ i # 0
    BY <1>1
  <2>. QED
    BY <2>1, <2>2, Zenon
<1>4. P \in SUBSET (1..n)
  BY DEF OverGood
<1>5. \A i \in 1..n : i \in P <=> a \in Extent(g[i])
  BY DEF OverGood
<1>. HIDE DEF P, g, n
<1>6. ASSUME NEW i \in 1..n PROVE v[i] = IF i \in P THEN c[i] ELSE v[i - 1]
  <2>1. i \in 0..n /\ i - 1 \in 0..n
    BY <1>1
  <2>2. Placed(u[i - 1], image, g[i])[a] =
          IF a \in Extent(g[i]) THEN Cell(image, g[i], a, u[i - 1][a]) ELSE u[i - 1][a]
    BY Zenon DEF Placed
  <2>3. Cell(image, g[i], a, u[i - 1][a]) = c[i]
    BY Zenon DEF Cell, CellOf
  <2>4. v[i] = u[i][a] /\ v[i - 1] = u[i - 1][a]
    BY <2>1
  <2>5. u[i] = Placed(u[i - 1], image, g[i])
    BY <1>3
  <2>. HIDE DEF v, c
  <2>. QED
    BY <1>5, <2>2, <2>3, <2>4, <2>5, Zenon
<1>7. v[n] = PlacedAll(m, image)[a] /\ v[0] = m[a]
  BY <1>1, <1>2, <1>3
<1>8. /\ P = {} => v[n] = v[0]
      /\ P # {} => Max(P) \in P /\ v[n] = c[Max(P)]
  <2>. HIDE DEF v, c
  <2>. QED
    BY <1>1, <1>4, <1>6, LastStays
<1>9. Max(P) \in P => c[Max(P)] = CellOf(image, g[Max(P)], a)
  BY <1>4
<1>. HIDE DEF v, c
<1>. QED
  BY <1>7, <1>8, <1>9, Zenon DEF PlacedThere, P, g


\* What a load does not write to stays as it was.
LEMMA LoadedStays ==
  ASSUME NEW image \in Images, NEW m, NEW a \in Addr, a \notin Written(image)
  PROVE  Loaded(m, image)[a] = m[a]
<1>1. OverGood(image, a) = {}
  <2>. SUFFICES ASSUME NEW k \in 1..Len(Good(image)), a \in Extent(Good(image)[k]) PROVE FALSE
    BY DEF OverGood
  <2>1. Good(image)[k] \in Range(Good(image))
    BY GoodIs DEF Range
  <2>2. a \in Covered(image)
    BY <2>1, Zenon DEF Covered
  <2>. QED
    BY <2>2, Zenon DEF Written
<1>2. PlacedAll(m, image)[a] = m[a]
  BY <1>1, PlacedAt, Zenon DEF PlacedThere
<1>3. CASE loader_load(image) /\ image.format = "PE"
  <2>1. BoundAt(image, a) = {}
    BY <1>3, Zenon DEF Written
  <2>2. pe_resolve_imports(PlacedAll(m, image), image)[a] = PlacedAll(m, image)[a]
    BY <2>1, Zenon DEF pe_resolve_imports
  <2>. QED
    BY <1>2, <1>3, <2>2, Zenon DEF Loaded
<1>. QED
  BY <1>2, <1>3, Zenon DEF Loaded

\* What segments lie over holds what the file says.
LEMMA LoadedIs ==
  ASSUME NEW image \in Images, loader_load(image), NEW m, NEW a \in Covered(image) \cap Addr
  PROVE  Loaded(m, image)[a] = Wanted(image, a)
<1>. DEFINE g == Good(image)
            P == OverGood(image, a)
            s == g[Max(P)]
<1>1. g \in Seq(Header) /\ g = Segments(image)
  BY GoodIs
<1>2. P = Over(image, a)
  BY <1>1 DEF OverGood, Over
<1>3. P # {}
  <2>1. PICK t \in Range(g) : a \in Extent(t)
    BY Zenon DEF Covered
  <2>2. PICK k \in 1..Len(g) : t = g[k]
    BY <1>1, <2>1 DEF Range
  <2>. QED
    BY <2>1, <2>2 DEF OverGood
<1>4. Max(P) \in P /\ PlacedAll(m, image)[a] = CellOf(image, s, a)
  BY <1>3, PlacedAt, Zenon DEF PlacedThere
<1>5. s \in Header /\ a \in Extent(s)
  BY <1>1, <1>4 DEF OverGood
<1>6. s = Segments(image)[Max(Over(image, a))]
  BY <1>1, <1>2
<1>. HIDE DEF s, P, g
<1>7. CellOf(image, s, a) =
        IF a < s.vaddr + s.filesz THEN FileByte(image, s.offset + a - s.vaddr) ELSE Zero
  <2>1. s.vaddr \in Nat /\ s.filesz \in Nat /\ a \in Int
    BY <1>5 DEF Extent, Header
  <2>2. a - s.vaddr < s.filesz <=> a < s.vaddr + s.filesz
    BY <2>1
  <2>. QED
    BY <2>2, Zenon DEF CellOf, Cell
<1>8. CASE image.format = "PE" /\ BoundAt(image, a) # {}
  <2>1. Loaded(m, image)[a] = pe_resolve_imports(PlacedAll(m, image), image)[a]
    BY <1>8, Zenon DEF Loaded
  <2>2. pe_resolve_imports(PlacedAll(m, image), image)[a] = Bound(CHOOSE i \in BoundAt(image, a) : TRUE)
    BY <1>8, Zenon DEF pe_resolve_imports
  <2>. QED
    BY <1>8, <2>1, <2>2, Zenon DEF Wanted
<1>9. CASE ~(image.format = "PE" /\ BoundAt(image, a) # {})
  <2>1. Loaded(m, image)[a] = PlacedAll(m, image)[a]
    <3>1. CASE image.format = "PE"
      <4>1. pe_resolve_imports(PlacedAll(m, image), image)[a] = PlacedAll(m, image)[a]
        BY <1>9, <3>1, Zenon DEF pe_resolve_imports
      <4>. QED
        BY <3>1, <4>1, Zenon DEF Loaded
    <3>2. CASE image.format # "PE"
      BY <3>2, Zenon DEF Loaded
    <3>. QED
      BY <3>1, <3>2
  <2>2. Wanted(image, a) =
          IF a < s.vaddr + s.filesz THEN FileByte(image, s.offset + a - s.vaddr) ELSE Zero
    BY <1>6, <1>9, Zenon DEF Wanted
  <2>. QED
    BY <1>4, <1>7, <2>1, <2>2, Zenon
<1>. QED
  BY <1>8, <1>9

\* A program has its image where nothing was written over it.
HasImage(m, f) ==
  /\ loader_load(f.image)
  /\ \A a \in (Covered(f.image) \cap Addr) \ f.overlaid : m[a] = Wanted(f.image, a)

ImagesInv ==
  /\ LoadingInv
  /\ argv \in ArgLists
  /\ \A k \in 1..Len(frames) : HasImage(memory, frames[k])

\* Whatever is written over other cells, an image stays where it is whole.
LEMMA StaysWhole ==
  ASSUME NEW m, NEW mm, NEW f, NEW ff, NEW cells, HasImage(m, f),
         ff.image = f.image, f.overlaid \cup cells \subseteq ff.overlaid,
         \A a \in Addr \ cells : mm[a] = m[a]
  PROVE  HasImage(mm, ff)
BY Zenon DEF HasImage

\* What Overlay does to a program.
LEMMA OverlayIs ==
  ASSUME NEW A, NEW fs \in Seq(FrameOver(A)), NEW cells, NEW G, NEW k \in 1..Len(fs)
  PROVE  /\ Overlay(fs, cells, G)[k].image = fs[k].image
         /\ Overlay(fs, cells, G)[k].overlaid = fs[k].overlaid \cup cells
<1>1. fs[k] \in FrameOver(A) /\ k \in DOMAIN fs
  OBVIOUS
<1>2. Overlay(fs, cells, G)[k] = [fs[k] EXCEPT !.overlaid = @ \cup cells, !.ran = @ \cup G]
  BY <1>1, Zenon DEF Overlay
<1>. QED
  BY <1>1, <1>2 DEF FrameOver

\* A program that starts is whole, and those that wait are where it is not.
LEMMA StartedImages ==
  ASSUME ImagesInv, NEW image \in Images, loader_load(image),
         image.format \in {"ELF", "PE"}, Started(image), argv' = argv
  PROVE  ImagesInv'
<1>. DEFINE stack == IF image.format = "ELF" THEN UserStack ELSE {}
            cells == Written(image) \cup stack
            D == Disturbed(image, cells)
            new == [image |-> image, overlaid |-> stack, ran |-> {}]
            whole == Loaded(memory, image)
<1>1. /\ memory' = [a \in Addr |-> IF a \in stack THEN StackByte ELSE whole[a]]
      /\ frames' = Append(D, new)
  BY Zenon DEF Started
<1>2. LoadingInv'
  BY StartedResumes DEF ImagesInv
<1>3. PICK A : frames \in Seq(FrameOver(A))
  BY DEF ImagesInv, LoadingInv
<1>4. Len(frames) \in Nat
  BY <1>3
<1>5. new.image = image /\ new.overlaid = stack
  OBVIOUS
<1>. HIDE DEF new, cells
<1>6. D = Overlay(frames, cells, {image.format})
  BY Zenon DEF Disturbed, Overlay
<1>7. {image.format} \subseteq Formats
  BY DEF Formats
<1>8. D \in Seq(FrameOver(A \cup cells)) /\ Len(D) = Len(frames)
  <2>. HIDE DEF D
  <2>1. After(Overlay(frames, cells, {image.format}), frames, A \cup cells, {image.format})
    BY <1>3, <1>7, Overlaid
  <2>. QED
    BY <1>6, <2>1, Zenon DEF After
<1>9. ASSUME NEW k \in 1..Len(frames) PROVE HasImage(memory', D[k])
  <2>1. D[k].image = frames[k].image /\ D[k].overlaid = frames[k].overlaid \cup cells
    BY <1>3, <1>6, OverlayIs
  <2>2. \A a \in Addr \ cells : memory'[a] = memory[a]
    <3>. TAKE a \in Addr \ cells
    <3>1. a \notin stack /\ a \notin Written(image)
      BY DEF cells
    <3>2. whole[a] = memory[a]
      BY <3>1, LoadedStays
    <3>. QED
      BY <1>1, <3>1, <3>2, Zenon
  <2>3. HasImage(memory, frames[k])
    BY DEF ImagesInv
  <2>. HIDE DEF D
  <2>. QED
    BY <2>1, <2>2, <2>3, StaysWhole
<1>10. HasImage(memory', new)
  <2>1. ASSUME NEW a \in (Covered(image) \cap Addr) \ stack PROVE memory'[a] = Wanted(image, a)
    BY <1>1, LoadedIs
  <2>. HIDE DEF stack
  <2>. QED
    BY <1>5, <2>1, Zenon DEF HasImage
<1>. HIDE DEF D
<1>11. \A k \in 1..Len(frames') : HasImage(memory', frames'[k])
  <2>. TAKE k \in 1..Len(frames')
  <2>1. Len(frames') = Len(frames) + 1
    BY <1>1, <1>8
  <2>2. CASE k = Len(frames) + 1
    <3>1. frames'[k] = new
      BY <1>1, <1>4, <1>8, <2>2
    <3>. QED
      BY <1>10, <3>1
  <2>3. CASE k # Len(frames) + 1
    <3>1. k \in 1..Len(frames)
      BY <1>4, <2>1, <2>3
    <3>2. frames'[k] = D[k]
      BY <1>1, <1>8, <3>1
    <3>. QED
      BY <1>9, <3>1, <3>2
  <2>. QED
    BY <2>2, <2>3
<1>. QED
  BY <1>2, <1>11 DEF ImagesInv

\* A program that is refused is noted where it has been written.
LEMMA RefusedImages ==
  ASSUME ImagesInv, NEW image \in Images, Refused(image), argv' = argv
  PROVE  ImagesInv'
<1>. DEFINE cells == Written(image)
            D == [k \in DOMAIN frames |-> [frames[k] EXCEPT !.overlaid = @ \cup cells]]
<1>1. \/ memory' = memory /\ frames' = frames
      \/ memory' = Loaded(memory, image) /\ frames' = D
  BY Zenon DEF Refused
<1>2. LoadingInv'
  BY RefusedResumes DEF ImagesInv
<1>3. PICK A : frames \in Seq(FrameOver(A))
  BY DEF ImagesInv, LoadingInv
<1>4. CASE memory' = memory /\ frames' = frames
  BY <1>2, <1>4 DEF ImagesInv
<1>5. CASE memory' = Loaded(memory, image) /\ frames' = D
  <2>1. DOMAIN frames = 1..Len(frames) /\ Len(frames') = Len(frames)
    BY <1>3, RefusedResumes DEF ImagesInv
  <2>2. ASSUME NEW k \in 1..Len(frames) PROVE HasImage(memory', frames'[k])
    <3>1. frames[k] \in FrameOver(A)
      BY <1>3, <2>1
    <3>2. frames'[k] = [frames[k] EXCEPT !.overlaid = @ \cup cells]
      BY <1>5, <2>1, Zenon
    <3>. HIDE DEF cells
    <3>3. frames'[k].image = frames[k].image /\ frames'[k].overlaid = frames[k].overlaid \cup cells
      BY <3>1, <3>2 DEF FrameOver
    <3>4. \A a \in Addr \ cells : memory'[a] = memory[a]
      BY <1>5, LoadedStays DEF cells
    <3>5. HasImage(memory, frames[k])
      BY DEF ImagesInv
    <3>. QED
      BY <3>3, <3>4, <3>5, StaysWhole
  <2>. QED
    BY <1>2, <1>5, <2>1, <2>2 DEF ImagesInv
<1>. QED
  BY <1>1, <1>4, <1>5

\* When a program ends nothing is written.
LEMMA EndsImages ==
  ASSUME ImagesInv, frames # <<>>, Ends
  PROVE  ImagesInv'
<1>1. PICK A : frames \in Seq(FrameOver(A))
  BY DEF ImagesInv, LoadingInv
<1>2. LoadingInv' /\ memory' = memory /\ argv' = argv
  BY EndsResumes DEF ImagesInv, Ends
<1>. DEFINE n == Len(frames) - 1
<1>3. frames' = SubSeq(frames, 1, n) /\ n \in Nat /\ n <= Len(frames)
  BY <1>1 DEF Ends, Front
<1>4. \A i \in 1..n : i \in 1..Len(frames)
  BY <1>1, <1>3
<1>. HIDE DEF n
<1>5. Len(frames') = n /\ \A i \in 1..n : frames'[i] = frames[i]
  BY <1>1, <1>3, <1>4
<1>. QED
  BY <1>2, <1>4, <1>5 DEF ImagesInv

\* The invariant of images holds before the first load.
LEMMA ImagesFirst == LoadingInit => ImagesInv
<1>. SUFFICES ASSUME LoadingInit PROVE ImagesInv
  OBVIOUS
<1>1. frames = <<>> /\ argv \in ArgLists
  BY DEF LoadingInit
<1>2. 1..Len(frames) = {}
  BY <1>1
<1>. QED
  BY <1>1, <1>2, LoadingFirst DEF ImagesInv

\* Every step keeps the invariant of images.
LEMMA ImagesStep == ImagesInv /\ [LoadingNext]_loadingVars => ImagesInv'
<1>. SUFFICES ASSUME ImagesInv, [LoadingNext]_loadingVars PROVE ImagesInv'
  OBVIOUS
<1>0. LoadingInv'
  BY LoadingStep DEF ImagesInv
<1>1. ASSUME NEW i \in Images, loader_execute_path(i) PROVE ImagesInv'
  BY <1>1, InspectedFormat, StartedImages, RefusedImages DEF loader_execute_path
<1>2. CASE program_returns
  BY <1>2, EndsImages DEF program_returns
<1>3. CASE ExitProcess
  <2>1. CASE Ends
    BY <1>3, <2>1, EndsImages DEF ExitProcess
  <2>2. CASE UNCHANGED <<memory, frames, argv>>
    BY <1>0, <2>2 DEF ImagesInv
  <2>. QED
    BY <1>3, <2>1, <2>2 DEF ExitProcess
<1>4. CASE UNCHANGED loadingVars
  BY <1>0, <1>4 DEF loadingVars, ImagesInv
<1>. QED
  BY <1>1, <1>2, <1>3, <1>4 DEF LoadingNext

\* The program that runs has its image as its file says.
LEMMA ImageHolds == ImagesInv => ImageIntact
<1>. SUFFICES ASSUME ImagesInv, frames # <<>>
              PROVE  \A a \in (Covered(Last(frames).image) \cap Addr) \ Last(frames).overlaid :
                       memory[a] = Wanted(Last(frames).image, a)
  BY Zenon DEF ImageIntact
<1>1. Len(frames) \in 1..Len(frames)
  BY DEF ImagesInv, LoadingInv
<1>2. HasImage(memory, Last(frames))
  BY <1>1 DEF ImagesInv, Last
<1>. QED
  BY <1>2 DEF HasImage


\* A file linked so has its headers where AT_PHDR says.
LEMMA PlacedHeaders ==
  ASSUME NEW image \in Images, loader_load(image), image.format = "ELF", HeadersPlaced(image)
  PROVE  /\ PhdrAddress(image) \in Covered(image) \cap Addr
         /\ Wanted(image, PhdrAddress(image)) = FileByte(image, image.phoff)
<1>. DEFINE g == Segments(image)
<1>1. /\ g \in Seq(Header) /\ Good(image) = g
      /\ image.headers \in Seq(Header) /\ image.phoff \in Nat
  BY SegmentsIs, GoodIs
<1>2. PICK k \in DOMAIN g :
        LET a == g[k].vaddr + image.phoff
        IN  /\ AtStart(image) # {} /\ k = Min(AtStart(image))
            /\ 0 < image.phoff /\ image.phoff < g[k].filesz /\ a \in Addr
            /\ Over(image, a) = {k}
            /\ \A h \in Range(image.headers) : h.type = "PHDR" => h.vaddr = a
  BY Zenon DEF HeadersPlaced
<1>. DEFINE s == g[k]
            a == s.vaddr + image.phoff
            phdrs == {j \in HeadersRead(image) : image.headers[j].type = "PHDR"}
<1>3. s \in Header /\ s.vaddr \in Nat /\ s.offset \in Nat /\ s.filesz \in Nat /\ s.memsz \in Nat
  <2>1. s \in Header
    <3>. HIDE DEF g
    <3>. QED
      BY <1>1
  <2>. HIDE DEF s
  <2>. QED
    BY <2>1 DEF Header
<1>4. s.offset = 0
  <2>1. AtStart(image) \in SUBSET Nat
    BY <1>1 DEF AtStart
  <2>2. k \in AtStart(image)
    BY <1>2, <2>1, MinOf
  <2>. QED
    BY <2>2 DEF AtStart
<1>5. FromStart(image, g[Min(AtStart(image))]) = a
  BY <1>2 DEF FromStart
<1>6. /\ 0 < image.phoff /\ image.phoff < s.filesz /\ a \in Addr /\ Over(image, a) = {k}
      /\ AtStart(image) # {}
      /\ \A h \in Range(image.headers) : h.type = "PHDR" => h.vaddr = a
  BY <1>2
<1>7. a # 0 /\ a \in Nat /\ s.offset + a - s.vaddr = image.phoff /\ a < s.vaddr + s.filesz
  <2>1. s.vaddr \in Nat /\ s.filesz \in Nat /\ image.phoff \in Nat
    BY <1>1, <1>3
  <2>. HIDE DEF s
  <2>. QED
    BY <1>4, <1>6, <2>1
<1>8. phdrs # {} => image.headers[Max(phdrs)].vaddr = a
  <2>. SUFFICES ASSUME phdrs # {} PROVE image.headers[Max(phdrs)].vaddr = a
    OBVIOUS
  <2>. DEFINE n == Len(image.headers)
  <2>1. n \in Nat /\ phdrs \in SUBSET (0..n) /\ phdrs \subseteq DOMAIN image.headers
    BY <1>1 DEF HeadersRead
  <2>2. Max(phdrs) \in phdrs
    <3>. HIDE DEF phdrs, n
    <3>. QED
      BY <2>1, MaxOf
  <2>3. image.headers[Max(phdrs)] \in Range(image.headers)
    BY <2>1, <2>2, Zenon DEF Range
  <2>. HIDE DEF a
  <2>. QED
    BY <1>6, <2>2, <2>3
<1>9. PhdrAddress(image) = a
  <2>. HIDE DEF a
  <2>1. CASE phdrs = {}
    BY <1>5, <1>6, <1>7, <2>1, Zenon DEF PhdrAddress
  <2>2. CASE phdrs # {}
    BY <1>7, <1>8, <2>2, Zenon DEF PhdrAddress
  <2>. QED
    BY <2>1, <2>2
<1>10. a \in Extent(s)
  <2>1. k \in Over(image, a)
    BY <1>6
  <2>. QED
    BY <2>1 DEF Over
<1>11. a \in Covered(image)
  <2>1. s \in Range(Good(image))
    BY <1>1 DEF Range
  <2>. HIDE DEF a, s
  <2>. QED
    BY <1>10, <2>1, Zenon DEF Covered
<1>12. Max(Over(image, a)) = k
  <2>. HIDE DEF a
  <2>1. Len(g) \in Nat /\ {k} \in SUBSET (0..Len(g))
    BY <1>1
  <2>2. Max({k}) \in {k}
    BY <2>1, MaxOf
  <2>. QED
    BY <1>6, <2>2
<1>13. Wanted(image, a) = FileByte(image, image.phoff)
  <2>. DEFINE t == Segments(image)[Max(Over(image, a))]
  <2>1. t = s
    BY <1>12
  <2>2. Wanted(image, a) =
          IF a < t.vaddr + t.filesz THEN FileByte(image, t.offset + a - t.vaddr) ELSE Zero
    <3>1. image.format # "PE"
      OBVIOUS
    <3>. HIDE DEF a
    <3>. QED
      BY <3>1, Zenon DEF Wanted
  <2>. HIDE DEF t, a, s
  <2>. QED
    BY <1>7, <2>1, <2>2, Zenon
<1>. QED
  BY <1>6, <1>9, <1>11, <1>13, Zenon

\* A program finds its headers.
LEMMA HeadersHold == ImagesInv => HeadersFound
<1>. DEFINE f == Last(frames)
            a == PhdrAddress(f.image)
<1>. SUFFICES ASSUME ImagesInv, frames # <<>>, f.image.format = "ELF", HeadersPlaced(f.image),
                     a \notin f.overlaid
              PROVE  memory[a] = FileByte(f.image, f.image.phoff)
  BY Zenon DEF HeadersFound
<1>1. PICK A : frames \in Seq(FrameOver(A))
  BY DEF ImagesInv, LoadingInv
<1>2. Len(frames) \in 1..Len(frames) /\ f = frames[Len(frames)]
  BY <1>1 DEF Last
<1>3. f \in FrameOver(A) /\ HasImage(memory, f)
  BY <1>1, <1>2 DEF ImagesInv
<1>4. f.image \in Images
  BY <1>3 DEF FrameOver
<1>. HIDE DEF f
<1>5. a \in Covered(f.image) \cap Addr /\ Wanted(f.image, a) = FileByte(f.image, f.image.phoff)
  BY <1>3, <1>4, PlacedHeaders DEF HasImage
<1>. HIDE DEF a
<1>. QED
  BY <1>3, <1>5 DEF HasImage, a

-----------------------------------------------------------------------------
(* The stack of an ELF program.                                            *)

\* Rounding down leads to a multiple that is no more.
LEMMA RoundDownFits ==
  ASSUME NEW n \in Int, NEW u \in Nat \ {0}
  PROVE  RoundDown(n, u) \in Int /\ RoundDown(n, u) <= n /\ RoundDown(n, u) % u = 0
<1>. DEFINE q == n \div u
            x == q * u
<1>1. q \in Int /\ x <= n
  OBVIOUS
<1>. HIDE DEF q
<1>2. x \in Int /\ x % u = 0
  BY <1>1
<1>. QED
  BY <1>1, <1>2 DEF RoundDown, q


IsPushed(u, lengths, from) ==
  u = [n \in 0..Len(lengths) |->
         IF n = 0 THEN from ELSE u[n - 1] - StringRoom(lengths[Len(lengths) + 1 - n])]

\* Every string takes its length and its zero.
LEMMA PushedIs ==
  ASSUME NEW lengths \in Seq(Nat), NEW from \in Int
  PROVE  LET u == Pushed(lengths, from)
         IN  /\ u[0] = from /\ \A n \in 0..Len(lengths) : u[n] \in Int
             /\ \A n \in 1..Len(lengths) : u[n - 1] = u[n] + (lengths[Len(lengths) + 1 - n] + 1)
<1>. DEFINE N == Len(lengths)
            room(i) == lengths[N + 1 - i] + 1
            h == [x \in Int \X (1..N) |-> x[1] - room(x[2])]
            u == Pushed(lengths, from)
<1>1. N \in Nat /\ \A i \in 1..N : room(i) \in Nat
  <2>1. \A i \in 1..N : N + 1 - i \in 1..N
    OBVIOUS
  <2>. QED
    BY <2>1
<1>. HIDE DEF N
<1>2. h \in [Int \X (1..N) -> Int]
  <2>. HIDE DEF room
  <2>1. ASSUME NEW x \in Int \X (1..N) PROVE x[1] - room(x[2]) \in Int
    <3>1. x[1] \in Int /\ room(x[2]) \in Nat
      BY <1>1
    <3>. QED
      BY <3>1
  <2>. QED
    BY <2>1
<1>3. PICK f \in [0..N -> Int] : Follows(f, N, from, h)
  <2>. HIDE DEF h
  <2>. QED
    BY <1>1, <1>2, Iterates
<1>4. IsPushed(f, lengths, from)
  <2>1. ASSUME NEW i \in 1..N PROVE h[<<f[i - 1], i>>] = f[i - 1] - room(i)
    <3>1. <<f[i - 1], i>> \in Int \X (1..N)
      BY <1>1, <1>3
    <3>. QED
      BY <3>1
  <2>. HIDE DEF h
  <2>2. f = [i \in 0..N |-> IF i = 0 THEN from ELSE h[<<f[i - 1], i>>]]
    BY <1>3 DEF Follows
  <2>3. \A i \in 0..N : f[i] = IF i = 0 THEN from ELSE f[i - 1] - room(i)
    <3>. TAKE i \in 0..N
    <3>1. i # 0 => i \in 1..N
      BY <1>1
    <3>2. f[i] = IF i = 0 THEN from ELSE h[<<f[i - 1], i>>]
      BY <2>2, Zenon
    <3>. QED
      BY <2>1, <3>1, <3>2, Zenon
  <2>4. f = [i \in 0..N |-> f[i]]
    BY <1>3
  <2>. QED
    BY <2>3, <2>4, Zenon DEF IsPushed, StringRoom, N
<1>5. IsPushed(u, lengths, from)
  <2>1. u = CHOOSE g : IsPushed(g, lengths, from)
    BY Zenon DEF Pushed, IsPushed
  <2>. HIDE DEF u
  <2>. QED
    BY <1>4, <2>1, Zenon
<1>. HIDE DEF u
<1>6. u[0] = from /\ \A i \in 1..N : u[i] = u[i - 1] - room(i)
  <2>1. \A i \in 0..N : u[i] = IF i = 0 THEN from ELSE u[i - 1] - room(i)
    BY <1>5, Zenon DEF IsPushed, StringRoom, N
  <2>2. 0 \in 0..N /\ \A i \in 1..N : i \in 0..N /\ i # 0
    BY <1>1
  <2>. QED
    BY <2>1, <2>2, Zenon
<1>. HIDE DEF room
<1>7. \A i \in 0..N : u[i] \in Int
  <2>. DEFINE T == {i \in 0..N : u[i] \in Int}
  <2>1. 0 \in T
    BY <1>1, <1>6
  <2>2. ASSUME NEW i \in 0..N, i \in T, i # N PROVE i + 1 \in T
    <3>1. i + 1 \in 1..N /\ (i + 1) - 1 = i /\ u[i] \in Int
      BY <1>1, <2>2
    <3>2. u[i + 1] = u[i] - room(i + 1) /\ room(i + 1) \in Nat
      BY <1>1, <1>6, <3>1
    <3>. QED
      BY <3>1, <3>2
  <2>. HIDE DEF T
  <2>3. \A i \in 0..N : i \in T
    BY <1>1, <2>1, <2>2, UpToN
  <2>. QED
    BY <2>3 DEF T
<1>8. ASSUME NEW i \in 1..N PROVE u[i - 1] = u[i] + room(i)
  <2>1. u[i - 1] \in Int /\ room(i) \in Nat /\ u[i] = u[i - 1] - room(i)
    BY <1>1, <1>6, <1>7
  <2>. QED
    BY <2>1
<1>. QED
  BY <1>6, <1>7, <1>8, Zenon DEF N, room, u

\* Strings at p, of these lengths, one above the other between two places.
Strings(p, lengths, bottom, top) ==
  /\ bottom \in Int /\ bottom <= top
  /\ \A k \in 1..Len(lengths) :
       p[k] \in Int /\ bottom <= p[k] /\ p[k] + (lengths[k] + 1) <= top
  /\ \A j, k \in 1..Len(lengths) : j < k => p[j] + (lengths[j] + 1) <= p[k]

\* Strings pushed below one another lie apart.
LEMMA StringsApart ==
  ASSUME NEW lengths \in Seq(Nat), NEW from \in Int
  PROVE  Strings(Pointers(lengths, from), lengths, SpAfter(lengths, from), from)
<1>. DEFINE u == Pushed(lengths, from)
            N == Len(lengths)
            p == Pointers(lengths, from)
<1>1. /\ u[0] = from /\ \A n \in 0..N : u[n] \in Int
      /\ \A n \in 1..N : u[n - 1] = u[n] + (lengths[N + 1 - n] + 1)
  BY PushedIs
<1>2. N \in Nat /\ \A k \in 1..N : lengths[k] \in Nat /\ p[k] = u[N + 1 - k]
  BY DEF Pointers
<1>3. SpAfter(lengths, from) = u[N]
  BY DEF SpAfter
<1>. HIDE DEF u, N, p
<1>4. \A j \in 0..N : \A i \in 0..N : i <= j => u[j] <= u[i]
  <2>. DEFINE T == {j \in 0..N : \A i \in 0..N : i <= j => u[j] <= u[i]}
  <2>1. 0 \in T
    BY <1>1, <1>2
  <2>2. ASSUME NEW j \in 0..N, j \in T, j # N PROVE j + 1 \in T
    <3>1. j + 1 \in 1..N /\ j + 1 \in 0..N /\ (j + 1) - 1 = j /\ N + 1 - (j + 1) \in 1..N
      BY <1>2, <2>2
    <3>. DEFINE l == lengths[N + 1 - (j + 1)]
    <3>2. l \in Nat
      BY <1>2, <3>1
    <3>3. u[j] = u[j + 1] + (l + 1) /\ u[j] \in Int /\ u[j + 1] \in Int
      BY <1>1, <3>1
    <3>. HIDE DEF l
    <3>4. u[j + 1] <= u[j]
      BY <3>2, <3>3
    <3>5. \A i \in 0..N : i <= j + 1 => u[j + 1] <= u[i]
      <4>. SUFFICES ASSUME NEW i \in 0..N, i <= j + 1 PROVE u[j + 1] <= u[i]
        OBVIOUS
      <4>1. CASE i = j + 1
        BY <3>3, <4>1
      <4>2. CASE i # j + 1
        <5>1. i <= j
          BY <1>2, <4>2
        <5>2. u[j] <= u[i] /\ u[i] \in Int
          BY <1>1, <2>2, <5>1
        <5>. QED
          BY <3>3, <3>4, <5>2
      <4>. QED
        BY <4>1, <4>2
    <3>. QED
      BY <3>1, <3>5
  <2>. HIDE DEF T
  <2>3. \A j \in 0..N : j \in T
    BY <1>2, <2>1, <2>2, UpToN
  <2>. QED
    BY <2>3 DEF T
<1>5. ASSUME NEW k \in 1..N
      PROVE  /\ N + 1 - k \in 0..N /\ N - k \in 0..N
             /\ p[k] \in Int /\ p[k] + (lengths[k] + 1) = u[N - k] /\ p[k] = u[N + 1 - k]
  <2>1. N + 1 - k \in 1..N /\ N + 1 - k \in 0..N /\ N - k \in 0..N
        /\ (N + 1 - k) - 1 = N - k /\ N + 1 - (N + 1 - k) = k
    BY <1>2
  <2>2. u[(N + 1 - k) - 1] = u[N + 1 - k] + (lengths[N + 1 - (N + 1 - k)] + 1)
    BY <1>1, <2>1
  <2>3. u[N - k] = u[N + 1 - k] + (lengths[k] + 1)
    BY <2>1, <2>2
  <2>. QED
    BY <1>1, <1>2, <2>1, <2>3
<1>6. u[N] \in Int /\ u[N] <= from
  BY <1>1, <1>2, <1>4
<1>7. ASSUME NEW k \in 1..N
      PROVE  p[k] \in Int /\ u[N] <= p[k] /\ p[k] + (lengths[k] + 1) <= from
  <2>1. N + 1 - k <= N /\ 0 <= N - k /\ N \in 0..N /\ 0 \in 0..N
    BY <1>2
  <2>2. u[N] <= u[N + 1 - k] /\ u[N - k] <= u[0]
    BY <1>4, <1>5, <2>1
  <2>. QED
    BY <1>1, <1>5, <2>2
<1>8. ASSUME NEW j \in 1..N, NEW k \in 1..N, j < k
      PROVE  p[j] + (lengths[j] + 1) <= p[k]
  <2>1. N + 1 - k <= N - j
    BY <1>2, <1>8
  <2>2. u[N - j] <= u[N + 1 - k]
    BY <1>4, <1>5, <2>1
  <2>. QED
    BY <1>5, <2>2
<1>. QED
  BY <1>3, <1>6, <1>7, <1>8, Zenon DEF Strings, N, p


\* The places of the stack from below: the vectors, the arguments, the
\* environment and the random bytes.
StackPlace(s, args, i) ==
  LET A == Len(args)
      E == Len(Env)
  IN  IF i = 1 THEN [at |-> s.sp, len |-> s.words * Word]
      ELSE IF i <= A + 1 THEN [at |-> s.argp[i - 1], len |-> args[i - 1] + 1]
      ELSE IF i <= A + E + 1 THEN [at |-> s.envp[i - A - 1], len |-> Env[i - A - 1] + 1]
      ELSE [at |-> s.random, len |-> 2 * Word]

\* Where the parts of the stack are.
StackLaid(s, args) ==
  \E low, middle \in Int :
    /\ s.sp % (2 * Word) = 0 /\ s.sp \in Int
    /\ s.words * Word \in Nat \ {0} /\ s.sp + s.words * Word <= low
    /\ Strings(s.argp, args, low, middle) /\ Strings(s.envp, Env, middle, s.random)
    /\ s.random \in Int /\ 2 * Word \in Nat \ {0} /\ s.random + 2 * Word <= StackTop

\* The stack that is set up is aligned, with strings and vectors in order.
LEMMA StackIs ==
  ASSUME NEW args \in Seq(Nat)
  PROVE  StackLaid(setup_system_v_stack(args), args)
<1>. DEFINE s == setup_system_v_stack(args)
            random == StackTop - 2 * Word
            middle == SpAfter(Env, random)
            low == SpAfter(args, middle)
            sp == RoundDown(low, Word)
            words == 1 + (Len(args) + 1) + (Len(Env) + 1) + 2 * AuxCount
            last == RoundDown(sp - words * Word, 2 * Word)
<1>1. /\ s.random = random /\ s.words = words /\ s.sp = last
      /\ s.envp = Pointers(Env, random) /\ s.argp = Pointers(args, middle)
  BY Zenon DEF setup_system_v_stack
<1>2. Word \in Nat \ {0} /\ StackTop \in Nat /\ Env \in Seq(Nat)
  BY LoadingAssumption
<1>3. random \in Int /\ 2 * Word \in Nat \ {0} /\ random + 2 * Word <= StackTop
  BY <1>2
<1>4. Strings(s.envp, Env, middle, random) /\ middle \in Int
  <2>. HIDE DEF random, s
  <2>1. Strings(Pointers(Env, random), Env, middle, random)
    BY <1>2, <1>3, StringsApart
  <2>. QED
    BY <1>1, <2>1 DEF Strings
<1>5. Strings(s.argp, args, low, middle) /\ low \in Int
  <2>. HIDE DEF middle, s
  <2>1. Strings(Pointers(args, middle), args, low, middle)
    BY <1>4, StringsApart
  <2>. QED
    BY <1>1, <2>1 DEF Strings
<1>6. words \in Nat /\ words >= 1
  BY <1>2 DEF AuxCount
<1>. HIDE DEF words, low, random, middle
<1>7. words * Word \in Nat \ {0}
  <2>1. Word * words >= Word /\ Word * words = words * Word /\ words * Word \in Nat
    BY <1>2, <1>6, ProductBound
  <2>. QED
    BY <1>2, <2>1
<1>8. sp \in Int /\ sp <= low
  BY <1>2, <1>5, RoundDownFits
<1>. HIDE DEF sp
<1>9. last \in Int /\ last <= sp - words * Word /\ last % (2 * Word) = 0
  <2>. DEFINE n == sp - words * Word
              u == 2 * Word
  <2>1. n \in Int /\ u \in Nat \ {0}
    BY <1>3, <1>7, <1>8
  <2>. HIDE DEF n, u
  <2>2. RoundDown(n, u) \in Int /\ RoundDown(n, u) <= n /\ RoundDown(n, u) % u = 0
    BY <2>1, RoundDownFits
  <2>. QED
    BY <2>2 DEF n, u
<1>10. last + words * Word <= low
  <2>. DEFINE w == words * Word
  <2>1. w \in Nat /\ last <= sp - w
    BY <1>7, <1>9
  <2>. HIDE DEF w, last
  <2>2. last \in Int
    BY <1>9
  <2>3. last + w <= low
    BY <1>5, <1>8, <2>1, <2>2
  <2>. QED
    BY <2>3 DEF w
<1>. HIDE DEF last, s
<1>. QED
  BY <1>1, <1>3, <1>4, <1>5, <1>7, <1>9, <1>10, Zenon DEF StackLaid, s

Place(r) == r.at \in Int /\ r.len \in Nat \ {0} /\ r.at + r.len <= StackTop

\* One place follows the other.
LEMMA StackClimbs ==
  ASSUME NEW s, NEW args \in Seq(Nat), StackLaid(s, args)
  PROVE  LET N == Len(args) + Len(Env) + 2
         IN  /\ \A i \in 1..N : Place(StackPlace(s, args, i))
             /\ \A i, j \in 1..N : i < j =>
                  StackPlace(s, args, i).at + StackPlace(s, args, i).len <= StackPlace(s, args, j).at
<1>. DEFINE A == Len(args)
            E == Len(Env)
            N == A + E + 2
            r(i) == StackPlace(s, args, i)
<1>1. PICK low \in Int, middle \in Int :
        /\ s.words * Word \in Nat \ {0} /\ s.sp \in Int /\ s.sp + s.words * Word <= low
        /\ Strings(s.argp, args, low, middle) /\ Strings(s.envp, Env, middle, s.random)
        /\ s.random \in Int /\ 2 * Word \in Nat \ {0} /\ s.random + 2 * Word <= StackTop
  BY Zenon DEF StackLaid
<1>. DEFINE v == s.words * Word
            t == 2 * Word
<1>2. /\ v \in Nat \ {0} /\ s.sp \in Int /\ s.sp + v <= low /\ low <= middle /\ middle <= s.random
      /\ s.random \in Int /\ t \in Nat \ {0} /\ s.random + t <= StackTop
  BY <1>1 DEF Strings
<1>3. /\ A \in Nat /\ E \in Nat /\ StackTop \in Nat
      /\ \A k \in 1..A : args[k] \in Nat
      /\ \A k \in 1..E : Env[k] \in Nat
  BY LoadingAssumption
<1>. HIDE DEF v, t
<1>4. \A k \in 1..A : s.argp[k] \in Int /\ low <= s.argp[k] /\ s.argp[k] + (args[k] + 1) <= middle
  BY <1>1 DEF Strings
<1>5. \A j, k \in 1..A : j < k => s.argp[j] + (args[j] + 1) <= s.argp[k]
  BY <1>1 DEF Strings
<1>6. \A k \in 1..E : s.envp[k] \in Int /\ middle <= s.envp[k] /\ s.envp[k] + (Env[k] + 1) <= s.random
  BY <1>1 DEF Strings
<1>7. \A j, k \in 1..E : j < k => s.envp[j] + (Env[j] + 1) <= s.envp[k]
  BY <1>1 DEF Strings
<1>. HIDE DEF A, E
<1>8. /\ 1 \in 1..N => r(1) = [at |-> s.sp, len |-> v]
      /\ \A i \in 2..(A + 1) : r(i) = [at |-> s.argp[i - 1], len |-> args[i - 1] + 1]
      /\ \A i \in (A + 2)..(A + E + 1) : r(i) = [at |-> s.envp[i - A - 1], len |-> Env[i - A - 1] + 1]
      /\ r(N) = [at |-> s.random, len |-> t]
  <2>1. \A i : r(i) = IF i = 1 THEN [at |-> s.sp, len |-> v]
                      ELSE IF i <= A + 1 THEN [at |-> s.argp[i - 1], len |-> args[i - 1] + 1]
                      ELSE IF i <= A + E + 1 THEN [at |-> s.envp[i - A - 1], len |-> Env[i - A - 1] + 1]
                      ELSE [at |-> s.random, len |-> t]
    BY Zenon DEF StackPlace, v, t, A, E
  <2>. HIDE DEF r
  <2>2. ~(N = 1) /\ ~(N <= A + 1) /\ ~(N <= A + E + 1)
    BY <1>3
  <2>3. \A i \in 2..(A + 1) : i # 1 /\ i <= A + 1
    BY <1>3
  <2>4. \A i \in (A + 2)..(A + E + 1) : i # 1 /\ ~(i <= A + 1) /\ i <= A + E + 1
    BY <1>3
  <2>. HIDE DEF N
  <2>5. \A i \in 2..(A + 1) : r(i) = [at |-> s.argp[i - 1], len |-> args[i - 1] + 1]
    BY <2>1, <2>3, Zenon
  <2>6. \A i \in (A + 2)..(A + E + 1) : r(i) = [at |-> s.envp[i - A - 1], len |-> Env[i - A - 1] + 1]
    BY <2>1, <2>4, Zenon
  <2>7. r(1) = [at |-> s.sp, len |-> v] /\ r(N) = [at |-> s.random, len |-> t]
    BY <2>1, <2>2, Zenon
  <2>. QED
    BY <2>5, <2>6, <2>7, Zenon
<1>. HIDE DEF r
<1>. DEFINE At(i) == r(i).at
            End(i) == r(i).at + r(i).len
\* Everything about each place in one fact: its bounds and the part it is in.
<1>9. At(1) = s.sp /\ End(1) = s.sp + v /\ At(N) = s.random /\ End(N) = s.random + t
      /\ r(1).len = v /\ r(N).len = t
  <2>1. 1 \in 1..N
    BY <1>3
  <2>. QED
    BY <1>8, <2>1
<1>10. ASSUME NEW i \in 2..(A + 1)
       PROVE  /\ i - 1 \in 1..A /\ At(i) = s.argp[i - 1] /\ r(i).len = args[i - 1] + 1
              /\ At(i) \in Int /\ r(i).len \in Nat \ {0}
              /\ low <= At(i) /\ End(i) <= middle
  <2>1. i - 1 \in 1..A
    BY <1>3
  <2>2. At(i) = s.argp[i - 1] /\ r(i).len = args[i - 1] + 1
    BY <1>8
  <2>3. args[i - 1] \in Nat
    BY <1>3, <2>1
  <2>4. s.argp[i - 1] \in Int /\ low <= s.argp[i - 1] /\ s.argp[i - 1] + (args[i - 1] + 1) <= middle
    BY <1>4, <2>1
  <2>. QED
    BY <2>1, <2>2, <2>3, <2>4
<1>11. ASSUME NEW i \in (A + 2)..(A + E + 1)
       PROVE  /\ i - A - 1 \in 1..E /\ At(i) = s.envp[i - A - 1] /\ r(i).len = Env[i - A - 1] + 1
              /\ At(i) \in Int /\ r(i).len \in Nat \ {0}
              /\ middle <= At(i) /\ End(i) <= s.random
  <2>1. i - A - 1 \in 1..E
    BY <1>3
  <2>2. At(i) = s.envp[i - A - 1] /\ r(i).len = Env[i - A - 1] + 1
    BY <1>8
  <2>3. Env[i - A - 1] \in Nat
    BY <1>3, <2>1
  <2>4. /\ s.envp[i - A - 1] \in Int /\ middle <= s.envp[i - A - 1]
        /\ s.envp[i - A - 1] + (Env[i - A - 1] + 1) <= s.random
    BY <1>6, <2>1
  <2>. QED
    BY <2>1, <2>2, <2>3, <2>4
<1>12. \A i \in 1..N : i = 1 \/ i \in 2..(A + 1) \/ i \in (A + 2)..(A + E + 1) \/ i = N
  BY <1>3
<1>13. ASSUME NEW i \in 1..N
       PROVE  At(i) \in Int /\ r(i).len \in Nat \ {0} /\ End(i) <= StackTop
  <2>1. CASE i = 1
    BY <1>2, <1>3, <1>9, <2>1
  <2>2. CASE i = N
    BY <1>2, <1>3, <1>9, <2>2
  <2>3. CASE i \in 2..(A + 1)
    <3>1. At(i) \in Int /\ r(i).len \in Nat \ {0} /\ End(i) <= middle
      BY <1>10, <2>3
    <3>. QED
      BY <1>2, <1>3, <3>1
  <2>4. CASE i \in (A + 2)..(A + E + 1)
    <3>1. At(i) \in Int /\ r(i).len \in Nat \ {0} /\ End(i) <= s.random
      BY <1>11, <2>4
    <3>. QED
      BY <1>2, <1>3, <3>1
  <2>. QED
    BY <1>12, <2>1, <2>2, <2>3, <2>4
<1>14. ASSUME NEW i \in 1..N, NEW j \in 1..N, i < j
       PROVE  End(i) <= At(j)
  <2>0. End(i) \in Int /\ At(j) \in Int
    BY <1>13
  <2>1. CASE i = 1
    <3>1. j # 1
      BY <1>14, <2>1
    <3>2. low <= At(j)
      <4>1. CASE j \in 2..(A + 1)
        BY <1>10, <4>1
      <4>2. CASE j \in (A + 2)..(A + E + 1)
        <5>1. middle <= At(j) /\ At(j) \in Int
          BY <1>11, <4>2
        <5>. QED
          BY <1>2, <5>1
      <4>3. CASE j = N
        BY <1>2, <1>9, <4>3
      <4>. QED
        BY <1>12, <3>1, <4>1, <4>2, <4>3
    <3>3. End(i) <= low
      BY <1>2, <1>9, <2>1
    <3>. QED
      BY <2>0, <3>2, <3>3
  <2>2. CASE i = N
    BY <1>3, <1>14, <2>2
  <2>3. CASE i \in 2..(A + 1)
    <3>1. i - 1 \in 1..A /\ End(i) = s.argp[i - 1] + (args[i - 1] + 1) /\ End(i) <= middle
      BY <1>10, <2>3
    <3>2. CASE j \in 2..(A + 1)
      <4>1. j - 1 \in 1..A /\ At(j) = s.argp[j - 1]
        BY <1>10, <3>2
      <4>2. i - 1 < j - 1
        BY <1>14
      <4>. QED
        BY <1>5, <3>1, <4>1, <4>2
    <3>3. CASE j \in (A + 2)..(A + E + 1)
      <4>1. middle <= At(j)
        BY <1>11, <3>3
      <4>. QED
        BY <2>0, <3>1, <4>1
    <3>4. CASE j = N
      BY <1>2, <1>9, <2>0, <3>1, <3>4
    <3>5. j # 1
      BY <1>14
    <3>. QED
      BY <1>12, <3>2, <3>3, <3>4, <3>5
  <2>4. CASE i \in (A + 2)..(A + E + 1)
    <3>1. i - A - 1 \in 1..E /\ End(i) = s.envp[i - A - 1] + (Env[i - A - 1] + 1) /\ End(i) <= s.random
      BY <1>11, <2>4
    <3>2. CASE j \in (A + 2)..(A + E + 1)
      <4>1. j - A - 1 \in 1..E /\ At(j) = s.envp[j - A - 1]
        BY <1>11, <3>2
      <4>2. i - A - 1 < j - A - 1
        BY <1>3, <1>14
      <4>. QED
        BY <1>7, <3>1, <4>1, <4>2
    <3>3. CASE j = N
      BY <1>9, <3>1, <3>3
    <3>4. j # 1 /\ j \notin 2..(A + 1)
      BY <1>3, <1>14, <2>4
    <3>. QED
      BY <1>12, <3>2, <3>3, <3>4
  <2>. QED
    BY <1>12, <2>1, <2>2, <2>3, <2>4
<1>. QED
  BY <1>13, <1>14, Zenon DEF Place, r, N, A, E


\* The areas of StackWellFormed are those places.
Areas(s, args) ==
  {[at |-> s.envp[k], len |-> Env[k] + 1] : k \in DOMAIN Env}
    \cup {[at |-> s.argp[k], len |-> args[k] + 1] : k \in DOMAIN args}
    \cup {[at |-> s.random, len |-> 2 * Word], [at |-> s.sp, len |-> s.words * Word]}

\* The areas of a stack are its strings and its vectors.
LEMMA AreasAre ==
  ASSUME NEW s, NEW args \in Seq(Nat)
  PROVE  Areas(s, args) = {StackPlace(s, args, i) : i \in 1..(Len(args) + Len(Env) + 2)}
<1>. DEFINE A == Len(args)
            E == Len(Env)
            N == A + E + 2
            r(i) == StackPlace(s, args, i)
            arg(k) == [at |-> s.argp[k], len |-> args[k] + 1]
            env(k) == [at |-> s.envp[k], len |-> Env[k] + 1]
            seed == [at |-> s.random, len |-> 2 * Word]
            vector == [at |-> s.sp, len |-> s.words * Word]
<1>1. A \in Nat /\ E \in Nat /\ DOMAIN args = 1..A /\ DOMAIN Env = 1..E
  BY LoadingAssumption
<1>2. \A i : r(i) = IF i = 1 THEN vector ELSE IF i <= A + 1 THEN arg(i - 1)
                    ELSE IF i <= A + E + 1 THEN env(i - A - 1) ELSE seed
  BY Zenon DEF StackPlace
<1>3. Areas(s, args) = {env(k) : k \in 1..E} \cup {arg(k) : k \in 1..A} \cup {seed, vector}
  BY <1>1, Zenon DEF Areas
<1>. HIDE DEF A, E, r, arg, env, seed, vector
<1>4. ASSUME NEW i \in 1..N
      PROVE  r(i) \in {env(k) : k \in 1..E} \cup {arg(k) : k \in 1..A} \cup {seed, vector}
  <2>1. CASE i = 1
    BY <1>2, <2>1
  <2>2. CASE i # 1 /\ i <= A + 1
    <3>1. i - 1 \in 1..A /\ r(i) = arg(i - 1)
      BY <1>1, <1>2, <2>2
    <3>. QED
      BY <3>1
  <2>3. CASE ~(i <= A + 1) /\ i <= A + E + 1
    <3>1. i - A - 1 \in 1..E /\ r(i) = env(i - A - 1)
      BY <1>1, <1>2, <2>3
    <3>. QED
      BY <3>1
  <2>4. CASE ~(i <= A + E + 1)
    <3>1. r(i) = seed
      BY <1>1, <1>2, <2>4
    <3>. QED
      BY <3>1
  <2>. QED
    BY <2>1, <2>2, <2>3, <2>4
<1>5. ASSUME NEW k \in 1..E PROVE env(k) \in {r(i) : i \in 1..N}
  <2>1. k + A + 1 \in 1..N /\ (k + A + 1) - A - 1 = k
    BY <1>1
  <2>2. r(k + A + 1) = env((k + A + 1) - A - 1)
    BY <1>1, <1>2
  <2>. QED
    BY <2>1, <2>2
<1>6. ASSUME NEW k \in 1..A PROVE arg(k) \in {r(i) : i \in 1..N}
  <2>1. k + 1 \in 1..N /\ (k + 1) - 1 = k
    BY <1>1
  <2>2. r(k + 1) = arg((k + 1) - 1)
    BY <1>1, <1>2
  <2>. QED
    BY <2>1, <2>2
<1>7. seed \in {r(i) : i \in 1..N} /\ vector \in {r(i) : i \in 1..N}
  <2>1. N \in 1..N /\ 1 \in 1..N /\ r(N) = seed /\ r(1) = vector
    BY <1>1, <1>2
  <2>. QED
    BY <2>1
<1>8. Areas(s, args) = {r(i) : i \in 1..N}
  <2>. HIDE DEF N
  <2>. QED
    BY <1>3, <1>4, <1>5, <1>6, <1>7
<1>. QED
  BY <1>8 DEF N, r, A, E

\* Every stack is well formed.
LEMMA StackHolds == ImagesInv => StackWellFormed
<1>. SUFFICES ASSUME ImagesInv PROVE StackWellFormed
  OBVIOUS
<1>. DEFINE s == setup_system_v_stack(argv)
            areas == Areas(s, argv)
            N == Len(argv) + Len(Env) + 2
            r(i) == StackPlace(s, argv, i)
<1>1. argv \in Seq(Nat)
  BY LoadingAssumption DEF ImagesInv
<1>2. StackLaid(s, argv)
  BY <1>1, StackIs
<1>3. N \in Nat
  BY <1>1, LoadingAssumption
<1>. HIDE DEF s
<1>4. /\ \A i \in 1..N : Place(r(i))
      /\ \A i, j \in 1..N : i < j => r(i).at + r(i).len <= r(j).at
  BY <1>1, <1>2, StackClimbs
<1>5. areas = {r(i) : i \in 1..N}
  BY <1>1, AreasAre
<1>. HIDE DEF areas, N, r
<1>6. \A i, j \in 1..N : i # j =>
        /\ r(i).at + r(i).len <= r(j).at \/ r(j).at + r(j).len <= r(i).at
        /\ r(i) # r(j)
  <2>. TAKE i, j \in 1..N
  <2>. HAVE i # j
  <2>1. i < j \/ j < i
    BY <1>3
  <2>2. r(i).at + r(i).len <= r(j).at \/ r(j).at + r(j).len <= r(i).at
    BY <1>4, <2>1
  <2>3. r(i).at \in Int /\ r(i).len \in Nat \ {0}
    BY <1>4 DEF Place
  <2>4. r(i) # r(j)
    BY <2>2, <2>3
  <2>. QED
    BY <2>2, <2>4
<1>7. \A x, y \in areas : x # y => x.at + x.len <= y.at \/ y.at + y.len <= x.at
  BY <1>5, <1>6
<1>8. \A x \in areas : x.at + x.len <= StackTop
  BY <1>4, <1>5 DEF Place
<1>9. Cardinality(areas) = N
  <2>. DEFINE f == [i \in 1..N |-> r(i)]
  <2>1. f \in Bijection(1..N, areas)
    <3>1. f \in [1..N -> areas] /\ \A x \in areas : \E i \in 1..N : f[i] = x
      BY <1>5
    <3>2. \A i, j \in 1..N : f[i] = f[j] => i = j
      BY <1>6
    <3>. HIDE DEF f
    <3>. QED
      BY <3>1, <3>2 DEF Bijection, Injection, Surjection, IsInjective
  <2>2. IsFiniteSet(1..N) /\ Cardinality(1..N) = N
    BY <1>3, FS_Interval
  <2>3. ExistsBijection(1..N, areas)
    BY <2>1 DEF ExistsBijection
  <2>. QED
    BY <2>2, <2>3, FS_Bijection
<1>10. N = Len(Env) + Len(argv) + 2
  BY <1>1, LoadingAssumption DEF N
<1>11. s.sp % (2 * Word) = 0
  BY <1>2, Zenon DEF StackLaid
<1>. QED
  BY <1>7, <1>8, <1>9, <1>10, <1>11, Zenon DEF StackWellFormed, areas, Areas, s

\* The inductive invariant of running programs: besides what ResumesHolds needs,
\* every one of them has its image where nothing was loaded over it since.
THEOREM ImagesInvariant == LoadingSpec => []ImagesInv
BY ImagesFirst, ImagesStep, PTL DEF LoadingSpec

\* Programs have their image, headers and stack, their callers the place to go
\* on at, and files their copies.
THEOREM ProgramsStayWhole == LoadingSpec => []ProgramsWhole
<1>1. LoadingSpec => [](ResumesWhole /\ BuffersHeld)
  BY ResumesHolds
<1>2. ImagesInv /\ ResumesWhole /\ BuffersHeld => ProgramsWhole
  BY ImageHolds, HeadersHold, StackHolds DEF ProgramsWhole
<1>. QED
  BY <1>1, <1>2, ImagesInvariant, PTL

-----------------------------------------------------------------------------
(* The compiler.  Sequences put together.                                  *)

\* What is put together of the first sequences.
Flat(F, ss, T) ==
  /\ F \in [0..Len(ss) -> Seq(T)] /\ F[0] = <<>>
  /\ \A i \in 1..Len(ss) : F[i] = F[i - 1] \o ss[i]

\* Sequences can be put together one after another.
LEMMA FlatExists ==
  ASSUME NEW T, NEW ss \in Seq(Seq(T))
  PROVE  \E F : Flat(F, ss, T)
<1>. DEFINE n == Len(ss)
            h == [x \in Seq(T) \X (1..n) |-> x[1] \o ss[x[2]]]
<1>1. n \in Nat /\ \A i \in 1..n : ss[i] \in Seq(T)
  OBVIOUS
<1>. HIDE DEF n
<1>2. h \in [Seq(T) \X (1..n) -> Seq(T)]
  <2>1. ASSUME NEW x \in Seq(T) \X (1..n) PROVE x[1] \o ss[x[2]] \in Seq(T)
    <3>1. x[1] \in Seq(T) /\ ss[x[2]] \in Seq(T)
      BY <1>1
    <3>. QED
      BY <3>1, ConcatProperties
  <2>. QED
    BY <2>1
<1>3. PICK F \in [0..n -> Seq(T)] : Follows(F, n, <<>>, h)
  <2>1. <<>> \in Seq(T)
    OBVIOUS
  <2>. HIDE DEF h
  <2>. QED
    BY <1>1, <1>2, <2>1, Iterates
<1>4. ASSUME NEW i \in 1..n PROVE F[i] = F[i - 1] \o ss[i]
  <2>1. i \in 0..n /\ i # 0 /\ i - 1 \in 0..n
    BY <1>1
  <2>2. F[i] = h[<<F[i - 1], i>>]
    <3>. HIDE DEF h
    <3>1. F = [j \in 0..n |-> IF j = 0 THEN <<>> ELSE h[<<F[j - 1], j>>]]
      BY <1>3, Zenon DEF Follows
    <3>. QED
      BY <2>1, <3>1, Zenon
  <2>3. <<F[i - 1], i>> \in Seq(T) \X (1..n)
    BY <1>3, <2>1
  <2>. QED
    BY <2>2, <2>3
<1>5. F[0] = <<>>
  <2>. HIDE DEF h
  <2>1. 0 \in 0..n
    BY <1>1
  <2>2. F = [j \in 0..n |-> IF j = 0 THEN <<>> ELSE h[<<F[j - 1], j>>]]
    BY <1>3, Zenon DEF Follows
  <2>. QED
    BY <2>1, <2>2, Zenon
<1>. QED
  BY <1>3, <1>4, <1>5, Zenon DEF Flat, n

IsFlatten(u, ss) == u = [i \in 1..Len(ss) |-> IF i = 1 THEN ss[i] ELSE u[i - 1] \o ss[i]]

\* FlattenSeq puts all of them together.
LEMMA FlattenIs ==
  ASSUME NEW T, NEW ss \in Seq(Seq(T)), NEW F, Flat(F, ss, T)
  PROVE  FlattenSeq(ss) = F[Len(ss)]
<1>. DEFINE n == Len(ss)
<1>1. n \in Nat /\ \A i \in 1..n : ss[i] \in Seq(T)
  OBVIOUS
<1>2. F \in [0..n -> Seq(T)] /\ F[0] = <<>> /\ \A i \in 1..n : F[i] = F[i - 1] \o ss[i]
  BY DEF Flat
<1>3. CASE n = 0
  <2>1. ss = <<>>
    BY <1>3
  <2>2. FlattenSeq(ss) = ss
    BY <1>3, Zenon DEF FlattenSeq
  <2>. QED
    BY <1>2, <1>3, <2>1, <2>2
<1>4. CASE n # 0
  <2>1. ASSUME NEW i \in 1..n PROVE F[i] = IF i = 1 THEN ss[i] ELSE F[i - 1] \o ss[i]
    <3>1. CASE i = 1
      <4>1. F[i] = F[i - 1] \o ss[i]
        BY <1>2
      <4>0. F[i - 1] = <<>>
        <5>1. i - 1 = 0
          BY <3>1
        <5>. QED
          BY <1>2, <5>1
      <4>2. F[i] = <<>> \o ss[i] /\ ss[i] \in Seq(T)
        BY <1>1, <4>0, <4>1
      <4>3. <<>> \o ss[i] = ss[i]
        BY <4>2, ConcatEmptySeq
      <4>. QED
        BY <3>1, <4>2, <4>3
    <3>2. CASE i # 1
      BY <1>2, <3>2
    <3>. QED
      BY <3>1, <3>2
  <2>. DEFINE g == [i \in 1..n |-> F[i]]
              u == CHOOSE x : IsFlatten(x, ss)
  <2>. HIDE DEF n
  <2>2. IsFlatten(g, ss)
    <3>1. \A i \in 1..n : g[i] = IF i = 1 THEN ss[i] ELSE g[i - 1] \o ss[i]
      <4>. TAKE i \in 1..n
      <4>1. i # 1 => i - 1 \in 1..n
        BY <1>1
      <4>2. g[i] = F[i] /\ (i # 1 => g[i - 1] = F[i - 1])
        BY <4>1
      <4>. HIDE DEF g
      <4>. QED
        BY <2>1, <4>2, Zenon
    <3>. QED
      BY <3>1, Zenon DEF IsFlatten, n
  <2>3. IsFlatten(u, ss)
    <3>. HIDE DEF g
    <3>. QED
      BY <2>2
  <2>4. FlattenSeq(ss) = u[n]
    BY <1>4, Zenon DEF FlattenSeq, IsFlatten, n
  <2>. HIDE DEF u
  <2>5. \A i \in 1..n : u[i] = IF i = 1 THEN ss[i] ELSE u[i - 1] \o ss[i]
    BY <2>3, Zenon DEF IsFlatten, n
  <2>. DEFINE S == {i \in 0..n : i # 0 => u[i] = F[i]}
  <2>6. 0 \in S
    BY <1>1
  <2>7. ASSUME NEW i \in 0..n, i \in S, i # n PROVE i + 1 \in S
    <3>1. i + 1 \in 1..n /\ (i + 1) - 1 = i /\ i + 1 \in 0..n
      BY <1>1, <2>7
    <3>2. u[i + 1] = IF i + 1 = 1 THEN ss[i + 1] ELSE u[i] \o ss[i + 1]
      BY <2>5, <3>1
    <3>3. F[i + 1] = IF i + 1 = 1 THEN ss[i + 1] ELSE F[i] \o ss[i + 1]
      BY <2>1, <3>1
    <3>4. i + 1 = 1 \/ i # 0
      BY <1>1
    <3>5. u[i + 1] = F[i + 1]
      BY <2>7, <3>2, <3>3, <3>4, Zenon
    <3>. QED
      BY <3>1, <3>5
  <2>. HIDE DEF S
  <2>8. \A i \in 0..n : i \in S
    BY <1>1, <2>6, <2>7, UpToN
  <2>9. n \in 0..n
    BY <1>1
  <2>10. u[n] = F[n]
    BY <1>4, <2>8, <2>9 DEF S
  <2>. QED
    BY <2>4, <2>10 DEF n
<1>. QED
  BY <1>3, <1>4

\* t goes on from s.
Begins(s, t) ==
  Len(s) <= Len(t) /\ \A x \in 1..Len(s) : t[x] = s[x]

\* What is put together of more goes on from what is of fewer.
LEMMA FlatGrows ==
  ASSUME NEW T, NEW ss \in Seq(Seq(T)), NEW F, Flat(F, ss, T), NEW i \in 0..Len(ss)
  PROVE  \A j \in 0..Len(ss) : i <= j => Begins(F[i], F[j])
<1>. DEFINE n == Len(ss)
            S == {j \in 0..n : i <= j => Begins(F[i], F[j])}
<1>1. n \in Nat /\ (\A k \in 1..n : ss[k] \in Seq(T)) /\ i \in 0..n
  OBVIOUS
<1>2. F \in [0..n -> Seq(T)] /\ \A k \in 1..n : F[k] = F[k - 1] \o ss[k]
  BY DEF Flat
<1>. HIDE DEF n
<1>3. 0 \in S
  <2>1. i <= 0 => i = 0
    BY <1>1
  <2>2. 0 \in 0..n /\ Begins(F[0], F[0])
    <3>1. F[0] \in Seq(T) /\ 0 \in 0..n
      BY <1>1, <1>2
    <3>. QED
      BY <3>1 DEF Begins
  <2>. QED
    BY <2>1, <2>2
<1>4. ASSUME NEW j \in 0..n, j \in S, j # n PROVE j + 1 \in S
  <2>1. j + 1 \in 1..n /\ (j + 1) - 1 = j /\ j + 1 \in 0..n
    BY <1>1, <1>4
  <2>2. F[j] \in Seq(T) /\ ss[j + 1] \in Seq(T) /\ F[i] \in Seq(T) /\ F[j + 1] = F[j] \o ss[j + 1]
    BY <1>1, <1>2, <2>1
  <2>3. CASE i = j + 1
    <3>1. Begins(F[i], F[i])
      BY <2>2 DEF Begins
    <3>. QED
      BY <2>1, <2>3, <3>1
  <2>4. CASE i <= j
    <3>1. Begins(F[i], F[j])
      BY <1>4, <2>4
    <3>. DEFINE a == F[i]
                b == F[j]
                c == ss[j + 1]
                d == F[j + 1]
    <3>2. Len(d) = Len(b) + Len(c) /\ \A x \in 1..Len(b) : d[x] = b[x]
      <4>1. d = b \o c /\ b \in Seq(T) /\ c \in Seq(T)
        BY <2>2
      <4>. HIDE DEF a, b, c, d
      <4>2. Len(b) \in Nat /\ Len(c) \in Nat /\ Len(b \o c) = Len(b) + Len(c)
        BY <4>1
      <4>3. \A x \in 1..Len(b) : (b \o c)[x] = b[x]
        BY <4>1, ConcatProperties
      <4>. QED
        BY <4>1, <4>2, <4>3
    <3>3. Len(a) \in Nat /\ Len(b) \in Nat /\ Len(c) \in Nat
      BY <2>2
    <3>4. Begins(a, b)
      BY <3>1
    <3>. HIDE DEF a, b, c, d
    <3>5. Begins(a, d)
      BY <3>2, <3>3, <3>4 DEF Begins
    <3>. QED
      BY <2>1, <3>5 DEF a, d
  <2>5. CASE ~(i <= j) /\ i # j + 1
    <3>1. ~(i <= j + 1)
      BY <1>1, <2>1, <2>5
    <3>. QED
      BY <2>1, <3>1
  <2>. QED
    BY <2>3, <2>4, <2>5
<1>5. \A j \in 0..n : j \in S
  <2>. HIDE DEF S
  <2>. QED
    BY <1>1, <1>3, <1>4, UpToN
<1>. QED
  BY <1>5 DEF n

\* The first k sequences of ss and of tt are the same.
SameFirst(ss, tt, k) ==
  k <= Len(ss) /\ k <= Len(tt) /\ \A i \in 1..k : ss[i] = tt[i]

\* Where the first sequences are the same, so is what is put together of them.
LEMMA FlatSame ==
  ASSUME NEW T, NEW ss \in Seq(Seq(T)), NEW tt \in Seq(Seq(T)), NEW F, Flat(F, ss, T),
         NEW G, Flat(G, tt, T), NEW k \in Nat, SameFirst(ss, tt, k)
  PROVE  F[k] = G[k]
<1>. USE DEF SameFirst
<1>. DEFINE S == {i \in 0..k : F[i] = G[i]}
<1>1. F[0] = G[0] /\ \A i \in 1..k : F[i] = F[i - 1] \o ss[i] /\ G[i] = G[i - 1] \o tt[i]
  <2>1. \A i \in 1..k : i \in 1..Len(ss) /\ i \in 1..Len(tt)
    OBVIOUS
  <2>. QED
    BY <2>1, Zenon DEF Flat
<1>2. 0 \in S
  BY <1>1
<1>3. ASSUME NEW i \in 0..k, i \in S, i # k PROVE i + 1 \in S
  <2>1. i + 1 \in 1..k /\ (i + 1) - 1 = i
    BY <1>3
  <2>2. F[i + 1] = F[(i + 1) - 1] \o ss[i + 1] /\ G[i + 1] = G[(i + 1) - 1] \o tt[i + 1]
    BY <1>1, <2>1
  <2>3. F[i + 1] = G[i + 1]
    BY <1>3, <2>1, <2>2
  <2>. QED
    BY <2>1, <2>3
<1>4. \A i \in 0..k : i \in S
  <2>. HIDE DEF S
  <2>. QED
    BY <1>2, <1>3, UpToN
<1>5. k \in 0..k
  OBVIOUS
<1>. QED
  BY <1>4, <1>5, Zenon

-----------------------------------------------------------------------------
(* The compiler.  Parsing.                                                 *)

OnePrint == [text : Seq(Token), has_counter : BOOLEAN, start_val : Nat, end_val : Nat]

ParseState ==
  [prints : Seq(OnePrint), in_loop : BOOLEAN, loop_depth : Nat, start : Nat, end : Nat, ret_code : Nat]

\* The next one is the first from there on, or the end.
LEMMA NextIs ==
  ASSUME NEW src \in Seq(Token), NEW i \in Nat \ {0}, NEW kinds
  PROVE  LET r == NextOf(src, i, kinds)
         IN  /\ r \in Nat /\ r <= Len(src) + 1
             /\ r <= Len(src) => i <= r /\ src[r].t \in kinds
             /\ \A j \in i..Len(src) : src[j].t \in kinds => r <= j
<1>. DEFINE n == Len(src)
            S == {n + 1} \cup {j \in i..n : src[j].t \in kinds}
<1>1. n \in Nat
  OBVIOUS
<1>2. NextOf(src, i, kinds) = Min(S)
  BY Zenon DEF NextOf
<1>. HIDE DEF n
<1>3. S \in SUBSET Nat /\ n + 1 \in S
  BY <1>1
<1>4. Min(S) \in S /\ \A y \in S : Min(S) <= y
  <2>. HIDE DEF S
  <2>. QED
    BY <1>3, MinOf
<1>. DEFINE m == Min(S)
<1>5. m \in S /\ \A y \in S : m <= y
  BY <1>4
<1>. HIDE DEF m
<1>6. m \in Nat /\ m <= n + 1 /\ (m <= n => i <= m /\ src[m].t \in kinds)
  BY <1>1, <1>3, <1>5
<1>7. \A j \in i..n : src[j].t \in kinds => m <= j
  BY <1>5
<1>. QED
  BY <1>2, <1>6, <1>7 DEF m, n

\* It is where one is that none comes before.
LEMMA NextAt ==
  ASSUME NEW src \in Seq(Token), NEW i \in Nat \ {0}, NEW kinds, NEW j \in i..Len(src),
         src[j].t \in kinds, \A x \in i..(j - 1) : src[x].t \notin kinds
  PROVE  NextOf(src, i, kinds) = j
<1>. DEFINE r == NextOf(src, i, kinds)
<1>1. /\ r \in Nat /\ r <= Len(src) + 1
      /\ r <= Len(src) => i <= r /\ src[r].t \in kinds
      /\ \A x \in i..Len(src) : src[x].t \in kinds => r <= x
  BY NextIs, Zenon
<1>. HIDE DEF r
<1>2. r <= j /\ j \in Nat /\ j <= Len(src) /\ Len(src) \in Nat
  BY <1>1
<1>3. ~(r < j)
  BY <1>1, <1>2
<1>4. r = j
  BY <1>1, <1>2, <1>3
<1>. QED
  BY <1>4 DEF r

\* A print more leaves a state of the parser.
LEMMA AddPrintTyped ==
  ASSUME NEW st \in ParseState, NEW text \in Seq(Token)
  PROVE  AddPrint(st, text) \in ParseState
<1>. DEFINE p == [text |-> text, has_counter |-> st.in_loop, start_val |-> st.start, end_val |-> st.end]
<1>1. p \in OnePrint /\ LoopAfterPrint(st) \in BOOLEAN
  BY DEF OnePrint, ParseState, LoopAfterPrint
<1>. HIDE DEF p
<1>2. Append(st.prints, p) \in Seq(OnePrint)
  BY <1>1 DEF ParseState
<1>3. [st EXCEPT !.prints = Append(st.prints, p), !.in_loop = LoopAfterPrint(st)] \in ParseState
  BY <1>1, <1>2 DEF ParseState
<1>. QED
  BY <1>3, Zenon DEF AddPrint, p

\* A text with its end of line is a text.
LEMMA WithEndlTyped ==
  ASSUME NEW src, NEW from, NEW text \in Seq(Token)
  PROVE  WithEndl(src, from, text) \in Seq(Token)
<1>1. Newline \in Token
  <2>1. "newline" \in Kinds
    BY DEF Kinds
  <2>2. Newline = [t |-> "newline", n |-> 0, m |-> 0]
    BY Zenon DEF Newline, Tok
  <2>. DEFINE kind == "newline"
  <2>. HIDE DEF kind
  <2>3. [t |-> kind, n |-> 0, m |-> 0] \in Token
    BY <2>1 DEF Token, kind
  <2>. QED
    BY <2>2, <2>3 DEF kind
<1>2. Append(text, Newline) \in Seq(Token)
  BY <1>1
<1>. QED
  BY <1>2, Zenon DEF WithEndl

\* What looks for a string leaves a state of the parser.
LEMMA ParsePrintTyped ==
  ASSUME NEW st \in ParseState, NEW src \in Seq(Token), NEW i \in 1..Len(src)
  PROVE  ParsePrint(st, src, i) \in ParseState
<1>. DEFINE begun == IF src[i].t = "cout" THEN NextOf(src, i, {"quote", "semicolon"}) ELSE NextOf(src, i, {"quote"})
            close == NextOf(src, begun + 1, {"quote"})
            text == SubSeq(src, begun + 1, close - 1)
            said == IF src[i].t = "cout" THEN WithEndl(src, close + 1, text) ELSE text
<1>1. i \in Nat \ {0} /\ Len(src) \in Nat
  OBVIOUS
<1>2. begun \in Nat
  <2>1. NextOf(src, i, {"quote", "semicolon"}) \in Nat /\ NextOf(src, i, {"quote"}) \in Nat
    BY <1>1, NextIs, Zenon
  <2>. QED
    BY <2>1, Zenon
<1>3. ParsePrint(st, src, i) =
        IF begun > Len(src) \/ src[begun].t = "semicolon" \/ close > Len(src) THEN st ELSE AddPrint(st, said)
  BY Zenon DEF ParsePrint
<1>. HIDE DEF begun
<1>4. begun + 1 \in Nat \ {0}
  BY <1>2
<1>5. close \in Nat
  BY <1>4, NextIs, Zenon
<1>. HIDE DEF close
<1>6. ASSUME ~(close > Len(src)) PROVE AddPrint(st, said) \in ParseState
  <2>1. text \in Seq(Token)
    <3>1. begun + 1 \in Nat /\ 1 <= begun + 1 /\ close - 1 \in Int /\ close - 1 <= Len(src)
      BY <1>1, <1>2, <1>5, <1>6
    <3>. QED
      BY <3>1, SubSeqProperties
  <2>. HIDE DEF text
  <2>2. said \in Seq(Token)
    BY <2>1, WithEndlTyped, Zenon
  <2>. HIDE DEF said
  <2>. QED
    BY <2>2, AddPrintTyped
<1>. HIDE DEF said, text
<1>. QED
  BY <1>3, <1>6, Zenon

\* What a token does to the loop.
Looped(st, src, i) ==
  LET t == src[i].t
  IN  IF t = "for" THEN [st EXCEPT !.in_loop = TRUE, !.loop_depth = 0,
                                   !.start = src[i].n, !.end = src[i].m]
      ELSE IF ~st.in_loop THEN st
      ELSE IF t = "lbrace" THEN [st EXCEPT !.loop_depth = @ + 1]
      ELSE IF t = "rbrace" THEN [st EXCEPT !.loop_depth = IF @ > 0 THEN @ - 1 ELSE 0,
                                      !.in_loop = st.loop_depth > 1]
      ELSE st

\* A token changes the loop first, then adds a print or sets what is returned.
LEMMA ParseStepIs ==
  ASSUME NEW st, NEW src, NEW i
  PROVE  ParseStep(st, src, i) =
           CASE src[i].t \in {"printf", "puts", "cout"} -> ParsePrint(Looped(st, src, i), src, i)
             [] src[i].t = "return" -> [Looped(st, src, i) EXCEPT !.ret_code = src[i].n]
             [] OTHER -> Looped(st, src, i)
<1>. DEFINE looped == Looped(st, src, i)
<1>. QED
  BY Zenon DEF ParseStep, Looped

\* A token's effect on the loop leaves a state of the parser.
LEMMA LoopedTyped ==
  ASSUME NEW st \in ParseState, NEW src \in Seq(Token), NEW i \in 1..Len(src)
  PROVE  Looped(st, src, i) \in ParseState
<1>1. src[i] \in Token
  OBVIOUS
<1>2. src[i].n \in Nat /\ src[i].m \in Nat
  BY <1>1 DEF Token
<1>3. [st EXCEPT !.in_loop = TRUE, !.loop_depth = 0, !.start = src[i].n, !.end = src[i].m] \in ParseState
  BY <1>2 DEF ParseState
<1>4. [st EXCEPT !.loop_depth = st.loop_depth + 1] \in ParseState
  BY DEF ParseState
<1>5. [st EXCEPT !.loop_depth = IF st.loop_depth > 0 THEN st.loop_depth - 1 ELSE 0,
                 !.in_loop = st.loop_depth > 1] \in ParseState
  <2>. DEFINE d == IF st.loop_depth > 0 THEN st.loop_depth - 1 ELSE 0
              b == st.loop_depth > 1
  <2>1. d \in Nat /\ b \in BOOLEAN
    <3>1. st.loop_depth \in Nat
      BY DEF ParseState
    <3>. QED
      BY <3>1
  <2>. HIDE DEF d, b
  <2>2. [st EXCEPT !.loop_depth = d, !.in_loop = b] \in ParseState
    BY <2>1 DEF ParseState
  <2>. QED
    BY <2>2 DEF d, b
<1>. QED
  BY <1>3, <1>4, <1>5, Zenon DEF Looped

\* A token leads from one state of the parser to another.
LEMMA ParseStepTyped ==
  ASSUME NEW st \in ParseState, NEW src \in Seq(Token), NEW i \in 1..Len(src)
  PROVE  ParseStep(st, src, i) \in ParseState
<1>. DEFINE l == Looped(st, src, i)
<1>1. l \in ParseState
  BY LoopedTyped
<1>2. ParsePrint(l, src, i) \in ParseState
  <2>. HIDE DEF l
  <2>. QED
    BY <1>1, ParsePrintTyped
<1>3. [l EXCEPT !.ret_code = src[i].n] \in ParseState
  <2>. HIDE DEF l
  <2>1. src[i] \in Token
    OBVIOUS
  <2>2. src[i].n \in Nat
    BY <2>1 DEF Token
  <2>. QED
    BY <1>1, <2>2 DEF ParseState
<1>. HIDE DEF l
<1>4. ParseStep(st, src, i) \in {ParsePrint(l, src, i), [l EXCEPT !.ret_code = src[i].n], l}
  BY ParseStepIs, Zenon DEF l
<1>. QED
  BY <1>1, <1>2, <1>3, <1>4, Zenon

\* The states of the parser after each of the tokens.
Parsing(u, src) ==
  /\ u \in [0..Len(src) -> ParseState] /\ u[0] = ParseStart
  /\ \A i \in 1..Len(src) : u[i] = ParseStep(u[i - 1], src, i)

IsParsing(u, src) ==
  u = [i \in 0..Len(src) |-> IF i = 0 THEN ParseStart ELSE ParseStep(u[i - 1], src, i)]

\* The parser is followed one token after another.
LEMMA ParseIs ==
  ASSUME NEW src \in Seq(Token)
  PROVE  \E u : Parsing(u, src) /\ parse_c_statements(src) = u[Len(src)]
<1>. DEFINE n == Len(src)
            h == [x \in ParseState \X (1..n) |-> ParseStep(x[1], src, x[2])]
<1>1. n \in Nat
  OBVIOUS
<1>2. \A st \in ParseState, i \in 1..n : ParseStep(st, src, i) \in ParseState
  BY ParseStepTyped
<1>. HIDE DEF n
<1>3. h \in [ParseState \X (1..n) -> ParseState]
  <2>1. ASSUME NEW x \in ParseState \X (1..n) PROVE ParseStep(x[1], src, x[2]) \in ParseState
    <3>1. x[1] \in ParseState /\ x[2] \in 1..n
      OBVIOUS
    <3>. QED
      BY <1>2, <3>1
  <2>. QED
    BY <2>1
<1>0. ParseStart \in ParseState
  <2>1. <<>> \in Seq(OnePrint)
    OBVIOUS
  <2>. QED
    BY <2>1 DEF ParseStart, ParseState
<1>4. PICK f \in [0..n -> ParseState] : Follows(f, n, ParseStart, h)
  <2>. HIDE DEF h
  <2>. QED
    BY <1>0, <1>1, <1>3, Iterates
<1>5. IsParsing(f, src)
  <2>1. ASSUME NEW i \in 1..n PROVE h[<<f[i - 1], i>>] = ParseStep(f[i - 1], src, i)
    <3>0. i - 1 \in 0..n
      BY <1>1
    <3>1. <<f[i - 1], i>> \in ParseState \X (1..n)
      BY <1>4, <3>0
    <3>. QED
      BY <3>1
  <2>. HIDE DEF h
  <2>2. f = [i \in 0..n |-> IF i = 0 THEN ParseStart ELSE h[<<f[i - 1], i>>]]
    BY <1>4 DEF Follows
  <2>3. \A i \in 0..n : f[i] = IF i = 0 THEN ParseStart ELSE ParseStep(f[i - 1], src, i)
    <3>. TAKE i \in 0..n
    <3>1. i # 0 => i \in 1..n
      BY <1>1
    <3>2. f[i] = IF i = 0 THEN ParseStart ELSE h[<<f[i - 1], i>>]
      BY <2>2, Zenon
    <3>. QED
      BY <2>1, <3>1, <3>2, Zenon
  <2>4. f = [i \in 0..n |-> f[i]]
    BY <1>4
  <2>. QED
    BY <2>3, <2>4, Zenon DEF IsParsing, n
<1>. DEFINE u == CHOOSE g : IsParsing(g, src)
<1>6. IsParsing(u, src)
  BY <1>5
<1>7. parse_c_statements(src) = u[n]
  BY Zenon DEF parse_c_statements, IsParsing, n
<1>. HIDE DEF u
<1>8. u = [i \in 0..n |-> IF i = 0 THEN ParseStart ELSE ParseStep(u[i - 1], src, i)]
  BY <1>6, Zenon DEF IsParsing, n
<1>9. u[0] = ParseStart /\ \A i \in 1..n : u[i] = ParseStep(u[i - 1], src, i)
  <2>1. \A i \in 0..n : u[i] = IF i = 0 THEN ParseStart ELSE ParseStep(u[i - 1], src, i)
    BY <1>8, Zenon
  <2>2. 0 \in 0..n /\ \A i \in 1..n : i \in 0..n /\ i # 0
    BY <1>1
  <2>. QED
    BY <2>1, <2>2, Zenon
<1>10. \A i \in 0..n : u[i] \in ParseState
  <2>. DEFINE T == {i \in 0..n : u[i] \in ParseState}
  <2>1. 0 \in T
    BY <1>0, <1>1, <1>9
  <2>2. ASSUME NEW i \in 0..n, i \in T, i # n PROVE i + 1 \in T
    <3>1. i + 1 \in 1..n /\ i + 1 \in 0..n /\ (i + 1) - 1 = i
      BY <1>1, <2>2
    <3>2. u[i + 1] = ParseStep(u[i], src, i + 1)
      BY <1>9, <3>1
    <3>3. u[i + 1] \in ParseState
      BY <1>2, <2>2, <3>1, <3>2
    <3>. QED
      BY <3>1, <3>3
  <2>. HIDE DEF T
  <2>3. \A i \in 0..n : i \in T
    BY <1>1, <2>1, <2>2, UpToN
  <2>. QED
    BY <2>3 DEF T
<1>11. u \in [0..n -> ParseState]
  BY <1>8, <1>10
<1>12. Parsing(u, src)
  BY <1>9, <1>11, Zenon DEF Parsing, n
<1>. QED
  BY <1>7, <1>12, Zenon DEF n

-----------------------------------------------------------------------------
(* The compiler.  Code.                                                    *)

\* A number and an end of line are tokens.
LEMMA NumIs ==
  /\ \A n \in Nat : Num(n) \in Token /\ Num(n).t = "num"
  /\ Newline \in Token /\ Newline.t = "newline"
<1>1. "num" \in Kinds /\ "newline" \in Kinds
  BY DEF Kinds
<1>. DEFINE a == "num"
            b == "newline"
<1>2. \A n \in Nat : Num(n) = [t |-> a, n |-> n, m |-> 0]
  BY Zenon DEF Num
<1>3. Newline = [t |-> b, n |-> 0, m |-> 0]
  BY Zenon DEF Newline, Tok
<1>. HIDE DEF a, b
<1>4. (\A n \in Nat : Num(n) \in Token /\ Num(n).t = a) /\ Newline \in Token /\ Newline.t = b
  BY <1>1, <1>2, <1>3 DEF Token, a, b
<1>. QED
  BY <1>4 DEF a, b

\* A function on the numbers up to one, even one below, is a sequence.
LEMMA RowTyped ==
  ASSUME NEW m \in Int, NEW T, NEW f \in [1..m -> T]
  PROVE  f \in Seq(T) /\ Len(f) = IF m < 0 THEN 0 ELSE m
<1>1. CASE m < 0
  <2>1. 1..m = 1..0
    BY <1>1
  <2>2. f \in [1..0 -> T]
    BY <2>1
  <2>. QED
    BY <1>1, <2>2
<1>2. CASE ~(m < 0)
  <2>1. m \in Nat
    BY <1>2
  <2>. QED
    BY <1>2, <2>1
<1>. QED
  BY <1>1, <1>2

HasFmt(text) == \E k \in DOMAIN text : text[k].t = "fmt"

WithNumber(text, val) == [k \in DOMAIN text |-> IF text[k].t = "fmt" THEN Num(val) ELSE text[k]]

\* A text with the counter filled in is a text of the same length.
LEMMA FilledTyped ==
  ASSUME NEW text \in Seq(Token), NEW val \in Nat
  PROVE  WithNumber(text, val) \in Seq(Token) /\ Len(WithNumber(text, val)) = Len(text)
<1>1. Num(val) \in Token /\ DOMAIN text = 1..Len(text) /\ Len(text) \in Int /\ Len(text) \in Nat
  BY NumIs
<1>2. \A k \in 1..Len(text) : (IF text[k].t = "fmt" THEN Num(val) ELSE text[k]) \in Token
  BY <1>1
<1>3. WithNumber(text, val) \in [1..Len(text) -> Token]
  BY <1>1, <1>2 DEF WithNumber
<1>. QED
  BY <1>1, <1>3, RowTyped

\* The line of one turn of a loop is a text.
LEMMA LineTyped ==
  ASSUME NEW text \in Seq(Token), NEW val \in Nat
  PROVE  Line(text, val) \in Seq(Token)
<1>. DEFINE bare == IF text # <<>> /\ Last(text) = Newline THEN Front(text) ELSE text
            more == <<Num(val), Newline>>
<1>1. bare \in Seq(Token)
  <2>1. ASSUME text # <<>> PROVE Front(text) \in Seq(Token)
    <3>1. Len(text) \in Nat /\ Len(text) # 0
      BY <2>1, EmptySeq
    <3>2. Len(text) - 1 \in Int /\ Len(text) - 1 <= Len(text)
      BY <3>1
    <3>. QED
      BY <3>2, SubSeqProperties DEF Front
  <2>. QED
    BY <2>1, Zenon
<1>2. more \in Seq(Token)
  <2>1. Num(val) \in Token /\ Newline \in Token
    BY NumIs
  <2>. QED
    BY <2>1
<1>. HIDE DEF bare, more
<1>3. bare \o more \in Seq(Token)
  BY <1>1, <1>2, ConcatProperties
<1>4. Line(text, val) = IF HasFmt(text) THEN WithNumber(text, val) ELSE bare \o more
  BY Zenon DEF Line, HasFmt, WithNumber, bare, more
<1>. QED
  BY <1>3, <1>4, FilledTyped, Zenon

\* The lines of a print are texts.
LEMMA LinesTyped ==
  ASSUME NEW print \in OnePrint
  PROVE  Lines(print) \in Seq(Seq(Token))
<1>1. print.text \in Seq(Token) /\ print.start_val \in Nat /\ print.end_val \in Nat
  BY DEF OnePrint
<1>. DEFINE m == print.end_val - print.start_val + 1
            f == [k \in 1..m |-> Line(print.text, print.start_val + k - 1)]
<1>2. m \in Int
  BY <1>1
<1>. HIDE DEF m
<1>3. f \in [1..m -> Seq(Token)]
  <2>1. ASSUME NEW k \in 1..m PROVE Line(print.text, print.start_val + k - 1) \in Seq(Token)
    <3>1. print.start_val + k - 1 \in Nat
      BY <1>1, <1>2
    <3>. QED
      BY <1>1, <3>1, LineTyped
  <2>. QED
    BY <2>1
<1>. HIDE DEF f
<1>4. f \in Seq(Seq(Token))
  BY <1>2, <1>3, RowTyped
<1>5. <<print.text>> \in Seq(Seq(Token))
  BY <1>1
<1>6. Lines(print) = IF print.has_counter THEN f ELSE <<print.text>>
  BY Zenon DEF Lines, f, m
<1>. QED
  BY <1>4, <1>5, <1>6, Zenon

Fmts(text) == {k \in DOMAIN text : text[k].t = "fmt"}

\* The bytes of a text are its tokens, and one more for each counter.
LEMMA BytesTyped ==
  ASSUME NEW text \in Seq(Token)
  PROVE  /\ Bytes(text) = Len(text) + Cardinality(Fmts(text)) /\ Bytes(text) \in Nat
         /\ IsFiniteSet(Fmts(text)) /\ Cardinality(Fmts(text)) \in Nat
<1>1. DOMAIN text = 1..Len(text) /\ Len(text) \in Nat
  OBVIOUS
<1>2. IsFiniteSet(1..Len(text))
  BY <1>1, FS_Interval
<1>3. Fmts(text) \in SUBSET (1..Len(text))
  BY <1>1 DEF Fmts
<1>4. IsFiniteSet(Fmts(text))
  BY <1>2, <1>3, FS_Subset
<1>5. Cardinality(Fmts(text)) \in Nat
  BY <1>4, FS_CardinalityType
<1>6. Bytes(text) = Len(text) + Cardinality(Fmts(text))
  BY Zenon DEF Bytes, Fmts
<1>. QED
  BY <1>1, <1>4, <1>5, <1>6

\* Bytes are no fewer in a text that goes on.
LEMMA BytesGrow ==
  ASSUME NEW s \in Seq(Token), NEW t \in Seq(Token), Begins(s, t)
  PROVE  Bytes(s) <= Bytes(t)
<1>1. Len(s) \in Nat /\ Len(t) \in Nat /\ Len(s) <= Len(t) /\ \A x \in 1..Len(s) : t[x] = s[x]
  BY DEF Begins
<1>2. Fmts(s) \in SUBSET Fmts(t)
  <2>1. DOMAIN s = 1..Len(s) /\ DOMAIN t = 1..Len(t)
    OBVIOUS
  <2>2. 1..Len(s) \subseteq 1..Len(t)
    BY <1>1
  <2>. QED
    BY <1>1, <2>1, <2>2 DEF Fmts
<1>3. Cardinality(Fmts(s)) <= Cardinality(Fmts(t))
  BY <1>2, BytesTyped, FS_Subset
<1>. DEFINE a == Cardinality(Fmts(s))
            b == Cardinality(Fmts(t))
<1>4. a \in Nat /\ b \in Nat /\ a <= b /\ Bytes(s) = Len(s) + a /\ Bytes(t) = Len(t) + b
  BY <1>3, BytesTyped
<1>. HIDE DEF a, b
<1>. QED
  BY <1>1, <1>4

\* The bytes of two texts are those of both put together.
LEMMA BytesOfBoth ==
  ASSUME NEW s \in Seq(Token), NEW t \in Seq(Token)
  PROVE  Bytes(s \o t) = Bytes(s) + Bytes(t)
<1>. DEFINE u == s \o t
            p == Len(s)
            q == Len(t)
            S == Fmts(s)
            T == {k \in (p + 1)..(p + q) : u[k].t = "fmt"}
            f == [k \in Fmts(t) |-> p + k]
<1>1. /\ u \in Seq(Token) /\ p \in Nat /\ q \in Nat /\ Len(u) = p + q
      /\ DOMAIN u = 1..(p + q) /\ DOMAIN s = 1..p /\ DOMAIN t = 1..q
  BY ConcatProperties
<1>2. (\A k \in 1..p : u[k] = s[k]) /\ (\A k \in 1..q : u[p + k] = t[k])
  <2>1. \A k \in 1..p : u[k] = s[k]
    BY ConcatProperties
  <2>2. \A k \in 1..q : u[p + k] = t[k]
    <3>1. \A k \in (Len(s) + 1)..(Len(s) + Len(t)) : u[k] = t[k - Len(s)]
      BY ConcatProperties
    <3>. HIDE DEF u
    <3>. TAKE k \in 1..q
    <3>2. p + k \in (p + 1)..(p + q) /\ p + k - p = k
      BY <1>1
    <3>. QED
      BY <3>1, <3>2
  <2>. QED
    BY <2>1, <2>2
<1>. HIDE DEF u, p, q
<1>3. Fmts(u) = S \cup T /\ S \cap T = {}
  <2>1. S = {k \in 1..p : u[k].t = "fmt"}
    BY <1>1, <1>2 DEF Fmts
  <2>2. Fmts(u) = {k \in 1..(p + q) : u[k].t = "fmt"}
    BY <1>1, Zenon DEF Fmts
  <2>3. 1..(p + q) = (1..p) \cup ((p + 1)..(p + q)) /\ (1..p) \cap ((p + 1)..(p + q)) = {}
    BY <1>1
  <2>. HIDE DEF S
  <2>. QED
    BY <2>1, <2>2, <2>3
<1>4. f \in Bijection(Fmts(t), T)
  <2>1. ASSUME NEW k \in Fmts(t) PROVE k \in 1..q /\ p + k \in T
    <3>1. k \in 1..q /\ t[k].t = "fmt"
      BY <1>1 DEF Fmts
    <3>2. p + k \in (p + 1)..(p + q) /\ u[p + k] = t[k]
      BY <1>1, <1>2, <3>1
    <3>. QED
      BY <3>1, <3>2
  <2>2. ASSUME NEW y \in T PROVE \E k \in Fmts(t) : f[k] = y
    <3>1. y - p \in 1..q /\ p + (y - p) = y
      BY <1>1
    <3>2. u[y] = t[y - p] /\ u[y].t = "fmt"
      BY <1>2, <3>1
    <3>3. y - p \in Fmts(t)
      BY <1>1, <3>1, <3>2 DEF Fmts
    <3>. QED
      BY <3>1, <3>3
  <2>3. \A a, b \in Fmts(t) : f[a] = f[b] => a = b
    BY <1>1, <2>1
  <2>4. f \in [Fmts(t) -> T]
    BY <2>1
  <2>. HIDE DEF f, T
  <2>. QED
    BY <2>2, <2>3, <2>4 DEF Bijection, Injection, Surjection, IsInjective
<1>5. IsFiniteSet(T) /\ Cardinality(T) = Cardinality(Fmts(t))
  <2>1. IsFiniteSet(Fmts(t)) /\ ExistsBijection(Fmts(t), T)
    <3>. HIDE DEF f, T
    <3>. QED
      BY <1>4, BytesTyped DEF ExistsBijection
  <2>. HIDE DEF T
  <2>. QED
    BY <2>1, FS_Bijection
<1>6. Cardinality(Fmts(u)) = Cardinality(S) + Cardinality(T)
  <2>1. IsFiniteSet(S) /\ Cardinality(S) \in Nat /\ Cardinality(T) \in Nat
    BY <1>5, BytesTyped
  <2>. HIDE DEF S, T
  <2>2. Cardinality(S \cup T) = Cardinality(S) + Cardinality(T) - Cardinality({})
    BY <1>3, <1>5, <2>1, FS_Union
  <2>. QED
    BY <1>3, <2>1, <2>2, FS_EmptySet
<1>. DEFINE a == Cardinality(Fmts(s))
            b == Cardinality(Fmts(t))
<1>7. Bytes(u) = p + q + (a + b) /\ Bytes(s) = p + a /\ Bytes(t) = q + b /\ a \in Nat /\ b \in Nat
  BY <1>1, <1>5, <1>6, BytesTyped DEF p, q
<1>. HIDE DEF a, b
<1>8. Bytes(u) = Bytes(s) + Bytes(t)
  BY <1>1, <1>7
<1>. QED
  BY <1>8 DEF u

OneWrite == [line : Seq(Token), code : Nat, str_off : Nat, disp : Int]

EmitState == [code_pos : Nat, rodata_pos : Nat, writes : Seq(OneWrite)]

\* The code buffer or that of the strings has no room for one more print.
NoRoom(e) == e.code_pos + CodeRoom >= BufCapacity \/ e.rodata_pos + LineRoom >= BufCapacity

WriteOf(e, line) ==
  [line |-> line, code |-> e.code_pos, str_off |-> e.rodata_pos,
   disp |-> e.rodata_pos - (e.code_pos + WriteLen)]

WithWrite(e, line) ==
  [code_pos |-> e.code_pos + WriteLen, rodata_pos |-> e.rodata_pos + Bytes(line) + 1,
   writes |-> Append(e.writes, WriteOf(e, line))]

\* A line is written where both buffers have room, else left out.
LEMMA EmitLineIs ==
  ASSUME NEW e, NEW line
  PROVE  EmitLine(e, line) = IF NoRoom(e) THEN e ELSE WithWrite(e, line)
BY Zenon DEF EmitLine, NoRoom, WithWrite, WriteOf

\* A line leads from one state of the code to another.
LEMMA EmitLineTyped ==
  ASSUME NEW e \in EmitState, NEW line \in Seq(Token)
  PROVE  /\ EmitLine(e, line) \in EmitState
         /\ WriteOf(e, line) \in OneWrite
<1>1. e.code_pos \in Nat /\ e.rodata_pos \in Nat /\ e.writes \in Seq(OneWrite) /\ WriteLen = 30
  BY DEF EmitState, WriteLen
<1>2. WriteOf(e, line) \in OneWrite
  BY <1>1 DEF WriteOf, OneWrite
<1>. DEFINE q == Append(e.writes, WriteOf(e, line))
            r == e.rodata_pos + Bytes(line) + 1
<1>3. q \in Seq(OneWrite) /\ r \in Nat
  BY <1>1, <1>2, BytesTyped
<1>. HIDE DEF q, r
<1>4. [code_pos |-> e.code_pos + WriteLen, rodata_pos |-> r, writes |-> q] \in EmitState
  BY <1>1, <1>3 DEF EmitState
<1>5. WithWrite(e, line) \in EmitState
  BY <1>4 DEF WithWrite, q, r
<1>. QED
  BY <1>2, <1>5, EmitLineIs, Zenon

\* The states of the code after each of the lines.
Emission(u, lines) ==
  /\ u \in [0..Len(lines) -> EmitState] /\ u[0] = EmitStart
  /\ \A i \in 1..Len(lines) : u[i] = EmitLine(u[i - 1], lines[i])

IsEmission(u, lines) ==
  u = [i \in 0..Len(lines) |-> IF i = 0 THEN EmitStart ELSE EmitLine(u[i - 1], lines[i])]

\* The code is followed one line after another.
LEMMA EmitIs ==
  ASSUME NEW lines \in Seq(Seq(Token))
  PROVE  \E u : Emission(u, lines) /\ Emitted(lines) = u[Len(lines)]
<1>. DEFINE n == Len(lines)
            h == [x \in EmitState \X (1..n) |-> EmitLine(x[1], lines[x[2]])]
<1>1. n \in Nat
  OBVIOUS
<1>2. \A e \in EmitState, i \in 1..n : EmitLine(e, lines[i]) \in EmitState
  BY EmitLineTyped
<1>. HIDE DEF n
<1>3. h \in [EmitState \X (1..n) -> EmitState]
  <2>1. ASSUME NEW x \in EmitState \X (1..n) PROVE EmitLine(x[1], lines[x[2]]) \in EmitState
    <3>1. x[1] \in EmitState /\ x[2] \in 1..n
      OBVIOUS
    <3>. QED
      BY <1>2, <3>1
  <2>. QED
    BY <2>1
<1>0. EmitStart \in EmitState
  <2>1. <<>> \in Seq(OneWrite)
    OBVIOUS
  <2>. QED
    BY <2>1 DEF EmitStart, EmitState
<1>4. PICK f \in [0..n -> EmitState] : Follows(f, n, EmitStart, h)
  <2>. HIDE DEF h
  <2>. QED
    BY <1>0, <1>1, <1>3, Iterates
<1>5. IsEmission(f, lines)
  <2>1. ASSUME NEW i \in 1..n PROVE h[<<f[i - 1], i>>] = EmitLine(f[i - 1], lines[i])
    <3>0. i - 1 \in 0..n
      BY <1>1
    <3>1. <<f[i - 1], i>> \in EmitState \X (1..n)
      BY <1>4, <3>0
    <3>. QED
      BY <3>1
  <2>. HIDE DEF h
  <2>2. f = [i \in 0..n |-> IF i = 0 THEN EmitStart ELSE h[<<f[i - 1], i>>]]
    BY <1>4 DEF Follows
  <2>3. \A i \in 0..n : f[i] = IF i = 0 THEN EmitStart ELSE EmitLine(f[i - 1], lines[i])
    <3>. TAKE i \in 0..n
    <3>1. i # 0 => i \in 1..n
      BY <1>1
    <3>2. f[i] = IF i = 0 THEN EmitStart ELSE h[<<f[i - 1], i>>]
      BY <2>2, Zenon
    <3>. QED
      BY <2>1, <3>1, <3>2, Zenon
  <2>4. f = [i \in 0..n |-> f[i]]
    BY <1>4
  <2>. QED
    BY <2>3, <2>4, Zenon DEF IsEmission, n
<1>. DEFINE u == CHOOSE g : IsEmission(g, lines)
<1>6. IsEmission(u, lines)
  BY <1>5
<1>7. Emitted(lines) = u[n]
  BY Zenon DEF Emitted, IsEmission, n
<1>. HIDE DEF u
<1>8. u = [i \in 0..n |-> IF i = 0 THEN EmitStart ELSE EmitLine(u[i - 1], lines[i])]
  BY <1>6, Zenon DEF IsEmission, n
<1>9. u[0] = EmitStart /\ \A i \in 1..n : u[i] = EmitLine(u[i - 1], lines[i])
  <2>1. \A i \in 0..n : u[i] = IF i = 0 THEN EmitStart ELSE EmitLine(u[i - 1], lines[i])
    BY <1>8, Zenon
  <2>2. 0 \in 0..n /\ \A i \in 1..n : i \in 0..n /\ i # 0
    BY <1>1
  <2>. QED
    BY <2>1, <2>2, Zenon
<1>10. \A i \in 0..n : u[i] \in EmitState
  <2>. DEFINE T == {i \in 0..n : u[i] \in EmitState}
  <2>1. 0 \in T
    BY <1>0, <1>1, <1>9
  <2>2. ASSUME NEW i \in 0..n, i \in T, i # n PROVE i + 1 \in T
    <3>1. i + 1 \in 1..n /\ i + 1 \in 0..n /\ (i + 1) - 1 = i
      BY <1>1, <2>2
    <3>2. u[i + 1] = EmitLine(u[i], lines[i + 1])
      BY <1>9, <3>1
    <3>3. u[i + 1] \in EmitState
      BY <1>2, <2>2, <3>1, <3>2
    <3>. QED
      BY <3>1, <3>3
  <2>. HIDE DEF T
  <2>3. \A i \in 0..n : i \in T
    BY <1>1, <2>1, <2>2, UpToN
  <2>. QED
    BY <2>3 DEF T
<1>11. u \in [0..n -> EmitState]
  BY <1>8, <1>10
<1>12. Emission(u, lines)
  BY <1>9, <1>11, Zenon DEF Emission, n
<1>. QED
  BY <1>7, <1>12, Zenon DEF n

\* The writes are the first lines, one after another in both buffers.
EmitInv(e, lines, H) ==
  LET m == Len(e.writes)
  IN  /\ m <= Len(lines) /\ e.code_pos = 30 * m /\ e.rodata_pos = Bytes(H[m]) + m
      /\ \A k \in 1..m :
           LET w == e.writes[k]
           IN  /\ w.line = lines[k] /\ w.disp = w.str_off - (w.code + 30)
               /\ w.str_off + Bytes(w.line) < e.rodata_pos
      /\ \A j, k \in 1..m :
           j < k => e.writes[j].str_off + Bytes(e.writes[j].line) < e.writes[k].str_off

\* A write more leaves the writes one after another in both buffers.
LEMMA WithWriteKeeps ==
  ASSUME NEW lines \in Seq(Seq(Token)), NEW H, Flat(H, lines, Token), NEW e \in EmitState,
         EmitInv(e, lines, H), Len(e.writes) < Len(lines)
  PROVE  EmitInv(WithWrite(e, lines[Len(e.writes) + 1]), lines, H)
<1>. DEFINE m == Len(e.writes)
            line == lines[m + 1]
            new == WriteOf(e, line)
            q == Append(e.writes, new)
            c == e.code_pos
            r == e.rodata_pos
            b == Bytes(line)
            N == Len(lines)
<1>1. c \in Nat /\ r \in Nat /\ e.writes \in Seq(OneWrite) /\ m \in Nat /\ N \in Nat /\ m + 1 \in 1..N
  BY DEF EmitState
<1>2. line \in Seq(Token) /\ b \in Nat
  <2>1. line \in Seq(Token)
    BY <1>1
  <2>. HIDE DEF line
  <2>. QED
    BY <2>1, BytesTyped
<1>3. new \in OneWrite
  BY <1>2, EmitLineTyped
<1>4. /\ Len(q) = m + 1 /\ q[m + 1] = new /\ \A k \in 1..m : q[k] = e.writes[k]
  <2>. HIDE DEF new
  <2>. QED
    BY <1>1, <1>3
<1>5. Bytes(H[m + 1]) = Bytes(H[m]) + b /\ Bytes(H[m]) \in Nat
  <2>1. H[m + 1] = H[(m + 1) - 1] \o line
    BY <1>1, Zenon DEF Flat
  <2>2. (m + 1) - 1 = m /\ m \in 0..N
    BY <1>1
  <2>3. H[m] \in Seq(Token)
    BY <2>2 DEF Flat
  <2>. QED
    BY <1>2, <2>1, <2>2, <2>3, BytesOfBoth, BytesTyped
<1>6. /\ c = 30 * m /\ r = Bytes(H[m]) + m
      /\ \A k \in 1..m :
           /\ e.writes[k].line = lines[k] /\ e.writes[k].disp = e.writes[k].str_off - (e.writes[k].code + 30)
           /\ e.writes[k].str_off + Bytes(e.writes[k].line) < r
      /\ \A j, k \in 1..m :
           j < k => e.writes[j].str_off + Bytes(e.writes[j].line) < e.writes[k].str_off
  BY Zenon DEF EmitInv
<1>7. \A k \in 1..m : e.writes[k].str_off \in Nat /\ Bytes(e.writes[k].line) \in Nat
  <2>. TAKE k \in 1..m
  <2>1. e.writes[k] \in OneWrite
    BY <1>1
  <2>2. e.writes[k].str_off \in Nat /\ e.writes[k].line \in Seq(Token)
    BY <2>1 DEF OneWrite
  <2>. QED
    BY <2>2, BytesTyped
<1>8. new.line = line /\ new.code = c /\ new.str_off = r /\ new.disp = r - (c + 30)
  BY DEF WriteOf, WriteLen
<1>9. /\ WithWrite(e, line).code_pos = c + 30 /\ WithWrite(e, line).rodata_pos = r + b + 1
      /\ WithWrite(e, line).writes = q
  BY DEF WithWrite, WriteLen
<1>. DEFINE f == WithWrite(e, line)
<1>. HIDE DEF f, q, new, b, c, r, m, N, line
<1>10. m + 1 <= N /\ f.code_pos = 30 * (m + 1) /\ f.rodata_pos = Bytes(H[m + 1]) + (m + 1)
  <2>. DEFINE x == Bytes(H[m])
              y == Bytes(H[m + 1])
  <2>. HIDE DEF x, y
  <2>1. y = x + b /\ x \in Nat /\ r = x + m /\ c = 30 * m
    BY <1>5, <1>6 DEF x, y
  <2>2. f.code_pos = c + 30 /\ f.rodata_pos = r + b + 1
    BY <1>9 DEF f
  <2>3. m + 1 <= N /\ c + 30 = 30 * (m + 1) /\ r + b + 1 = y + (m + 1)
    BY <1>1, <1>2, <2>1
  <2>. QED
    BY <2>2, <2>3 DEF y
<1>11. ASSUME NEW k \in 1..(m + 1)
       PROVE  /\ q[k].line = lines[k] /\ q[k].disp = q[k].str_off - (q[k].code + 30)
              /\ q[k].str_off + Bytes(q[k].line) < f.rodata_pos
  <2>1. CASE k = m + 1
    <3>1. q[k] = new /\ lines[k] = line /\ Bytes(new.line) = b
      BY <1>4, <1>8, <2>1 DEF line, b
    <3>2. f.rodata_pos = r + b + 1
      BY <1>9 DEF f
    <3>. QED
      BY <1>1, <1>2, <1>8, <3>1, <3>2
  <2>2. CASE k # m + 1
    <3>1. k \in 1..m /\ q[k] = e.writes[k]
      BY <1>1, <1>4, <2>2
    <3>2. f.rodata_pos = r + b + 1
      BY <1>9 DEF f
    <3>3. q[k].str_off + Bytes(q[k].line) < r /\ q[k].str_off \in Nat /\ Bytes(q[k].line) \in Nat
      BY <1>6, <1>7, <3>1
    <3>4. q[k].line = lines[k] /\ q[k].disp = q[k].str_off - (q[k].code + 30)
      BY <1>6, <3>1
    <3>5. q[k].str_off + Bytes(q[k].line) < f.rodata_pos
      BY <1>1, <1>2, <3>2, <3>3
    <3>. QED
      BY <3>4, <3>5
  <2>. QED
    BY <2>1, <2>2
<1>12. ASSUME NEW j \in 1..(m + 1), NEW k \in 1..(m + 1), j < k
       PROVE  q[j].str_off + Bytes(q[j].line) < q[k].str_off
  <2>1. j \in 1..m /\ q[j] = e.writes[j]
    <3>1. j \in 1..m
      BY <1>1, <1>12
    <3>. QED
      BY <1>4, <3>1
  <2>2. CASE k = m + 1
    <3>1. q[k].str_off = r
      BY <1>4, <1>8, <2>2
    <3>. QED
      BY <1>6, <2>1, <3>1
  <2>3. CASE k # m + 1
    <3>1. k \in 1..m
      BY <1>1, <2>3
    <3>2. q[k] = e.writes[k]
      BY <1>4, <3>1
    <3>. QED
      BY <1>6, <1>12, <2>1, <3>1, <3>2
  <2>. QED
    BY <2>2, <2>3
<1>13. f.writes = q /\ Len(f.writes) = m + 1
  BY <1>4, <1>9 DEF f
<1>14. EmitInv(f, lines, H)
  BY <1>10, <1>11, <1>12, <1>13, Zenon DEF EmitInv, N
<1>. QED
  BY <1>14 DEF f, line, m


\* The code has the first lines, all of them or as many as there is room for.
LEMMA EmitHolds ==
  ASSUME NEW lines \in Seq(Seq(Token)), NEW H, Flat(H, lines, Token)
  PROVE  LET e == Emitted(lines)
         IN  /\ e \in EmitState /\ EmitInv(e, lines, H)
             /\ Len(e.writes) = Len(lines) \/ NoRoom(e)
<1>. DEFINE n == Len(lines)
<1>1. PICK u : Emission(u, lines) /\ Emitted(lines) = u[n]
  BY EmitIs
<1>2. n \in Nat /\ \A i \in 1..n : lines[i] \in Seq(Token)
  OBVIOUS
<1>3. u \in [0..n -> EmitState] /\ u[0] = EmitStart /\ \A i \in 1..n : u[i] = EmitLine(u[i - 1], lines[i])
  BY <1>1 DEF Emission
<1>. HIDE DEF n
<1>. DEFINE Known(i) == EmitInv(u[i], lines, H) /\ (Len(u[i].writes) = i \/ (Len(u[i].writes) < i /\ NoRoom(u[i])))
            S == {i \in 0..n : Known(i)}
<1>4. 0 \in S
  <2>1. u[0].code_pos = 0 /\ u[0].rodata_pos = 0 /\ u[0].writes = <<>> /\ Len(u[0].writes) = 0
    BY <1>3 DEF EmitStart
  <2>2. Bytes(H[0]) = 0
    <3>1. H[0] = <<>>
      BY DEF Flat
    <3>. DEFINE z == <<>>
    <3>2. z \in Seq(Token) /\ Len(z) = 0 /\ Fmts(z) = {}
      BY DEF Fmts
    <3>3. Bytes(z) = Len(z) + Cardinality(Fmts(z))
      BY <3>2, BytesTyped
    <3>. HIDE DEF z
    <3>4. Bytes(z) = 0
      BY <3>2, <3>3, FS_EmptySet
    <3>. QED
      BY <3>1, <3>4 DEF z
  <2>3. EmitInv(u[0], lines, H)
    BY <1>2, <2>1, <2>2 DEF EmitInv, n
  <2>4. 0 \in 0..n
    BY <1>2
  <2>. QED
    BY <2>1, <2>3, <2>4
<1>5. ASSUME NEW i \in 0..n, i \in S, i # n PROVE i + 1 \in S
  <2>1. i + 1 \in 1..n /\ i + 1 \in 0..n /\ (i + 1) - 1 = i
    BY <1>2, <1>5
  <2>2. u[i + 1] = IF NoRoom(u[i]) THEN u[i] ELSE WithWrite(u[i], lines[i + 1])
    <3>1. u[i + 1] = EmitLine(u[i], lines[i + 1])
      BY <1>3, <2>1
    <3>. QED
      BY <3>1, EmitLineIs, Zenon
  <2>3. Known(i)
    BY <1>5
  <2>. DEFINE m == Len(u[i].writes)
  <2>4. m \in Nat /\ u[i] \in EmitState
    <3>1. u[i] \in EmitState
      BY <1>3
    <3>. QED
      BY <3>1 DEF EmitState
  <2>5. CASE NoRoom(u[i])
    <3>1. u[i + 1] = u[i]
      BY <2>2, <2>5, Zenon
    <3>2. m < i + 1
      <4>1. m = i \/ m < i
        BY <2>3
      <4>. HIDE DEF m
      <4>. QED
        BY <2>1, <2>4, <4>1
    <3>3. Known(i + 1)
      BY <2>3, <2>5, <3>1, <3>2
    <3>. QED
      BY <2>1, <3>3
  <2>6. CASE ~NoRoom(u[i])
    <3>1. m = i
      BY <2>3, <2>6
    <3>2. u[i + 1] = WithWrite(u[i], lines[m + 1])
      BY <2>2, <2>6, <3>1
    <3>3. EmitInv(u[i + 1], lines, H)
      <4>1. m < n /\ EmitInv(u[i], lines, H)
        BY <1>2, <2>3, <3>1, <1>5
      <4>2. EmitInv(WithWrite(u[i], lines[m + 1]), lines, H)
        BY <2>4, <4>1, WithWriteKeeps DEF n
      <4>. QED
        BY <3>2, <4>2
    <3>4. Len(u[i + 1].writes) = i + 1
      <4>. DEFINE line == lines[m + 1]
      <4>1. line \in Seq(Token)
        BY <1>2, <2>1, <3>1
      <4>. HIDE DEF line
      <4>2. WriteOf(u[i], line) \in OneWrite /\ u[i].writes \in Seq(OneWrite)
        BY <2>4, <4>1, EmitLineTyped DEF EmitState
      <4>. DEFINE w == WriteOf(u[i], line)
                  ws == u[i].writes
      <4>3. u[i + 1].writes = Append(ws, w)
        BY <3>2 DEF WithWrite, line
      <4>4. ws \in Seq(OneWrite) /\ w \in OneWrite /\ Len(ws) = i
        BY <3>1, <4>2
      <4>. HIDE DEF w, ws
      <4>. QED
        BY <4>3, <4>4
    <3>5. Known(i + 1)
      BY <3>3, <3>4
    <3>. QED
      BY <2>1, <3>5
  <2>. QED
    BY <2>5, <2>6
<1>6. \A i \in 0..n : i \in S
  <2>. HIDE DEF S
  <2>. QED
    BY <1>2, <1>4, <1>5, UpToN
<1>7. n \in 0..n
  BY <1>2
<1>8. Known(n) /\ u[n] \in EmitState
  BY <1>3, <1>6, <1>7
<1>. QED
  BY <1>1, <1>8 DEF n

\* Every line is written where there is room for all of them.
LEMMA EmitsAll ==
  ASSUME NEW lines \in Seq(Seq(Token)), NEW H, Flat(H, lines, Token),
         Bytes(H[Len(lines)]) + Len(lines) + LineRoom < BufCapacity,
         Len(lines) * WriteLen + CodeRoom < BufCapacity
  PROVE  Len(Emitted(lines).writes) = Len(lines)
<1>. DEFINE e == Emitted(lines)
            n == Len(lines)
            m == Len(e.writes)
<1>1. e \in EmitState /\ EmitInv(e, lines, H) /\ (m = n \/ NoRoom(e))
  BY EmitHolds
<1>. HIDE DEF e
<1>2. m \in Nat /\ n \in Nat
  BY <1>1 DEF EmitState
<1>3. m <= n /\ e.code_pos = 30 * m /\ e.rodata_pos = Bytes(H[m]) + m
  BY <1>1 DEF EmitInv
<1>. HIDE DEF m, n
<1>4. Bytes(H[m]) <= Bytes(H[n]) /\ Bytes(H[m]) \in Nat /\ Bytes(H[n]) \in Nat
  <2>1. m \in 0..n /\ n \in 0..n
    BY <1>2, <1>3
  <2>2. H[m] \in Seq(Token) /\ H[n] \in Seq(Token)
    BY <2>1 DEF Flat, n
  <2>3. Begins(H[m], H[n])
    BY <1>3, <2>1, FlatGrows DEF n
  <2>. QED
    BY <2>2, <2>3, BytesGrow, BytesTyped
<1>. DEFINE a == Bytes(H[m])
            b == Bytes(H[n])
<1>5. a \in Nat /\ b \in Nat /\ a <= b /\ e.rodata_pos = a + m
  BY <1>3, <1>4
<1>6. b + n + LineRoom < BufCapacity /\ n * 30 + 64 < BufCapacity
  BY DEF b, n, WriteLen, CodeRoom
<1>7. LineRoom \in Nat /\ BufCapacity \in Nat
  BY CompilerAssumption
<1>. HIDE DEF a, b
<1>8. ~(30 * m + 64 >= BufCapacity) /\ ~(a + m + LineRoom >= BufCapacity)
  BY <1>2, <1>3, <1>5, <1>6, <1>7
<1>9. ~NoRoom(e)
  BY <1>3, <1>5, <1>8 DEF NoRoom, CodeRoom
<1>10. m = n
  BY <1>1, <1>9, Zenon DEF m, n
<1>. QED
  BY <1>10 DEF m, n, e

\* The lines of all prints.
LinesOf(prints) == [k \in DOMAIN prints |-> Lines(prints[k])]

\* Each print has its lines.
LEMMA LinesOfTyped ==
  ASSUME NEW prints \in Seq(OnePrint)
  PROVE  /\ LinesOf(prints) \in Seq(Seq(Seq(Token))) /\ Len(LinesOf(prints)) = Len(prints)
         /\ \A k \in 1..Len(prints) : LinesOf(prints)[k] = Lines(prints[k])
<1>1. DOMAIN prints = 1..Len(prints) /\ Len(prints) \in Nat /\ \A k \in 1..Len(prints) : prints[k] \in OnePrint
  OBVIOUS
<1>2. LinesOf(prints) \in [1..Len(prints) -> Seq(Seq(Token))]
  BY <1>1, LinesTyped DEF LinesOf
<1>3. LinesOf(prints) \in Seq(Seq(Seq(Token))) /\ Len(LinesOf(prints)) = Len(prints)
  <2>. DEFINE n == Len(prints)
  <2>1. n \in Int /\ n \in Nat /\ LinesOf(prints) \in [1..n -> Seq(Seq(Token))]
    BY <1>1, <1>2
  <2>. HIDE DEF n
  <2>2. LinesOf(prints) \in Seq(Seq(Seq(Token))) /\ Len(LinesOf(prints)) = n
    BY <2>1, RowTyped
  <2>. QED
    BY <2>2 DEF n
<1>. QED
  BY <1>1, <1>3 DEF LinesOf

\* What StringsPlaced says of a program.
LaidApart(image) ==
  LET w == image.writes
  IN  /\ \A k \in DOMAIN w : w[k].reads = w[k].str - (WriteLen - LeaEnd)
      /\ \A j, k \in DOMAIN w : j < k => w[j].str + Bytes(w[j].line) < w[k].str
      /\ \A k \in DOMAIN w : TextOffset + w[k].str + Bytes(w[k].line) < image.size

MadeBy(image) == [k \in DOMAIN image.writes |-> image.writes[k].line]

\* The program that is compiled for lines writes the first of them.
CompiledTo(image, lines, ret_code) ==
  LET made == MadeBy(image)
  IN  /\ LaidApart(image) /\ image.ret_code = ret_code
      /\ lines \in Seq(Seq(Token))
      /\ made \in Seq(Seq(Token)) /\ Len(made) = Len(Emitted(lines).writes)
      /\ Len(made) <= Len(lines) /\ \A k \in 1..Len(made) : made[k] = lines[k]

\* What is compiled writes the first of the lines, from strings that lie apart.
LEMMA CompiledHolds ==
  ASSUME NEW prints \in Seq(OnePrint), NEW ret_code, NEW lines,
         lines = FlattenSeq(LinesOf(prints))
  PROVE  CompiledTo(emit_elf64_binary(prints, ret_code), lines, ret_code)
<1>. DEFINE e == Emitted(lines)
            code == Padded(e.code_pos + ExitLen)
            image == emit_elf64_binary(prints, ret_code)
            w == [k \in DOMAIN e.writes |->
                    [line |-> e.writes[k].line, str |-> code + e.writes[k].str_off,
                     reads |-> e.writes[k].code + LeaEnd + e.writes[k].disp + StringsAt(e.code_pos)]]
            m == Len(e.writes)
<1>1. PICK F : Flat(F, LinesOf(prints), Seq(Token))
  <2>1. LinesOf(prints) \in Seq(Seq(Seq(Token)))
    BY LinesOfTyped
  <2>. QED
    BY <2>1, FlatExists
<1>2. lines \in Seq(Seq(Token))
  <2>1. LinesOf(prints) \in Seq(Seq(Seq(Token)))
    BY LinesOfTyped
  <2>2. lines = F[Len(LinesOf(prints))]
    BY <1>1, <2>1, FlattenIs
  <2>3. Len(LinesOf(prints)) \in 0..Len(LinesOf(prints))
    BY <2>1
  <2>. QED
    BY <1>1, <2>2, <2>3 DEF Flat
<1>3. PICK H : Flat(H, lines, Token)
  BY <1>2, FlatExists
<1>4. e \in EmitState /\ EmitInv(e, lines, H)
  BY <1>2, <1>3, EmitHolds
<1>5. image = [writes |-> w, ret_code |-> ret_code, size |-> TextOffset + code + e.rodata_pos]
  BY Zenon DEF emit_elf64_binary, LinesOf
<1>6. image.writes = w /\ image.ret_code = ret_code /\ image.size = TextOffset + code + e.rodata_pos
  <2>. HIDE DEF w, code, e, image
  <2>. QED
    BY <1>5
<1>. HIDE DEF e, image
<1>7. m \in Nat /\ DOMAIN e.writes = 1..m /\ e.writes \in Seq(OneWrite)
      /\ e.rodata_pos \in Nat /\ e.code_pos \in Nat
  BY <1>4 DEF EmitState
<1>8. /\ m <= Len(lines)
      /\ \A k \in 1..m :
           /\ e.writes[k].line = lines[k]
           /\ e.writes[k].disp = e.writes[k].str_off - (e.writes[k].code + 30)
           /\ e.writes[k].str_off + Bytes(e.writes[k].line) < e.rodata_pos
      /\ \A j, k \in 1..m :
           j < k => e.writes[j].str_off + Bytes(e.writes[j].line) < e.writes[k].str_off
  BY <1>4, Zenon DEF EmitInv
<1>9. \A k \in 1..m :
        /\ e.writes[k].str_off \in Nat /\ Bytes(e.writes[k].line) \in Nat /\ e.writes[k].code \in Nat
        /\ e.writes[k].line \in Seq(Token)
  <2>. TAKE k \in 1..m
  <2>1. e.writes[k] \in OneWrite
    BY <1>7
  <2>2. /\ e.writes[k].str_off \in Nat /\ e.writes[k].line \in Seq(Token) /\ e.writes[k].code \in Nat
    BY <2>1 DEF OneWrite
  <2>. QED
    BY <2>2, BytesTyped
<1>10. code \in Int /\ StringsAt(e.code_pos) = code
  <2>1. StringsAt(e.code_pos) = code
    BY Zenon DEF StringsAt
  <2>2. \A x \in Nat : ((x + 15) \div 16) * 16 \in Int
    OBVIOUS
  <2>3. e.code_pos + 16 \in Nat
    BY <1>7
  <2>. QED
    BY <2>1, <2>2, <2>3 DEF Padded, ExitLen
<1>. HIDE DEF code
<1>11. /\ DOMAIN w = 1..m
       /\ \A k \in 1..m :
            /\ w[k].line = e.writes[k].line /\ w[k].str = code + e.writes[k].str_off
            /\ w[k].reads = e.writes[k].code + 21 + e.writes[k].disp + code
  BY <1>7, <1>10 DEF LeaEnd
<1>. HIDE DEF w
<1>12. LaidApart(image)
  <2>1. ASSUME NEW k \in 1..m PROVE w[k].reads = w[k].str - (WriteLen - LeaEnd)
    <3>. DEFINE c == e.writes[k].code
                s == e.writes[k].str_off
                d == e.writes[k].disp
    <3>1. c \in Nat /\ s \in Nat /\ d = s - (c + 30)
      BY <1>8, <1>9
    <3>2. w[k].reads = c + 21 + d + code /\ w[k].str = code + s
      BY <1>11
    <3>. HIDE DEF c, s, d
    <3>. DEFINE gap == WriteLen - LeaEnd
                x == w[k].reads
                y == w[k].str
    <3>3. gap = 9
      BY DEF WriteLen, LeaEnd
    <3>. HIDE DEF gap, x, y
    <3>4. x = c + 21 + d + code /\ y = code + s
      BY <3>2, Zenon DEF x, y
    <3>5. x = y - gap
      BY <1>10, <3>1, <3>3, <3>4
    <3>. QED
      BY <3>5, Zenon DEF gap, x, y
  <2>2. ASSUME NEW j \in 1..m, NEW k \in 1..m, j < k
        PROVE  w[j].str + Bytes(w[j].line) < w[k].str
    <3>1. e.writes[j].str_off + Bytes(e.writes[j].line) < e.writes[k].str_off
      BY <1>8, <2>2
    <3>2. w[j].line = e.writes[j].line /\ w[j].str = code + e.writes[j].str_off
          /\ w[k].str = code + e.writes[k].str_off
      BY <1>11
    <3>3. /\ e.writes[j].str_off \in Nat /\ e.writes[k].str_off \in Nat
          /\ Bytes(e.writes[j].line) \in Nat
      BY <1>9
    <3>. DEFINE p == e.writes[j].str_off
                q == e.writes[k].str_off
                b == Bytes(e.writes[j].line)
                x == w[j].str
                y == w[k].str
    <3>4. b = Bytes(w[j].line) /\ x = code + p /\ y = code + q
      BY <3>2, Zenon
    <3>. HIDE DEF p, q, b, x, y
    <3>5. p + b < q /\ p \in Nat /\ q \in Nat /\ b \in Nat
      BY <3>1, <3>3, Zenon DEF p, q, b
    <3>6. x + b < y
      BY <1>10, <3>4, <3>5
    <3>. QED
      BY <3>4, <3>6, Zenon DEF x, y
  <2>3. ASSUME NEW k \in 1..m PROVE TextOffset + w[k].str + Bytes(w[k].line) < image.size
    <3>1. w[k].line = e.writes[k].line /\ w[k].str = code + e.writes[k].str_off
      BY <1>11
    <3>2. e.writes[k].str_off + Bytes(e.writes[k].line) < e.rodata_pos
      BY <1>8
    <3>3. e.writes[k].str_off \in Nat /\ Bytes(e.writes[k].line) \in Nat
      BY <1>9
    <3>. DEFINE p == e.writes[k].str_off
                b == Bytes(e.writes[k].line)
                r == e.rodata_pos
                x == w[k].str
                z == image.size
    <3>4. b = Bytes(w[k].line) /\ x = code + p /\ z = TextOffset + code + r
      BY <1>6, <3>1, Zenon
    <3>. HIDE DEF p, b, r, x, z
    <3>5. p + b < r /\ p \in Nat /\ b \in Nat /\ r \in Nat
      BY <1>7, <3>2, <3>3, Zenon DEF p, b, r
    <3>6. TextOffset + x + b < z
      BY <1>10, <3>4, <3>5 DEF TextOffset
    <3>. QED
      BY <3>4, <3>6, Zenon DEF x, z
  <2>. QED
    BY <1>6, <1>11, <2>1, <2>2, <2>3, Zenon DEF LaidApart
<1>. DEFINE made == [k \in DOMAIN image.writes |-> image.writes[k].line]
<1>13. made \in Seq(Seq(Token)) /\ Len(made) = m /\ \A k \in 1..m : made[k] = lines[k]
  <2>1. made = [k \in 1..m |-> w[k].line]
    BY <1>6, <1>11
  <2>2. \A k \in 1..m : w[k].line \in Seq(Token) /\ w[k].line = lines[k]
    BY <1>8, <1>9, <1>11
  <2>. HIDE DEF made
  <2>3. made \in [1..m -> Seq(Token)] /\ \A k \in 1..m : made[k] = lines[k]
    BY <2>1, <2>2
  <2>4. m \in Int /\ ~(m < 0)
    BY <1>7
  <2>5. made \in Seq(Seq(Token)) /\ Len(made) = m
    <3>. HIDE DEF m
    <3>. QED
      BY <2>3, <2>4, RowTyped
  <2>. QED
    BY <2>3, <2>5
<1>14. Len(made) <= Len(lines) /\ Len(made) = Len(Emitted(lines).writes)
  BY <1>8, <1>13 DEF e
<1>. HIDE DEF made
<1>15. \A k \in 1..Len(made) : made[k] = lines[k]
  BY <1>13, Zenon
<1>. QED
  BY <1>2, <1>6, <1>12, <1>13, <1>14, <1>15, Zenon DEF CompiledTo, MadeBy, image, made

-----------------------------------------------------------------------------
(* The compiler.  Programs that keep to what it is made for.               *)

\* Tokens after which there are the same prints, and no new loop.
Quiet == {"quote", "chr", "fmt", "num", "newline", "rbrace", "endl", "semicolon"}

Keeps(st, new) ==
  /\ new.prints = st.prints /\ new.ret_code = st.ret_code
  /\ new.in_loop => st.in_loop /\ new.loop_depth <= st.loop_depth

\* A quiet token adds no print, begins no loop and opens no brace.
LEMMA QuietStep ==
  ASSUME NEW st \in ParseState, NEW src, NEW i, src[i].t \in Quiet
  PROVE  LET new == ParseStep(st, src, i)
         IN  Keeps(st, new) /\ (src[i].t = "rbrace" /\ new.in_loop => st.loop_depth > 1)
<1>. DEFINE t == src[i].t
            l == Looped(st, src, i)
            d == IF st.loop_depth > 0 THEN st.loop_depth - 1 ELSE 0
            b == st.loop_depth > 1
            closed == [st EXCEPT !.loop_depth = d, !.in_loop = b]
<1>1. t \notin {"printf", "puts", "cout", "return", "for", "lbrace"}
  BY DEF Quiet
<1>2. ParseStep(st, src, i) = l
  BY <1>1, ParseStepIs, Zenon
<1>3. l = IF ~st.in_loop THEN st ELSE IF t = "rbrace" THEN closed ELSE st
  BY <1>1, Zenon DEF Looped
<1>. HIDE DEF t, l
<1>4. st.loop_depth \in Nat /\ st.in_loop \in BOOLEAN
  BY DEF ParseState
<1>5. d \in Nat /\ d <= st.loop_depth
  BY <1>4
<1>6. /\ closed.prints = st.prints /\ closed.ret_code = st.ret_code /\ closed.loop_depth = d
      /\ closed.in_loop = b
  <2>. HIDE DEF d, b
  <2>. QED
    BY DEF ParseState
<1>. HIDE DEF closed, d
<1>7. CASE st.in_loop /\ t = "rbrace"
  <2>1. l = closed
    BY <1>3, <1>7, Zenon
  <2>2. Keeps(st, l)
    BY <1>5, <1>6, <1>7, <2>1 DEF Keeps
  <2>3. l.in_loop => st.loop_depth > 1
    BY <1>6, <2>1
  <2>. QED
    BY <1>2, <2>2, <2>3, Zenon DEF t, l
<1>8. CASE ~(st.in_loop /\ t = "rbrace")
  <2>1. l = st
    BY <1>3, <1>8, Zenon
  <2>2. Keeps(st, st)
    BY <1>4 DEF Keeps
  <2>3. t = "rbrace" => ~st.in_loop
    BY <1>8, Zenon
  <2>. QED
    BY <1>2, <2>1, <2>2, <2>3, Zenon DEF t, l
<1>. QED
  BY <1>7, <1>8, Zenon

\* So are all the tokens from one to another.
LEMMA QuietRuns ==
  ASSUME NEW src \in Seq(Token), NEW u, Parsing(u, src), NEW a \in Nat, NEW d \in Nat,
         a + d <= Len(src), \A x \in 1..d : src[a + x].t \in Quiet
  PROVE  Keeps(u[a], u[a + d])
<1>. DEFINE n == Len(src)
            S == {x \in 0..d : Keeps(u[a], u[a + x])}
<1>1. n \in Nat /\ a + d <= n
  OBVIOUS
<1>2. u \in [0..n -> ParseState] /\ \A i \in 1..n : u[i] = ParseStep(u[i - 1], src, i)
  BY DEF Parsing
<1>. HIDE DEF n
<1>3. \A i \in 0..n : u[i].loop_depth \in Nat
  BY <1>2 DEF ParseState
<1>4. 0 \in S
  <2>1. a + 0 = a /\ a \in 0..n /\ 0 \in 0..d
    BY <1>1
  <2>2. Keeps(u[a], u[a])
    BY <1>3, <2>1 DEF Keeps
  <2>. QED
    BY <2>1, <2>2
<1>5. ASSUME NEW x \in 0..d, x \in S, x # d PROVE x + 1 \in S
  <2>1. /\ a + x \in 0..n /\ a + (x + 1) \in 1..n /\ (a + (x + 1)) - 1 = a + x /\ x + 1 \in 1..d
        /\ x + 1 \in 0..d /\ a \in 0..n /\ a + (x + 1) \in 0..n
    BY <1>1, <1>5
  <2>. DEFINE p == a + x
              q == a + (x + 1)
  <2>2. u[q] = ParseStep(u[p], src, q)
    BY <1>2, <2>1
  <2>3. src[q].t \in Quiet /\ u[p] \in ParseState
    BY <1>2, <2>1
  <2>4. Keeps(u[a], u[p])
    BY <1>5
  <2>5. u[a].loop_depth \in Nat /\ u[p].loop_depth \in Nat /\ u[q].loop_depth \in Nat
    BY <1>3, <2>1
  <2>. HIDE DEF p, q
  <2>6. Keeps(u[p], u[q])
    BY <2>2, <2>3, QuietStep
  <2>7. Keeps(u[a], u[q])
    <3>1. u[q].in_loop => u[q].loop_depth <= u[p].loop_depth /\ u[p].loop_depth <= u[a].loop_depth
      BY <2>4, <2>6, Zenon DEF Keeps
    <3>2. u[q].in_loop => u[q].loop_depth <= u[a].loop_depth
      BY <2>5, <3>1
    <3>. QED
      BY <2>4, <2>6, <3>2, Zenon DEF Keeps
  <2>. QED
    BY <2>1, <2>7 DEF q
<1>6. \A x \in 0..d : x \in S
  <2>. HIDE DEF S
  <2>. QED
    BY <1>4, <1>5, UpToN
<1>. QED
  BY <1>6

\* The words of w are in the source from there on.
At(src, o, w) == o + Len(w) <= Len(src) /\ \A x \in 1..Len(w) : src[o + x] = w[x]

\* Where two parts put together are in the source, each of them is.
LEMMA AtBoth ==
  ASSUME NEW src \in Seq(Token), NEW a \in Seq(Token), NEW b \in Seq(Token), NEW o \in Nat,
         At(src, o, a \o b)
  PROVE  At(src, o, a) /\ At(src, o + Len(a), b) /\ Len(a \o b) = Len(a) + Len(b)
<1>. DEFINE u == a \o b
            p == Len(a)
            q == Len(b)
            n == Len(src)
<1>1. p \in Nat /\ q \in Nat /\ n \in Nat /\ Len(u) = p + q
  BY ConcatProperties
<1>2. (\A k \in 1..p : u[k] = a[k]) /\ (\A k \in 1..q : u[p + k] = b[k])
  <2>1. \A k \in 1..p : u[k] = a[k]
    BY ConcatProperties
  <2>2. \A k \in 1..q : u[p + k] = b[k]
    <3>1. \A k \in (Len(a) + 1)..(Len(a) + Len(b)) : u[k] = b[k - Len(a)]
      BY ConcatProperties
    <3>. HIDE DEF u
    <3>. TAKE k \in 1..q
    <3>2. p + k \in (p + 1)..(p + q) /\ p + k - p = k
      BY <1>1
    <3>. QED
      BY <3>1, <3>2
  <2>. QED
    BY <2>1, <2>2
<1>3. o + (p + q) <= n /\ \A x \in 1..(p + q) : src[o + x] = u[x]
  BY <1>1 DEF At
<1>. HIDE DEF u, p, q, n
<1>4. o + p <= n /\ \A x \in 1..p : src[o + x] = a[x]
  BY <1>1, <1>2, <1>3
<1>5. (o + p) + q <= n
  BY <1>1, <1>3
<1>6. ASSUME NEW x \in 1..q PROVE src[(o + p) + x] = b[x]
  <2>1. p + x \in 1..(p + q) /\ o + (p + x) = (o + p) + x
    BY <1>1
  <2>. QED
    BY <1>2, <1>3, <2>1
<1>7. At(src, o, a) /\ At(src, o + p, b)
  BY <1>4, <1>5, <1>6 DEF At, p, q, n
<1>. QED
  BY <1>1, <1>7 DEF p, q, u

\* A token is of the kind it was made of.
LEMMA TokIs ==
  \A t \in Kinds : Tok(t) \in Token /\ Tok(t).t = t
<1>. TAKE t \in Kinds
<1>1. Tok(t) = [t |-> t, n |-> 0, m |-> 0]
  BY Zenon DEF Tok
<1>. QED
  BY <1>1 DEF Token

\* A statement ends with endl if it has one, a semicolon and its brace.
LEMMA ClosingIs ==
  ASSUME NEW s \in Statement
  PROVE  LET c == Closing(s)
         IN  /\ c \in Seq(Token) /\ Len(c) \in Nat /\ Len(c) >= 1
             /\ \A x \in 1..Len(c) : c[x].t \in {"endl", "semicolon", "rbrace"}
             /\ IF s.endl THEN Len(c) >= 2 /\ c[1].t = "endl" /\ c[2].t = "semicolon" ELSE c[1].t = "semicolon"
             /\ s.loop /\ s.braces => c[Len(c)].t = "rbrace"
<1>. DEFINE e == Tok("endl")
            f == Tok("semicolon")
            g == Tok("rbrace")
            a == IF s.endl THEN <<e>> ELSE <<>>
            b == IF s.loop /\ s.braces THEN <<f, g>> ELSE <<f>>
            p == Len(a)
            q == Len(b)
            c == a \o b
<1>1. e \in Token /\ f \in Token /\ g \in Token /\ e.t = "endl" /\ f.t = "semicolon" /\ g.t = "rbrace"
  BY TokIs DEF Kinds
<1>2. Closing(s) = c
  BY Zenon DEF Closing
<1>. HIDE DEF e, f, g
<1>0. s.endl \in BOOLEAN
  BY DEF Statement
<1>3. /\ a \in Seq(Token) /\ p \in {0, 1} /\ (p = 1 <=> s.endl) /\ \A x \in 1..p : a[x].t = "endl"
  <2>1. s.endl => a = <<e>>
    BY Zenon
  <2>2. ~s.endl => a = <<>>
    BY Zenon
  <2>. HIDE DEF a
  <2>3. CASE s.endl
    <3>0. a = <<e>>
      BY <2>1, <2>3, Zenon
    <3>1. a \in Seq(Token) /\ p = 1 /\ a[1] = e
      BY <1>1, <3>0
    <3>. QED
      BY <1>1, <2>3, <3>1
  <2>4. CASE ~s.endl
    <3>0. a = <<>>
      BY <2>2, <2>4, Zenon
    <3>1. a \in Seq(Token) /\ p = 0
      BY <3>0
    <3>. QED
      BY <2>4, <3>1
  <2>. QED
    BY <2>3, <2>4
<1>4. /\ b \in Seq(Token) /\ q \in {1, 2} /\ b[1].t = "semicolon" /\ (s.loop /\ s.braces => q = 2)
      /\ (q = 2 => b[2].t = "rbrace")
  <2>1. s.loop /\ s.braces => b = <<f, g>>
    BY Zenon
  <2>2. ~(s.loop /\ s.braces) => b = <<f>>
    BY Zenon
  <2>. HIDE DEF b
  <2>3. CASE s.loop /\ s.braces
    <3>0. b = <<f, g>>
      BY <2>1, <2>3, Zenon
    <3>1. b \in Seq(Token) /\ q = 2 /\ b[1] = f /\ b[2] = g
      BY <1>1, <3>0
    <3>. QED
      BY <1>1, <2>3, <3>1
  <2>4. CASE ~(s.loop /\ s.braces)
    <3>0. b = <<f>>
      BY <2>2, <2>4, Zenon
    <3>1. b \in Seq(Token) /\ q = 1 /\ b[1] = f
      BY <1>1, <3>0
    <3>. QED
      BY <1>1, <2>4, <3>1
  <2>. QED
    BY <2>3, <2>4
<1>. HIDE DEF a, b
<1>5. /\ c \in Seq(Token) /\ Len(c) = p + q /\ (\A x \in 1..p : c[x] = a[x])
      /\ \A x \in (p + 1)..(p + q) : c[x] = b[x - p]
  BY <1>3, <1>4, ConcatProperties
<1>. HIDE DEF c, p, q
<1>6. \A x \in 1..q : c[p + x] = b[x]
  <2>. TAKE x \in 1..q
  <2>1. p + x \in (p + 1)..(p + q) /\ (p + x) - p = x
    BY <1>3, <1>4
  <2>. QED
    BY <1>5, <2>1
<1>7. p + q \in Nat /\ p + q >= 1
  BY <1>3, <1>4
<1>8. c[p + 1].t = "semicolon" /\ (p = 1 => c[1].t = "endl") /\ (q = 2 => c[p + 2].t = "rbrace")
  BY <1>3, <1>4, <1>5, <1>6
<1>9. \A x \in 1..(p + q) : c[x].t \in {"endl", "semicolon", "rbrace"}
  <2>. TAKE x \in 1..(p + q)
  <2>1. x = p + 1 \/ (x = 1 /\ p = 1) \/ (q = 2 /\ x = p + 2)
    BY <1>3, <1>4
  <2>. QED
    BY <1>8, <2>1
<1>10. IF s.endl THEN p + q >= 2 /\ c[1].t = "endl" /\ c[2].t = "semicolon" ELSE c[1].t = "semicolon"
  BY <1>3, <1>4, <1>8
<1>11. s.loop /\ s.braces => c[p + q].t = "rbrace"
  BY <1>4, <1>8
<1>. QED
  BY <1>2, <1>5, <1>7, <1>9, <1>10, <1>11

\* A loop begins with its header and its brace, another statement with nothing.
LEMMA OpeningIs ==
  ASSUME NEW s \in Statement
  PROVE  /\ Opening(s) \in Seq(Token)
         /\ ~s.loop => Opening(s) = <<>>
         /\ s.loop =>
              /\ Len(Opening(s)) = IF s.braces THEN 2 ELSE 1
              /\ Opening(s)[1] = [t |-> "for", n |-> s.from, m |-> s.to]
              /\ s.braces => Opening(s)[2].t = "lbrace"
<1>. DEFINE kind == "for"
            for == [t |-> kind, n |-> s.from, m |-> s.to]
            brace == Tok("lbrace")
<1>1. kind \in Kinds
  BY DEF Kinds
<1>2. for \in Token
  <2>1. s.from \in Nat /\ s.to \in Nat
    BY DEF Statement
  <2>. HIDE DEF kind
  <2>. QED
    BY <1>1, <2>1 DEF Token
<1>3. brace \in Token /\ brace.t = "lbrace"
  BY TokIs DEF Kinds
<1>4. Opening(s) = IF ~s.loop THEN <<>> ELSE IF s.braces THEN <<for, brace>> ELSE <<for>>
  BY Zenon DEF Opening
<1>. HIDE DEF for, brace
<1>5. /\ Opening(s) \in Seq(Token)
      /\ ~s.loop => Opening(s) = <<>>
      /\ s.loop =>
           /\ Len(Opening(s)) = IF s.braces THEN 2 ELSE 1
           /\ Opening(s)[1] = for /\ (s.braces => Opening(s)[2] = brace)
  <2>1. CASE ~s.loop
    <3>1. Opening(s) = <<>>
      BY <1>4, <2>1, Zenon
    <3>. QED
      BY <2>1, <3>1
  <2>2. CASE s.loop /\ s.braces
    <3>1. Opening(s) = <<for, brace>>
      BY <1>4, <2>2, Zenon
    <3>. QED
      BY <1>2, <1>3, <2>2, <3>1
  <2>3. CASE s.loop /\ ~s.braces
    <3>1. Opening(s) = <<for>>
      BY <1>4, <2>3, Zenon
    <3>. QED
      BY <1>2, <2>3, <3>1
  <2>. QED
    BY <2>1, <2>2, <2>3, Zenon
<1>. QED
  BY <1>3, <1>5, Zenon DEF for, brace

\* A statement's tokens are tokens.
LEMMA RenderedIs ==
  ASSUME NEW s \in Statement
  PROVE  Rendered(s) \in Seq(Token)
<1>. DEFINE a == Opening(s)
            b == <<Tok(s.call), Quote>>
            c == s.text
            d == <<Quote>>
            e == Closing(s)
<1>1. a \in Seq(Token) /\ c \in Seq(Token) /\ e \in Seq(Token)
  BY OpeningIs, ClosingIs DEF Statement
<1>2. b \in Seq(Token) /\ d \in Seq(Token)
  <2>1. s.call \in Kinds /\ "quote" \in Kinds
    BY DEF Statement, Kinds
  <2>2. Tok(s.call) \in Token /\ Quote \in Token
    BY <2>1, TokIs DEF Quote
  <2>. QED
    BY <2>2
<1>3. Rendered(s) = (((a \o b) \o c) \o d) \o e
  BY Zenon DEF Rendered
<1>. HIDE DEF a, b, c, d, e
<1>4. a \o b \in Seq(Token)
  BY <1>1, <1>2, ConcatProperties
<1>5. (a \o b) \o c \in Seq(Token)
  BY <1>1, <1>4, ConcatProperties
<1>6. ((a \o b) \o c) \o d \in Seq(Token)
  BY <1>2, <1>5, ConcatProperties
<1>7. (((a \o b) \o c) \o d) \o e \in Seq(Token)
  BY <1>1, <1>6, ConcatProperties
<1>. QED
  BY <1>3, <1>7

\* There is no room for one more print.
Full(st) == Len(st.prints) >= MaxPrints

\* The text of the print that a statement becomes.
SaidBy(s) == IF s.endl THEN Append(s.text, Newline) ELSE s.text

\* A header begins a loop between its bounds.
LEMMA ForStep ==
  ASSUME NEW st \in ParseState, NEW src, NEW i, NEW s \in Statement,
         src[i] = [t |-> "for", n |-> s.from, m |-> s.to]
  PROVE  LET l == ParseStep(st, src, i)
         IN  /\ l.prints = st.prints /\ l.ret_code = st.ret_code /\ l.in_loop /\ l.loop_depth = 0
             /\ l.start = s.from /\ l.end = s.to
<1>1. src[i].t = "for" /\ src[i].n = s.from /\ src[i].m = s.to
  OBVIOUS
<1>2. src[i].t \notin {"printf", "puts", "cout", "return"}
  BY <1>1
<1>3. ParseStep(st, src, i) = Looped(st, src, i)
  BY <1>2, ParseStepIs, Zenon
<1>4. Looped(st, src, i) =
        [st EXCEPT !.in_loop = TRUE, !.loop_depth = 0, !.start = s.from, !.end = s.to]
  BY <1>1, Zenon DEF Looped
<1>. DEFINE l == Looped(st, src, i)
<1>5. /\ l.prints = st.prints /\ l.ret_code = st.ret_code /\ l.in_loop = TRUE /\ l.loop_depth = 0
      /\ l.start = s.from /\ l.end = s.to
  <2>. HIDE DEF l
  <2>. QED
    BY <1>4 DEF ParseState, l
<1>. QED
  BY <1>3, <1>5, Zenon

\* An opening brace in a loop goes one deeper.
LEMMA BraceStep ==
  ASSUME NEW st \in ParseState, NEW src, NEW i, src[i].t = "lbrace", st.in_loop
  PROVE  ParseStep(st, src, i) = [st EXCEPT !.loop_depth = st.loop_depth + 1]
<1>1. src[i].t \notin {"printf", "puts", "cout", "return"} /\ src[i].t # "for"
  OBVIOUS
<1>2. ParseStep(st, src, i) = Looped(st, src, i)
  BY <1>1, ParseStepIs, Zenon
<1>. QED
  BY <1>1, <1>2, Zenon DEF Looped

\* What comes before a print starts the loop, if there is one.
LEMMA OpeningRuns ==
  ASSUME NEW src \in Seq(Token), NEW u, Parsing(u, src), NEW s \in Statement, NEW o \in Nat,
         At(src, o, Opening(s))
  PROVE  LET st == u[o]
             l == u[o + Len(Opening(s))]
         IN  /\ l.prints = st.prints /\ l.ret_code = st.ret_code
             /\ ~s.loop => l = st
             /\ s.loop => /\ l.in_loop /\ l.start = s.from /\ l.end = s.to
                          /\ l.loop_depth = IF s.braces THEN 1 ELSE 0
<1>. DEFINE n == Len(src)
            a == Opening(s)
            st == u[o]
<1>1. n \in Nat /\ u \in [0..n -> ParseState] /\ \A i \in 1..n : u[i] = ParseStep(u[i - 1], src, i)
  BY DEF Parsing
<1>2. a \in Seq(Token) /\ o + Len(a) <= n /\ \A x \in 1..Len(a) : src[o + x] = a[x]
  BY OpeningIs DEF At
<1>3. s.loop \in BOOLEAN /\ s.braces \in BOOLEAN
  BY DEF Statement
<1>4. CASE ~s.loop
  <2>1. Len(a) = 0
    <3>1. a = <<>>
      BY <1>4, OpeningIs
    <3>. HIDE DEF a
    <3>. QED
      BY <3>1
  <2>2. o + Len(a) = o
    BY <2>1
  <2>. QED
    BY <1>4, <2>2
<1>5. CASE s.loop
  <2>. DEFINE m == Len(a)
  <2>1. (m = IF s.braces THEN 2 ELSE 1) /\ a[1] = [t |-> "for", n |-> s.from, m |-> s.to]
        /\ (s.braces => a[2].t = "lbrace")
    BY <1>5, OpeningIs
  <2>. HIDE DEF m, a, n
  <2>2. o + 1 \in 1..n /\ (o + 1) - 1 = o /\ src[o + 1] = a[1] /\ o \in 0..n /\ o + 1 \in 0..n
    <3>1. m >= 1 /\ m \in Nat
      BY <1>3, <2>1
    <3>2. o + m <= n /\ \A x \in 1..m : src[o + x] = a[x]
      BY <1>2 DEF m
    <3>. QED
      BY <1>1, <3>1, <3>2
  <2>. DEFINE l == u[o + 1]
  <2>3. /\ l.prints = st.prints /\ l.ret_code = st.ret_code /\ l.in_loop /\ l.loop_depth = 0
        /\ l.start = s.from /\ l.end = s.to
    <3>. HIDE DEF l
    <3>1. st \in ParseState /\ l = ParseStep(st, src, o + 1)
      BY <1>1, <2>2 DEF l
    <3>. HIDE DEF st
    <3>2. src[o + 1] = [t |-> "for", n |-> s.from, m |-> s.to]
      BY <2>1, <2>2
    <3>. QED
      BY <3>1, <3>2, ForStep
  <2>4. CASE ~s.braces
    <3>1. o + Len(Opening(s)) = o + 1
      BY <2>1, <2>4 DEF m, a
    <3>. QED
      BY <1>5, <2>3, <2>4, <3>1
  <2>5. CASE s.braces
    <3>1. m = 2
      BY <2>1, <2>5
    <3>2. o + 2 \in 1..n /\ (o + 2) - 1 = o + 1 /\ src[o + 2] = a[2]
      <4>1. o + m <= n /\ \A x \in 1..m : src[o + x] = a[x]
        BY <1>2 DEF m
      <4>. QED
        BY <1>1, <3>1, <4>1
    <3>. DEFINE k == u[o + 2]
    <3>3. k = [l EXCEPT !.loop_depth = l.loop_depth + 1] /\ l \in ParseState
      <4>1. l \in ParseState /\ k = ParseStep(l, src, o + 2)
        BY <1>1, <2>2, <3>2
      <4>. HIDE DEF k, l
      <4>2. src[o + 2].t = "lbrace" /\ l.in_loop
        BY <2>1, <2>3, <2>5, <3>2
      <4>. QED
        BY <4>1, <4>2, BraceStep
    <3>4. /\ k.prints = st.prints /\ k.ret_code = st.ret_code /\ k.in_loop /\ k.loop_depth = 1
          /\ k.start = s.from /\ k.end = s.to
      <4>. HIDE DEF k, l, st
      <4>. QED
        BY <2>3, <3>3 DEF ParseState
    <3>5. o + Len(Opening(s)) = o + 2
      BY <3>1 DEF m, a
    <3>. QED
      BY <1>5, <2>5, <3>4, <3>5
  <2>. QED
    BY <2>4, <2>5
<1>. QED
  BY <1>3, <1>4, <1>5

\* Where the parts of a rendered statement are.
Parts(src, o, s) ==
  LET m == Len(s.text)
  IN  /\ At(src, o, <<Tok(s.call), Quote>>) /\ At(src, o + 2, s.text)
      /\ At(src, o + 2 + m, <<Quote>>) /\ At(src, o + 3 + m, Closing(s))

\* A statement in the source is its opening and the parts behind it.
LEMMA PartsAre ==
  ASSUME NEW src \in Seq(Token), NEW s \in Statement, NEW o \in Nat, At(src, o, Rendered(s))
  PROVE  /\ At(src, o, Opening(s)) /\ Parts(src, o + Len(Opening(s)), s)
         /\ Len(Rendered(s)) = Len(Opening(s)) + 3 + Len(s.text) + Len(Closing(s))
<1>. DEFINE a == Opening(s)
            b == <<Tok(s.call), Quote>>
            c == s.text
            d == <<Quote>>
            e == Closing(s)
<1>1. a \in Seq(Token) /\ c \in Seq(Token) /\ e \in Seq(Token)
  BY OpeningIs, ClosingIs DEF Statement
<1>2. b \in Seq(Token) /\ d \in Seq(Token) /\ Len(b) = 2 /\ Len(d) = 1
  <2>1. s.call \in Kinds /\ "quote" \in Kinds
    BY DEF Statement, Kinds
  <2>2. Tok(s.call) \in Token /\ Quote \in Token
    BY <2>1, TokIs DEF Quote
  <2>. QED
    BY <2>2
<1>0. b \in Seq(Token) /\ d \in Seq(Token)
  BY <1>2, Zenon
<1>3. Rendered(s) = (((a \o b) \o c) \o d) \o e
  BY Zenon DEF Rendered
<1>4. At(src, o, (((a \o b) \o c) \o d) \o e)
  BY <1>3, Zenon
<1>. HIDE DEF a, b, c, d, e
<1>. DEFINE ab == a \o b
<1>5. ab \in Seq(Token)
  BY <1>1, <1>2, ConcatProperties
<1>. DEFINE abc == ab \o c
<1>. HIDE DEF ab
<1>6. abc \in Seq(Token)
  BY <1>1, <1>5, ConcatProperties
<1>. DEFINE abcd == abc \o d
<1>. HIDE DEF abc
<1>7. abcd \in Seq(Token)
  BY <1>2, <1>6, ConcatProperties
<1>. HIDE DEF abcd
<1>8. At(src, o, abcd \o e)
  BY <1>4, Zenon DEF ab, abc, abcd
<1>9. At(src, o, abcd) /\ At(src, o + Len(abcd), e) /\ Len(abcd \o e) = Len(abcd) + Len(e)
  BY <1>1, <1>7, <1>8, AtBoth
<1>10. At(src, o, abc) /\ At(src, o + Len(abc), d) /\ Len(abcd) = Len(abc) + Len(d)
  <2>1. At(src, o, abc \o d)
    BY <1>9 DEF abcd
  <2>2. At(src, o, abc) /\ At(src, o + Len(abc), d) /\ Len(abc \o d) = Len(abc) + Len(d)
    BY <1>0, <1>6, <2>1, AtBoth
  <2>. QED
    BY <2>2, Zenon DEF abcd
<1>11. At(src, o, ab) /\ At(src, o + Len(ab), c) /\ Len(abc) = Len(ab) + Len(c)
  <2>1. At(src, o, ab \o c)
    BY <1>10 DEF abc
  <2>. QED
    BY <1>1, <1>5, <2>1, AtBoth DEF abc
<1>12. At(src, o, a) /\ At(src, o + Len(a), b) /\ Len(ab) = Len(a) + Len(b)
  <2>1. At(src, o, a \o b)
    BY <1>11 DEF ab
  <2>2. At(src, o, a) /\ At(src, o + Len(a), b) /\ Len(a \o b) = Len(a) + Len(b)
    BY <1>0, <1>1, <2>1, AtBoth
  <2>. QED
    BY <2>2, Zenon DEF ab
<1>. DEFINE p == Len(a)
            m == Len(c)
            q == Len(e)
<1>13. p \in Nat /\ m \in Nat /\ q \in Nat
  BY <1>1
<1>14. /\ o + Len(ab) = (o + p) + 2 /\ o + Len(abc) = (o + p) + 2 + m
       /\ o + Len(abcd) = (o + p) + 3 + m /\ Len(abcd \o e) = p + 3 + m + q
  <2>1. Len(ab) = p + 2
    BY <1>2, <1>12
  <2>2. Len(abc) = p + 2 + m
    BY <1>11, <2>1
  <2>3. Len(abcd) = p + 2 + m + 1
    BY <1>2, <1>10, <2>2
  <2>4. Len(abcd \o e) = p + 2 + m + 1 + q
    BY <1>9, <2>3
  <2>. HIDE DEF p, m, q
  <2>. QED
    BY <1>13, <2>1, <2>2, <2>3, <2>4
<1>15. Rendered(s) = abcd \o e
  BY <1>3, Zenon DEF ab, abc, abcd
<1>16. At(src, o + p, b) /\ At(src, o + p + 2, c) /\ At(src, o + p + 2 + m, d) /\ At(src, o + p + 3 + m, e)
  <2>. HIDE DEF p, m, q
  <2>1. At(src, o + p, b)
    BY <1>12, Zenon DEF p
  <2>2. At(src, (o + p) + 2, c) /\ At(src, (o + p) + 2 + m, d) /\ At(src, (o + p) + 3 + m, e)
    BY <1>9, <1>10, <1>11, <1>14, Zenon
  <2>. QED
    BY <2>1, <2>2
<1>17. Parts(src, o + p, s)
  <2>. HIDE DEF p
  <2>. QED
    BY <1>16, Zenon DEF Parts, b, c, d, e, m
<1>. QED
  BY <1>12, <1>14, <1>15, <1>17 DEF a, c, e, p, m, q

\* Its tokens, by their places.
Laid(src, o, s, m, q) ==
  /\ m \in Nat /\ q \in Nat \ {0} /\ o + 3 + m + q <= Len(src)
  /\ src[o + 1].t = s.call /\ src[o + 2].t = "quote" /\ src[o + 3 + m].t = "quote"
  /\ \A x \in 1..m : src[o + 2 + x] = s.text[x] /\ src[o + 2 + x].t \in Quiet \ {"quote"}
  /\ \A x \in 1..q : src[o + 3 + m + x] = Closing(s)[x] /\ src[o + 3 + m + x].t \in Quiet

\* The tokens of a supported statement are where they are laid.
LEMMA PartsAt ==
  ASSUME NEW src \in Seq(Token), NEW s \in Statement, Supported(s), NEW o \in Nat, Parts(src, o, s)
  PROVE  Laid(src, o, s, Len(s.text), Len(Closing(s)))
<1>. DEFINE m == Len(s.text)
            q == Len(Closing(s))
            b == <<Tok(s.call), Quote>>
            d == <<Quote>>
            c == Closing(s)
            N == Len(src)
<1>1. s.text \in Seq(Token) /\ m \in Nat /\ DOMAIN s.text = 1..m
  BY DEF Statement
<1>2. c \in Seq(Token) /\ q \in Nat /\ q >= 1 /\ \A x \in 1..q : c[x].t \in {"endl", "semicolon", "rbrace"}
  BY ClosingIs
<1>3. Tok(s.call).t = s.call /\ Quote.t = "quote"
  <2>1. s.call \in Kinds /\ "quote" \in Kinds
    BY DEF Statement, Kinds
  <2>. QED
    BY <2>1, TokIs, Zenon DEF Quote
<1>4. Len(b) = 2 /\ b[1] = Tok(s.call) /\ b[2] = Quote /\ Len(d) = 1 /\ d[1] = Quote
  OBVIOUS
<1>5. \A x \in 1..m : s.text[x].t \in {"chr", "fmt", "num", "newline", "rbrace"}
  BY <1>1, Zenon DEF Supported
<1>6. At(src, o, b) /\ At(src, o + 2, s.text) /\ At(src, o + 2 + m, d) /\ At(src, o + 3 + m, c)
  BY Zenon DEF Parts
<1>. HIDE DEF b, c, d, m, q, N
<1>7. src[o + 1] = Tok(s.call) /\ src[o + 2] = Quote
  BY <1>4, <1>6 DEF At
<1>8. src[o + 3 + m] = Quote
  <2>1. src[(o + 2 + m) + 1] = Quote
    BY <1>4, <1>6 DEF At
  <2>2. (o + 2 + m) + 1 = o + 3 + m
    BY <1>1
  <2>. QED
    BY <2>1, <2>2
<1>9. \A x \in 1..m : src[o + 2 + x] = s.text[x]
  BY <1>6, Zenon DEF At, m
<1>10. (o + 3 + m) + q <= N /\ \A x \in 1..q : src[(o + 3 + m) + x] = c[x]
  BY <1>6, Zenon DEF At, c, N, q
<1>11. ASSUME NEW x \in 1..m
       PROVE  src[o + 2 + x] = s.text[x] /\ src[o + 2 + x].t \in Quiet \ {"quote"}
  BY <1>5, <1>9 DEF Quiet
<1>12. ASSUME NEW x \in 1..q PROVE src[o + 3 + m + x] = c[x] /\ src[o + 3 + m + x].t \in Quiet
  <2>1. src[o + 3 + m + x] = c[x]
    BY <1>10
  <2>2. c[x].t \in Quiet
    BY <1>2 DEF Quiet
  <2>. QED
    BY <2>1, <2>2
<1>13. q \in Nat \ {0}
  BY <1>2
<1>. QED
  BY <1>1, <1>3, <1>7, <1>8, <1>10, <1>11, <1>12, <1>13, Zenon DEF c, N, m, q, Laid

\* endl is looked for behind the string, before the semicolon.
LEMMA EndlIs ==
  ASSUME NEW src \in Seq(Token), NEW s \in Statement, Supported(s), NEW o \in Nat, Parts(src, o, s)
  PROVE  WithEndl(src, o + 4 + Len(s.text), s.text) = SaidBy(s)
<1>. DEFINE m == Len(s.text)
            q == Len(Closing(s))
            c == Closing(s)
            from == o + 4 + m
            ends == NextOf(src, from, {"semicolon"})
            lf == NextOf(src, from, {"endl"})
            N == Len(src)
<1>0. Laid(src, o, s, m, q)
  BY PartsAt
<1>1. /\ m \in Nat /\ q \in Nat \ {0} /\ o + 3 + m + q <= N
      /\ \A x \in 1..q : src[o + 3 + m + x] = c[x]
  BY <1>0, Zenon DEF Laid
<1>2. IF s.endl THEN q >= 2 /\ c[1].t = "endl" /\ c[2].t = "semicolon" ELSE c[1].t = "semicolon"
  BY ClosingIs
<1>3. N \in Nat
  OBVIOUS
<1>. HIDE DEF m, q, c, N
<1>4. from \in Nat \ {0} /\ from <= N /\ src[from] = c[1] /\ from = o + 3 + m + 1
  BY <1>1, <1>3
<1>5. s.endl \in BOOLEAN
  BY DEF Statement
<1>6. CASE s.endl
  <2>1. from + 1 <= N /\ src[from + 1] = c[2]
    <3>1. 2 \in 1..q /\ o + 3 + m + 2 = from + 1 /\ o + 3 + m + 2 <= N
      BY <1>1, <1>2, <1>3, <1>6
    <3>. QED
      BY <1>1, <3>1
  <2>. HIDE DEF from
  <2>2. lf = from
    <3>1. from \in from..N /\ src[from].t \in {"endl"}
      BY <1>2, <1>3, <1>4, <1>6
    <3>2. \A x \in from..(from - 1) : src[x].t \notin {"endl"}
      BY <1>4
    <3>. QED
      BY <1>4, <3>1, <3>2, NextAt DEF N
  <2>3. ends = from + 1
    <3>1. from + 1 \in from..N /\ src[from + 1].t \in {"semicolon"}
      BY <1>2, <1>3, <1>4, <1>6, <2>1
    <3>2. \A x \in from..((from + 1) - 1) : src[x].t \notin {"semicolon"}
      <4>1. \A x \in from..((from + 1) - 1) : x = from
        BY <1>4
      <4>2. src[from].t = "endl"
        BY <1>2, <1>4, <1>6
      <4>. QED
        BY <4>1, <4>2
    <3>. QED
      BY <1>4, <3>1, <3>2, NextAt DEF N
  <2>4. lf < ends
    BY <1>4, <2>2, <2>3
  <2>5. s.text # <<>> /\ Last(s.text) # Newline
    BY <1>6, Zenon DEF Supported
  <2>6. WithEndl(src, from, s.text) = Append(s.text, Newline)
    <3>1. NextOf(src, from, {"endl"}) < NextOf(src, from, {"semicolon"})
      BY <2>4
    <3>. QED
      BY <2>5, <3>1, Zenon DEF WithEndl
  <2>. QED
    BY <1>6, <2>6, Zenon DEF SaidBy, from, m
<1>7. CASE ~s.endl
  <2>. HIDE DEF from
  <2>1. ends = from
    <3>1. from \in from..N /\ src[from].t \in {"semicolon"}
      BY <1>2, <1>3, <1>4, <1>7
    <3>2. \A x \in from..(from - 1) : src[x].t \notin {"semicolon"}
      BY <1>4
    <3>. QED
      BY <1>4, <3>1, <3>2, NextAt DEF N
  <2>2. lf \in Nat /\ lf <= N + 1 /\ (lf <= N => from <= lf)
    BY <1>4, NextIs DEF N
  <2>. HIDE DEF lf, ends
  <2>3. ~(lf < ends)
    BY <1>3, <1>4, <2>1, <2>2
  <2>4. WithEndl(src, from, s.text) = s.text
    <3>1. ~(NextOf(src, from, {"endl"}) < NextOf(src, from, {"semicolon"}))
      BY <2>3 DEF lf, ends
    <3>. QED
      BY <3>1, Zenon DEF WithEndl
  <2>. QED
    BY <1>7, <2>4, Zenon DEF SaidBy, from, m
<1>. QED
  BY <1>5, <1>6, <1>7

\* The print is added, with its text.
LEMMA CallRuns ==
  ASSUME NEW src \in Seq(Token), NEW s \in Statement, Supported(s), NEW o \in Nat, Parts(src, o, s),
         NEW l \in ParseState
  PROVE  ParseStep(l, src, o + 1) = AddPrint(l, SaidBy(s)) /\ SaidBy(s) \in Seq(Token)
<1>. DEFINE m == Len(s.text)
            i == o + 1
            N == Len(src)
            t == src[i].t
            q == Len(Closing(s))
<1>0. Laid(src, o, s, m, q)
  BY PartsAt
<1>. HIDE DEF m, q
<1>1. /\ m \in Nat /\ o + 3 + m + q <= N /\ q \in Nat
      /\ t = s.call /\ src[o + 2].t = "quote" /\ src[o + 3 + m].t = "quote"
      /\ \A x \in 1..m : src[o + 2 + x] = s.text[x] /\ src[o + 2 + x].t # "quote"
  BY <1>0 DEF Laid
<1>2. s.call \in {"printf", "cout"} /\ s.text \in Seq(Token) /\ s.endl \in BOOLEAN
      /\ (s.endl => s.call = "cout")
  BY DEF Supported, Statement
<1>3. N \in Nat
  OBVIOUS
<1>. HIDE DEF N
<1>4. o + 3 + m <= N
  BY <1>1, <1>3
<1>5. SaidBy(s) \in Seq(Token)
  <2>1. Newline \in Token
    BY NumIs
  <2>2. Append(s.text, Newline) \in Seq(Token)
    BY <1>2, <2>1
  <2>. QED
    BY <1>2, <2>2, Zenon DEF SaidBy
<1>6. Looped(l, src, i) = l
  <2>1. t # "for" /\ t # "lbrace" /\ t # "rbrace"
    BY <1>1, <1>2
  <2>. QED
    BY <2>1, Zenon DEF Looped
<1>7. ParseStep(l, src, i) = ParsePrint(l, src, i)
  <2>1. t \in {"printf", "puts", "cout"}
    BY <1>1, <1>2
  <2>. QED
    BY <1>6, <2>1, ParseStepIs, Zenon
<1>8. \A kinds : "quote" \in kinds /\ t \notin kinds => NextOf(src, i, kinds) = o + 2
  <2>. TAKE kinds
  <2>. HAVE "quote" \in kinds /\ t \notin kinds
  <2>1. i \in Nat \ {0} /\ o + 2 \in i..N /\ src[o + 2].t \in kinds
    BY <1>1, <1>3, <1>4
  <2>2. \A x \in i..((o + 2) - 1) : src[x].t \notin kinds
    <3>1. \A x \in i..((o + 2) - 1) : x = i
      OBVIOUS
    <3>. QED
      BY <3>1
  <2>. QED
    BY <2>1, <2>2, NextAt DEF N
<1>. DEFINE begun == IF t = "cout" THEN NextOf(src, i, {"quote", "semicolon"}) ELSE NextOf(src, i, {"quote"})
            close == NextOf(src, begun + 1, {"quote"})
            text == SubSeq(src, begun + 1, close - 1)
            said == IF t = "cout" THEN WithEndl(src, close + 1, text) ELSE text
<1>9. begun = o + 2
  <2>1. "quote" \in {"quote", "semicolon"} /\ "quote" \in {"quote"}
        /\ t \notin {"quote", "semicolon"} /\ t \notin {"quote"}
    BY <1>1, <1>2
  <2>. DEFINE two == {"quote", "semicolon"}
              one == {"quote"}
  <2>2. "quote" \in two /\ t \notin two /\ "quote" \in one /\ t \notin one
    BY <2>1
  <2>. HIDE DEF t, i, two, one
  <2>3. NextOf(src, i, two) = o + 2 /\ NextOf(src, i, one) = o + 2
    BY <1>8, <2>2, Zenon
  <2>. QED
    BY <2>3, Zenon DEF two, one
<1>10. ParsePrint(l, src, i) =
         IF begun > N \/ src[begun].t = "semicolon" \/ close > N THEN l ELSE AddPrint(l, said)
  BY Zenon DEF ParsePrint, N
<1>. HIDE DEF begun
<1>11. close = o + 3 + m
  <2>1. begun + 1 = o + 3
    BY <1>9
  <2>2. o + 3 \in Nat \ {0} /\ o + 3 + m \in (o + 3)..N /\ src[o + 3 + m].t \in {"quote"}
    BY <1>1, <1>3, <1>4
  <2>3. \A x \in (o + 3)..((o + 3 + m) - 1) : src[x].t \notin {"quote"}
    <3>. TAKE x \in (o + 3)..((o + 3 + m) - 1)
    <3>1. x - (o + 2) \in 1..m /\ o + 2 + (x - (o + 2)) = x
      BY <1>1
    <3>2. src[x].t # "quote"
      BY <1>1, <3>1
    <3>. QED
      BY <3>2
  <2>4. NextOf(src, o + 3, {"quote"}) = o + 3 + m
    BY <2>2, <2>3, NextAt DEF N
  <2>. QED
    BY <2>1, <2>4
<1>. HIDE DEF close
<1>12. text = s.text
  <2>. DEFINE g == SubSeq(src, o + 3, o + 2 + m)
  <2>1. /\ g \in Seq(Token) /\ Len(g) = m
        /\ \A x \in 1..m : g[x] = src[o + 3 + x - 1]
    <3>. DEFINE y == o + 3
                z == o + 2 + m
    <3>1. y \in Int /\ z \in Int /\ z - y + 1 = m /\ (IF y <= z THEN z - y + 1 ELSE 0) = m
      BY <1>1
    <3>2. \A x \in y..z : src[x] \in Token
      <4>1. \A x \in y..z : x \in 1..N
        BY <1>1, <1>3, <1>4
      <4>. HIDE DEF y, z
      <4>. QED
        BY <4>1 DEF N
    <3>. HIDE DEF y, z
    <3>3. /\ SubSeq(src, y, z) \in Seq(Token) /\ Len(SubSeq(src, y, z)) = m
          /\ \A x \in 1..m : SubSeq(src, y, z)[x] = src[y + x - 1]
      BY <3>1, <3>2, SubSeqProperties
    <3>. QED
      BY <3>3, Zenon DEF y, z
  <2>2. \A x \in 1..m : g[x] = s.text[x]
    <3>. TAKE x \in 1..m
    <3>1. o + 3 + x - 1 = o + 2 + x
      BY <1>1
    <3>. QED
      BY <1>1, <2>1, <3>1
  <2>. HIDE DEF g
  <2>3. Len(s.text) = m
    BY DEF m
  <2>4. g = s.text
    BY <1>2, <2>1, <2>2, <2>3, SeqEqual
  <2>5. begun + 1 = o + 3 /\ close - 1 = o + 2 + m
    BY <1>1, <1>9, <1>11
  <2>. QED
    BY <2>4, <2>5 DEF g
<1>. HIDE DEF text
<1>13. said = SaidBy(s)
  <2>1. CASE t = "cout"
    <3>1. said = WithEndl(src, close + 1, text)
      BY <2>1, Zenon
    <3>2. close + 1 = o + 4 + m
      BY <1>1, <1>11
    <3>. QED
      BY <1>12, <3>1, <3>2, EndlIs DEF m
  <2>2. CASE t # "cout"
    <3>1. ~s.endl
      BY <1>1, <1>2, <2>2
    <3>. QED
      BY <1>12, <2>2, <3>1, Zenon DEF SaidBy
  <2>. QED
    BY <2>1, <2>2
<1>14. ~(begun > N) /\ src[begun].t # "semicolon" /\ ~(close > N)
  <2>1. src[begun].t = "quote" /\ begun <= N /\ close <= N /\ begun \in Nat /\ close \in Nat
    BY <1>1, <1>3, <1>4, <1>9, <1>11
  <2>. QED
    BY <1>3, <2>1
<1>. QED
  BY <1>5, <1>7, <1>10, <1>13, <1>14, Zenon

\* The print that a statement becomes.
Matches(p, s) ==
  /\ p.text = SaidBy(s) /\ p.has_counter = s.loop
  /\ s.loop => p.start_val = s.from /\ p.end_val = s.to

\* Between statements the parser is in no loop, unless there is no room for more prints.
Between(st) == ~st.in_loop \/ Full(st)

\* A print is added while there is room, and ends a loop that has no brace.
LEMMA AddPrintIs ==
  ASSUME NEW l \in ParseState, NEW text
  PROVE  /\ Full(l) => AddPrint(l, text) = l
         /\ ~Full(l) =>
              LET c == AddPrint(l, text)
              IN  /\ c.prints = Append(l.prints, [text |-> text, has_counter |-> l.in_loop,
                                                  start_val |-> l.start, end_val |-> l.end])
                  /\ c.ret_code = l.ret_code /\ c.loop_depth = l.loop_depth
                  /\ c.in_loop = (l.in_loop /\ l.loop_depth > 0)
<1>. DEFINE p == [text |-> text, has_counter |-> l.in_loop, start_val |-> l.start, end_val |-> l.end]
            b == l.in_loop /\ l.loop_depth > 0
            q == Append(l.prints, p)
            c == [l EXCEPT !.prints = q, !.in_loop = b]
<1>1. AddPrint(l, text) = IF Full(l) THEN l ELSE c
  BY Zenon DEF AddPrint, Full, LoopAfterPrint
<1>2. c.prints = q /\ c.ret_code = l.ret_code /\ c.loop_depth = l.loop_depth /\ c.in_loop = b
  <2>. HIDE DEF p, q, b
  <2>. QED
    BY DEF ParseState
<1>. QED
  BY <1>1, <1>2, Zenon

\* All tokens after the one that prints are quiet.
LEMMA RestQuiet ==
  ASSUME NEW src \in Seq(Token), NEW s \in Statement, Supported(s), NEW o \in Nat, Parts(src, o, s)
  PROVE  LET d == 2 + Len(s.text) + Len(Closing(s))
         IN  /\ d \in Nat /\ d >= 3 /\ o + 1 + d <= Len(src)
             /\ \A x \in 1..d : src[o + 1 + x].t \in Quiet
             /\ s.loop /\ s.braces => src[o + 1 + d].t = "rbrace"
<1>. DEFINE m == Len(s.text)
            q == Len(Closing(s))
            d == 2 + m + q
            N == Len(src)
<1>1. Laid(src, o, s, m, q)
  BY PartsAt
<1>2. s.loop /\ s.braces => Closing(s)[q].t = "rbrace"
  BY ClosingIs
<1>. HIDE DEF m, q
<1>3. /\ m \in Nat /\ q \in Nat \ {0} /\ o + 3 + m + q <= N
      /\ src[o + 2].t = "quote" /\ src[o + 3 + m].t = "quote"
      /\ \A x \in 1..m : src[o + 2 + x].t \in Quiet
      /\ \A x \in 1..q : src[o + 3 + m + x] = Closing(s)[x] /\ src[o + 3 + m + x].t \in Quiet
  BY <1>1, Zenon DEF Laid
<1>4. N \in Nat
  OBVIOUS
<1>. HIDE DEF N
<1>5. d \in Nat /\ d >= 3 /\ o + 1 + d <= N /\ o + 1 + d = o + 3 + m + q
  BY <1>3, <1>4
<1>6. "quote" \in Quiet
  BY DEF Quiet
<1>7. ASSUME NEW x \in 1..d PROVE src[o + 1 + x].t \in Quiet
  <2>1. CASE x = 1
    <3>1. o + 1 + x = o + 2
      BY <2>1
    <3>. QED
      BY <1>3, <1>6, <3>1
  <2>2. CASE 1 < x /\ x <= m + 1
    <3>1. x - 1 \in 1..m /\ o + 1 + x = o + 2 + (x - 1)
      BY <1>3, <2>2
    <3>. QED
      BY <1>3, <3>1
  <2>3. CASE x = m + 2
    <3>1. o + 1 + x = o + 3 + m
      BY <1>3, <2>3
    <3>. QED
      BY <1>3, <1>6, <3>1
  <2>4. CASE x > m + 2
    <3>1. x - (m + 2) \in 1..q /\ o + 1 + x = o + 3 + m + (x - (m + 2))
      BY <1>3, <2>4
    <3>. QED
      BY <1>3, <3>1
  <2>. QED
    BY <1>3, <2>1, <2>2, <2>3, <2>4
<1>8. s.loop /\ s.braces => src[o + 1 + d].t = "rbrace"
  <2>1. q \in 1..q
    BY <1>3
  <2>. QED
    BY <1>2, <1>3, <1>5, <2>1
<1>. QED
  BY <1>5, <1>7, <1>8, Zenon DEF m, q, N

\* A statement becomes one print that matches it, or none if there is no room.
LEMMA StatementRuns ==
  ASSUME NEW src \in Seq(Token), NEW u, Parsing(u, src), NEW s \in Statement, Supported(s),
         NEW o \in Nat, At(src, o, Rendered(s)), Between(u[o])
  PROVE  LET st == u[o]
             new == u[o + Len(Rendered(s))]
         IN  /\ new.ret_code = st.ret_code /\ Between(new)
             /\ Full(st) => new.prints = st.prints
             /\ ~Full(st) => \E p \in OnePrint : Matches(p, s) /\ new.prints = Append(st.prints, p)
<1>. DEFINE N == Len(src)
            k == Len(Opening(s))
            w == o + k
            m == Len(s.text)
            q == Len(Closing(s))
            d == 2 + m + q
            st == u[o]
            l == u[w]
            c == u[w + 1]
            new == u[w + 1 + d]
            y == w + 1 + (d - 1)
<1>1. At(src, o, Opening(s)) /\ Parts(src, w, s)
      /\ Len(Rendered(s)) = k + 3 + Len(s.text) + Len(Closing(s))
  BY PartsAre
<1>2. k \in Nat /\ Len(s.text) \in Nat /\ Len(Closing(s)) \in Nat /\ N \in Nat
  <2>1. Opening(s) \in Seq(Token) /\ s.text \in Seq(Token) /\ Closing(s) \in Seq(Token)
    BY OpeningIs, ClosingIs DEF Statement
  <2>. QED
    BY <2>1
<1>3. /\ l.prints = st.prints /\ l.ret_code = st.ret_code
      /\ ~s.loop => l = st
      /\ s.loop => /\ l.in_loop /\ l.start = s.from /\ l.end = s.to
                   /\ l.loop_depth = IF s.braces THEN 1 ELSE 0
  BY <1>1, OpeningRuns
<1>4. w \in Nat
  BY <1>2
<1>5. /\ d \in Nat /\ d >= 3 /\ w + 1 + d <= N
      /\ \A x \in 1..d : src[w + 1 + x].t \in Quiet
      /\ s.loop /\ s.braces => src[w + 1 + d].t = "rbrace"
  <2>. HIDE DEF w
  <2>. QED
    BY <1>1, <1>4, RestQuiet
<1>6. o + Len(Rendered(s)) = w + 1 + d
  <2>1. Len(Rendered(s)) = k + 3 + m + q /\ k \in Nat /\ m \in Nat /\ q \in Nat
    BY <1>1, <1>2
  <2>. HIDE DEF k, m, q
  <2>. QED
    BY <2>1
<1>. HIDE DEF d, k, N
<1>7. /\ w \in 0..N /\ w + 1 \in 1..N /\ (w + 1) - 1 = w /\ w + 1 + d \in 1..N /\ y \in 0..N
      /\ (w + 1 + d) - 1 = y /\ w + 1 \in 0..N /\ o \in 0..N /\ y + 1 = w + 1 + d
  BY <1>2, <1>4, <1>5
<1>. HIDE DEF w
<1>8. u \in [0..N -> ParseState] /\ \A i \in 1..N : u[i] = ParseStep(u[i - 1], src, i)
  BY DEF Parsing, N
<1>9. st \in ParseState /\ l \in ParseState /\ c \in ParseState /\ u[y] \in ParseState
  BY <1>7, <1>8
<1>10. c = AddPrint(l, SaidBy(s)) /\ SaidBy(s) \in Seq(Token)
  <2>1. c = ParseStep(l, src, w + 1)
    BY <1>7, <1>8
  <2>. HIDE DEF c, l
  <2>. QED
    BY <1>1, <1>4, <1>9, <2>1, CallRuns
<1>11. Keeps(c, new)
  <2>1. w + 1 \in Nat
    BY <1>4
  <2>. DEFINE a == w + 1
  <2>. HIDE DEF a
  <2>2. Keeps(u[a], u[a + d])
    BY <1>5, <2>1, QuietRuns DEF N, a
  <2>. QED
    BY <2>2 DEF a
<1>12. s.loop /\ s.braces => Keeps(c, u[y]) /\ (new.in_loop => u[y].in_loop /\ u[y].loop_depth > 1)
  <2>. DEFINE a == w + 1
              b == d - 1
  <2>0. N \in Nat
    BY <1>2
  <2>1. b \in Nat /\ a \in Nat /\ a + b <= N /\ \A x \in 1..b : x \in 1..d
    BY <1>4, <1>5, <2>0
  <2>2. Keeps(c, u[y])
    <3>1. \A x \in 1..b : src[a + x].t \in Quiet
      BY <1>5, <2>1, Zenon
    <3>. HIDE DEF a, b
    <3>2. Keeps(u[a], u[a + b])
      BY <2>1, <3>1, QuietRuns DEF N
    <3>. QED
      BY <3>2, Zenon DEF a, b
  <2>3. new = ParseStep(u[y], src, w + 1 + d)
    <3>1. new = ParseStep(u[(w + 1 + d) - 1], src, w + 1 + d)
      BY <1>7, <1>8
    <3>. QED
      BY <1>7, <3>1
  <2>4. src[w + 1 + d].t \in Quiet
    <3>1. d \in 1..d
      BY <1>5
    <3>. QED
      BY <1>5, <3>1
  <2>. HIDE DEF y, new
  <2>5. /\ Keeps(u[y], new)
        /\ src[w + 1 + d].t = "rbrace" /\ new.in_loop => u[y].loop_depth > 1
    BY <1>9, <2>3, <2>4, QuietStep
  <2>. QED
    BY <1>5, <2>2, <2>5, Zenon DEF Keeps
<1>. HIDE DEF st, l, c, new, y
<1>13. s.loop \in BOOLEAN /\ s.braces \in BOOLEAN /\ l.in_loop \in BOOLEAN /\ st.in_loop \in BOOLEAN
  BY <1>9 DEF Statement, ParseState
<1>14. new.ret_code = st.ret_code
  <2>1. c.ret_code = l.ret_code
    BY <1>9, <1>10, AddPrintIs, Zenon
  <2>. QED
    BY <1>3, <1>11, <2>1, Zenon DEF Keeps
<1>15. CASE Full(st)
  <2>1. Full(l)
    BY <1>3, <1>15 DEF Full
  <2>2. c = l
    BY <1>9, <1>10, <2>1, AddPrintIs, Zenon
  <2>3. new.prints = st.prints
    BY <1>3, <1>11, <2>2, Zenon DEF Keeps
  <2>4. Full(new)
    BY <1>15, <2>3 DEF Full
  <2>. QED
    BY <1>6, <1>14, <1>15, <2>3, <2>4, Zenon DEF Between, st, new
<1>16. CASE ~Full(st)
  <2>1. ~Full(l) /\ ~st.in_loop
    <3>1. Between(st)
      BY DEF st
    <3>. QED
      BY <1>3, <1>16, <3>1 DEF Full, Between
  <2>. DEFINE p == [text |-> SaidBy(s), has_counter |-> l.in_loop, start_val |-> l.start,
                    end_val |-> l.end]
  <2>2. /\ c.prints = Append(l.prints, p) /\ c.loop_depth = l.loop_depth
        /\ c.in_loop = (l.in_loop /\ l.loop_depth > 0)
    BY <1>9, <1>10, <2>1, AddPrintIs, Zenon
  <2>3. p \in OnePrint
    BY <1>9, <1>10 DEF OnePrint, ParseState
  <2>4. Matches(p, s)
    <3>1. p.text = SaidBy(s) /\ p.has_counter = l.in_loop /\ p.start_val = l.start /\ p.end_val = l.end
      OBVIOUS
    <3>. HIDE DEF p
    <3>2. l.in_loop = s.loop
      BY <1>3, <1>13, <2>1
    <3>. QED
      BY <1>3, <3>1, <3>2 DEF Matches
  <2>. HIDE DEF p
  <2>5. new.prints = Append(st.prints, p)
    BY <1>3, <1>11, <2>2, Zenon DEF Keeps
  <2>6. ~new.in_loop
    <3>1. CASE s.loop /\ s.braces
      <4>1. c.loop_depth = 1
        BY <1>3, <2>2, <3>1
      <4>2. u[y].in_loop => u[y].loop_depth <= 1
        BY <1>12, <3>1, <4>1 DEF Keeps
      <4>3. u[y].loop_depth \in Nat
        BY <1>9 DEF ParseState
      <4>4. new.in_loop => u[y].in_loop /\ u[y].loop_depth > 1
        BY <1>12, <3>1, Zenon
      <4>. QED
        BY <4>2, <4>3, <4>4
    <3>2. CASE ~(s.loop /\ s.braces)
      <4>1. ~c.in_loop
        <5>1. CASE s.loop
          <6>1. l.loop_depth = 0
            BY <1>3, <3>2, <5>1
          <6>2. ~(l.loop_depth > 0)
            BY <6>1
          <6>. QED
            BY <2>2, <6>2, Zenon
        <5>2. CASE ~s.loop
          BY <1>3, <2>1, <2>2, <5>2
        <5>. QED
          BY <5>1, <5>2
      <4>. QED
        BY <1>11, <4>1, Zenon DEF Keeps
    <3>. QED
      BY <3>1, <3>2
  <2>. QED
    BY <1>6, <1>14, <1>16, <2>3, <2>4, <2>5, <2>6, Zenon DEF Between, st, new
<1>. QED
  BY <1>15, <1>16, Zenon

RenderedAll(program) == [k \in DOMAIN program |-> Rendered(program[k])]

Return == [t |-> "return", n |-> 3, m |-> 0]

\* The return is a token.
LEMMA ReturnIs == Return \in Token /\ Return.t = "return" /\ Return.n = 3
<1>. DEFINE kind == "return"
<1>1. kind \in Kinds
  BY DEF Kinds
<1>2. Return = [t |-> kind, n |-> 3, m |-> 0]
  BY Zenon DEF Return
<1>. HIDE DEF kind
<1>3. Return \in Token /\ Return.t = kind /\ Return.n = 3
  BY <1>1, <1>2 DEF Token
<1>. QED
  BY <1>3 DEF kind

\* A program's tokens are its statements one after another, and the return.
LEMMA TokensAre ==
  ASSUME NEW program \in Seq(Statement)
  PROVE  LET R == RenderedAll(program)
         IN  /\ R \in Seq(Seq(Token)) /\ Len(R) = Len(program)
             /\ \A k \in 1..Len(program) : R[k] = Rendered(program[k])
             /\ \E F : Flat(F, R, Token)
             /\ \A F : Flat(F, R, Token) =>
                  /\ F[Len(program)] \in Seq(Token)
                  /\ Tokens(program) = F[Len(program)] \o <<Return>>
             /\ Tokens(program) \in Seq(Token)
<1>. DEFINE R == RenderedAll(program)
            n == Len(program)
            flat == FlattenSeq(R)
<1>1. n \in Nat /\ n \in Int /\ DOMAIN program = 1..n /\ \A k \in 1..n : program[k] \in Statement
  OBVIOUS
<1>. HIDE DEF n
<1>2. R \in [1..n -> Seq(Token)] /\ \A k \in 1..n : R[k] = Rendered(program[k])
  <2>1. \A k \in 1..n : Rendered(program[k]) \in Seq(Token)
    BY <1>1, RenderedIs
  <2>. QED
    BY <1>1, <2>1 DEF RenderedAll
<1>. HIDE DEF R
<1>3. R \in Seq(Seq(Token)) /\ Len(R) = n
  BY <1>1, <1>2, RowTyped
<1>4. \E F : Flat(F, R, Token)
  BY <1>3, FlatExists
<1>5. \A F : Flat(F, R, Token) => flat = F[n] /\ F[n] \in Seq(Token)
  <2>. TAKE F
  <2>. HAVE Flat(F, R, Token)
  <2>1. flat = F[n]
    BY <1>3, FlattenIs
  <2>2. n \in 0..n
    BY <1>1
  <2>3. F[n] \in Seq(Token)
    BY <1>3, <2>2 DEF Flat
  <2>. QED
    BY <2>1, <2>3
<1>6. Tokens(program) = flat \o <<Return>>
  BY Zenon DEF Tokens, RenderedAll, Return, R
<1>. HIDE DEF flat
<1>7. flat \in Seq(Token)
  BY <1>4, <1>5
<1>8. flat \o <<Return>> \in Seq(Token)
  <2>1. <<Return>> \in Seq(Token)
    BY ReturnIs
  <2>. QED
    BY <1>7, <2>1, ConcatProperties
<1>9. \A F : Flat(F, R, Token) => F[n] \in Seq(Token) /\ Tokens(program) = F[n] \o <<Return>>
  BY <1>5, <1>6, Zenon
<1>10. Tokens(program) \in Seq(Token)
  BY <1>6, <1>8
<1>. QED
  BY <1>2, <1>3, <1>4, <1>9, <1>10, Zenon DEF R, n

\* A sequence that others are put together of is where they end.
LEMMA FlatAt ==
  ASSUME NEW R \in Seq(Seq(Token)), NEW F, Flat(F, R, Token), NEW k \in 0..(Len(R) - 1),
         NEW src \in Seq(Token), Begins(F[Len(R)], src)
  PROVE  /\ At(src, Len(F[k]), R[k + 1]) /\ Len(F[k]) \in Nat
         /\ Len(F[k + 1]) = Len(F[k]) + Len(R[k + 1])
<1>. DEFINE n == Len(R)
            a == F[k]
            b == R[k + 1]
            c == F[k + 1]
            f == F[n]
<1>1. n \in Nat /\ k + 1 \in 1..n /\ (k + 1) - 1 = k /\ k \in 0..n /\ k + 1 \in 0..n /\ n \in 0..n
      /\ k + 1 <= n
  OBVIOUS
<1>2. a \in Seq(Token) /\ c \in Seq(Token) /\ f \in Seq(Token) /\ b \in Seq(Token) /\ c = a \o b
  <2>1. a \in Seq(Token) /\ c \in Seq(Token) /\ f \in Seq(Token)
    BY <1>1 DEF Flat
  <2>2. b \in Seq(Token)
    BY <1>1
  <2>3. c = F[(k + 1) - 1] \o b
    BY <1>1, Zenon DEF Flat
  <2>. QED
    BY <1>1, <2>1, <2>2, <2>3
<1>3. Begins(c, f)
  BY <1>1, FlatGrows
<1>4. Begins(f, src)
  OBVIOUS
<1>. HIDE DEF n, a, b, c, f
<1>5. Begins(c, src)
  <2>1. Len(c) \in Nat /\ Len(f) \in Nat /\ Len(src) \in Nat
    BY <1>2
  <2>. QED
    BY <1>3, <1>4, <2>1 DEF Begins
<1>6. At(src, 0, a \o b)
  <2>. DEFINE z == Len(c)
  <2>1. z \in Nat /\ z <= Len(src) /\ \A x \in 1..z : src[x] = c[x]
    BY <1>2, <1>5 DEF Begins
  <2>. HIDE DEF z
  <2>2. 0 + z <= Len(src) /\ \A x \in 1..z : src[0 + x] = c[x]
    <3>1. 0 + z = z /\ \A x \in 1..z : 0 + x = x
      BY <2>1
    <3>. QED
      BY <2>1, <3>1, Zenon
  <2>3. At(src, 0, c)
    BY <2>2, Zenon DEF At, z
  <2>4. c = a \o b
    BY <1>2, Zenon
  <2>. QED
    BY <2>3, <2>4, Zenon
<1>7. At(src, 0 + Len(a), b) /\ Len(a \o b) = Len(a) + Len(b)
  BY <1>2, <1>6, AtBoth
<1>8. Len(a) \in Nat /\ 0 + Len(a) = Len(a)
  BY <1>2
<1>9. At(src, Len(a), b)
  BY <1>7, <1>8, Zenon
<1>10. Len(c) = Len(a) + Len(b)
  BY <1>2, <1>7, Zenon
<1>. QED
  BY <1>8, <1>9, <1>10 DEF a, b, c

\* The prints are those of the first statements, as many as there is room for.
PrintsOf(st, program, k) ==
  /\ st.prints \in Seq(OnePrint)
  /\ Len(st.prints) = IF k <= MaxPrints THEN k ELSE MaxPrints
  /\ \A j \in 1..Len(st.prints) : Matches(st.prints[j], program[j])

\* One statement more adds its print, if there is room.
LEMMA PrintsAppended ==
  ASSUME NEW st, NEW new, NEW program \in Seq(Statement), NEW k \in 0..(Len(program) - 1),
         PrintsOf(st, program, k),
         Full(st) => new.prints = st.prints,
         ~Full(st) => \E p \in OnePrint :
                         Matches(p, program[k + 1]) /\ new.prints = Append(st.prints, p)
  PROVE  PrintsOf(new, program, k + 1)
<1>. DEFINE q == st.prints
            m == Len(q)
            r == new.prints
<1>1. MaxPrints \in Nat /\ k \in Nat
  BY CompilerAssumption
<1>2. q \in Seq(OnePrint) /\ m = (IF k <= MaxPrints THEN k ELSE MaxPrints)
      /\ \A j \in 1..m : Matches(q[j], program[j])
  BY Zenon DEF PrintsOf
<1>3. Full(st) <=> m >= MaxPrints
  BY DEF Full
<1>4. CASE Full(st)
  <2>1. r = q
    BY <1>4
  <2>. HIDE DEF q, r
  <2>2. m = IF k + 1 <= MaxPrints THEN k + 1 ELSE MaxPrints
    BY <1>1, <1>2, <1>3, <1>4
  <2>. QED
    BY <1>2, <2>1, <2>2, Zenon DEF PrintsOf, m, q, r
<1>5. CASE ~Full(st)
  <2>1. PICK p \in OnePrint : Matches(p, program[k + 1]) /\ r = Append(q, p)
    BY <1>5
  <2>. HIDE DEF q, r
  <2>2. m = k /\ k + 1 <= MaxPrints
    <3>. HIDE DEF m
    <3>. QED
      BY <1>1, <1>2, <1>3, <1>5
  <2>3. r \in Seq(OnePrint) /\ Len(r) = m + 1 /\ r[m + 1] = p /\ \A j \in 1..m : r[j] = q[j]
    BY <1>2, <2>1
  <2>. HIDE DEF m
  <2>4. Len(r) = IF k + 1 <= MaxPrints THEN k + 1 ELSE MaxPrints
    BY <1>1, <2>2, <2>3
  <2>5. ASSUME NEW j \in 1..(k + 1) PROVE Matches(r[j], program[j])
    <3>1. CASE j = k + 1
      BY <2>1, <2>2, <2>3, <3>1
    <3>2. CASE j # k + 1
      <4>1. j \in 1..m
        BY <1>1, <2>2, <3>2
      <4>2. r[j] = q[j]
        BY <2>3, <4>1
      <4>. QED
        BY <1>2, <4>1, <4>2
    <3>. QED
      BY <3>1, <3>2
  <2>6. Len(r) = k + 1
    BY <2>2, <2>3
  <2>. QED
    BY <2>3, <2>4, <2>5, <2>6, Zenon DEF PrintsOf, r
<1>. QED
  BY <1>4, <1>5

\* The return gives the exit code and no print.
LEMMA ReturnStep ==
  ASSUME NEW st \in ParseState, NEW src, NEW i, src[i] = Return
  PROVE  ParseStep(st, src, i).prints = st.prints /\ ParseStep(st, src, i).ret_code = 3
<1>1. src[i].t = "return" /\ src[i].n = 3
  BY ReturnIs
<1>2. Looped(st, src, i) = st
  <2>1. src[i].t # "for" /\ src[i].t # "lbrace" /\ src[i].t # "rbrace"
    BY <1>1
  <2>. QED
    BY <2>1, Zenon DEF Looped
<1>3. ParseStep(st, src, i) = [st EXCEPT !.ret_code = 3]
  <2>1. src[i].t \notin {"printf", "puts", "cout"}
    BY <1>1
  <2>. QED
    BY <1>1, <1>2, <2>1, ParseStepIs, Zenon
<1>. DEFINE new == ParseStep(st, src, i)
<1>. HIDE DEF new
<1>4. new = [st EXCEPT !.ret_code = 3]
  BY <1>3 DEF new
<1>5. new.prints = st.prints /\ new.ret_code = 3
  BY <1>4 DEF ParseState
<1>. QED
  BY <1>5 DEF new

\* What the parser makes of a program that keeps to what it is made for.
LEMMA ProgramRuns ==
  ASSUME NEW program \in Seq(Statement), \A k \in DOMAIN program : Supported(program[k])
  PROVE  LET r == parse_c_statements(Tokens(program))
         IN  r.ret_code = 3 /\ PrintsOf(r, program, Len(program))
<1>. DEFINE R == RenderedAll(program)
            n == Len(program)
            src == Tokens(program)
            N == Len(src)
<1>1. /\ R \in Seq(Seq(Token)) /\ Len(R) = n /\ src \in Seq(Token)
      /\ \A k \in 1..n : R[k] = Rendered(program[k])
  BY TokensAre
<1>2. PICK F : Flat(F, R, Token)
  BY TokensAre
<1>3. F[n] \in Seq(Token) /\ src = F[n] \o <<Return>>
  BY <1>2, TokensAre
<1>4. n \in Nat /\ \A k \in 1..n : program[k] \in Statement /\ Supported(program[k])
  OBVIOUS
<1>. HIDE DEF R, src, n
<1>5. PICK u : Parsing(u, src) /\ parse_c_statements(src) = u[N]
  BY <1>1, ParseIs
<1>. DEFINE f == F[n]
            m == Len(f)
<1>6. N = m + 1 /\ m \in Nat /\ src[m + 1] = Return /\ Begins(f, src)
  <2>. DEFINE tail == <<Return>>
  <2>1. tail \in Seq(Token) /\ Len(tail) = 1 /\ tail[1] = Return
    BY ReturnIs
  <2>2. f \in Seq(Token) /\ src = f \o tail
    BY <1>3
  <2>. HIDE DEF f, tail
  <2>3. /\ Len(f \o tail) = Len(f) + Len(tail)
        /\ \A x \in 1..Len(f) : (f \o tail)[x] = f[x]
        /\ \A x \in (Len(f) + 1)..(Len(f) + Len(tail)) : (f \o tail)[x] = tail[x - Len(f)]
    <3>1. f \in Seq(Token) /\ tail \in Seq(Token)
      BY <2>1, <2>2, Zenon
    <3>. QED
      BY <3>1, ConcatProperties
  <2>4. m \in Nat
    BY <2>2
  <2>. HIDE DEF m
  <2>5. N = m + 1 /\ (\A x \in 1..m : src[x] = f[x]) /\ src[m + 1] = tail[(m + 1) - m]
    <3>1. m + 1 \in (m + 1)..(m + 1)
      BY <2>4
    <3>. QED
      BY <2>1, <2>2, <2>3, <3>1 DEF m
  <2>6. (m + 1) - m = 1
    BY <2>4
  <2>7. m <= N /\ \A x \in 1..m : src[x] = f[x]
    BY <2>4, <2>5
  <2>8. Begins(f, src)
    BY <2>7, Zenon DEF Begins, m
  <2>. QED
    BY <2>1, <2>4, <2>5, <2>6, <2>8
<1>. DEFINE at(k) == Len(F[k])
            Known(k) == LET st == u[at(k)]
                        IN  Between(st) /\ st.ret_code = 0 /\ PrintsOf(st, program, k)
            S == {k \in 0..n : Known(k)}
<1>7. u \in [0..N -> ParseState] /\ u[0] = ParseStart /\ \A i \in 1..N : u[i] = ParseStep(u[i - 1], src, i)
  BY <1>5 DEF Parsing
<1>8. 0 \in S
  <2>1. at(0) = 0
    <3>1. F[0] = <<>>
      BY <1>2 DEF Flat
    <3>. QED
      BY <3>1
  <2>2. u[at(0)] = ParseStart
    BY <1>7, <2>1
  <2>3. ~ParseStart.in_loop /\ ParseStart.ret_code = 0 /\ ParseStart.prints = <<>>
    BY DEF ParseStart
  <2>. HIDE DEF at
  <2>4. PrintsOf(u[at(0)], program, 0)
    <3>1. MaxPrints \in Nat
      BY CompilerAssumption
    <3>2. 0 <= MaxPrints
      BY <3>1
    <3>. DEFINE e == <<>>
    <3>3. e \in Seq(OnePrint) /\ Len(e) = 0 /\ 1..0 = {}
      OBVIOUS
    <3>. HIDE DEF e
    <3>4. u[at(0)].prints = e
      BY <2>2, <2>3 DEF e
    <3>. QED
      BY <3>2, <3>3, <3>4 DEF PrintsOf
  <2>5. 0 \in 0..n
    BY <1>4
  <2>. QED
    BY <2>2, <2>3, <2>4, <2>5 DEF Between
<1>9. ASSUME NEW k \in 0..n, k \in S, k # n PROVE k + 1 \in S
  <2>1. k + 1 \in 1..n /\ k + 1 \in 0..n /\ k \in 0..(n - 1)
    BY <1>4, <1>9
  <2>. DEFINE s == program[k + 1]
              o == at(k)
              st == u[o]
              new == u[at(k + 1)]
  <2>2. s \in Statement /\ Supported(s) /\ R[k + 1] = Rendered(s)
    BY <1>1, <1>4, <2>1
  <2>3. At(src, o, Rendered(s)) /\ o \in Nat /\ at(k + 1) = o + Len(Rendered(s))
    <3>1. k \in 0..(Len(R) - 1) /\ Begins(F[Len(R)], src)
      BY <1>1, <1>6, <2>1
    <3>2. At(src, o, R[k + 1]) /\ o \in Nat /\ at(k + 1) = o + Len(R[k + 1])
      BY <1>1, <1>2, <3>1, FlatAt
    <3>. QED
      BY <2>2, <3>2
  <2>4. Between(st) /\ st.ret_code = 0 /\ PrintsOf(st, program, k)
    BY <1>9
  <2>. HIDE DEF s, o, at
  <2>5. LET last == u[o + Len(Rendered(s))]
        IN  /\ last.ret_code = st.ret_code /\ Between(last)
            /\ Full(st) => last.prints = st.prints
            /\ ~Full(st) => \E p \in OnePrint : Matches(p, s) /\ last.prints = Append(st.prints, p)
    <3>1. src \in Seq(Token) /\ Parsing(u, src)
      BY <1>1, <1>5, Zenon
    <3>2. s \in Statement /\ Supported(s) /\ o \in Nat /\ At(src, o, Rendered(s))
      BY <2>2, <2>3, Zenon
    <3>3. Between(u[o])
      BY <2>4, Zenon
    <3>. QED
      BY <3>1, <3>2, <3>3, StatementRuns, Zenon
  <2>6. /\ new.ret_code = st.ret_code /\ Between(new)
        /\ Full(st) => new.prints = st.prints
        /\ ~Full(st) => \E p \in OnePrint : Matches(p, s) /\ new.prints = Append(st.prints, p)
    BY <2>3, <2>5, Zenon
  <2>. HIDE DEF st, new
  <2>7. PrintsOf(new, program, k + 1)
    BY <2>1, <2>4, <2>6, PrintsAppended DEF s, n
  <2>8. Known(k + 1)
    BY <2>4, <2>6, <2>7 DEF new
  <2>. QED
    BY <2>1, <2>8
<1>10. \A k \in 0..n : k \in S
  <2>. HIDE DEF S
  <2>. QED
    BY <1>4, <1>8, <1>9, UpToN
<1>11. Known(n)
  <2>1. n \in 0..n
    BY <1>4
  <2>. QED
    BY <1>10, <2>1
<1>12. PrintsOf(u[m], program, n)
  BY <1>11
<1>13. u[N].prints = u[m].prints /\ u[N].ret_code = 3
  <2>. HIDE DEF m, N
  <2>1. N \in 1..N /\ N - 1 = m /\ m \in 0..N /\ src[N] = Return
    BY <1>6
  <2>2. u[N] = ParseStep(u[m], src, N) /\ u[m] \in ParseState
    BY <1>7, <2>1
  <2>. QED
    BY <2>1, <2>2, ReturnStep
<1>14. PrintsOf(u[N], program, n)
  BY <1>12, <1>13, Zenon DEF PrintsOf
<1>. QED
  BY <1>5, <1>13, <1>14, Zenon DEF src, n

-----------------------------------------------------------------------------
(* The compiler.  What programs mean.                                      *)

SupportedProgram(program) == \A k \in DOMAIN program : Supported(program[k])

MeaningOf(program) == [k \in DOMAIN program |-> Meaning(program[k])]

\* The lines of the print are what the statement means.
LEMMA LinesMean ==
  ASSUME NEW s \in Statement, Supported(s), NEW p \in OnePrint, Matches(p, s)
  PROVE  Lines(p) = Meaning(s)
<1>. DEFINE text == SaidBy(s)
            m == s.to - s.from + 1
            f == [k \in 1..m |-> Line(text, s.from + k - 1)]
            g == [k \in 1..m |->
                    [j \in DOMAIN text |-> IF text[j].t = "fmt" THEN Num(s.from + k - 1) ELSE text[j]]]
<1>1. s.loop \in BOOLEAN /\ s.endl \in BOOLEAN /\ s.text \in Seq(Token)
  BY DEF Statement
<1>2. CASE ~s.loop
  <2>1. Lines(p) = <<text>>
    BY <1>2, Zenon DEF Lines, Matches
  <2>2. Meaning(s) = <<text>>
    BY <1>2, Zenon DEF Meaning, SaidBy
  <2>. QED
    BY <2>1, <2>2
<1>3. CASE s.loop
  <2>1. p.text = text /\ p.has_counter = TRUE /\ p.start_val = s.from /\ p.end_val = s.to
    BY <1>1, <1>3, Zenon DEF Matches
  <2>2. Lines(p) = f
    BY <2>1, Zenon DEF Lines
  <2>3. ~s.strict /\ \E k \in DOMAIN s.text : s.text[k].t = "fmt"
    BY <1>3, Zenon DEF Supported
  <2>4. Meaning(s) = g
    BY <1>3, <2>3, Zenon DEF Meaning, SaidBy
  <2>5. \E k \in DOMAIN text : text[k].t = "fmt"
    <3>1. CASE ~s.endl
      <4>1. text = s.text
        BY <3>1, Zenon DEF SaidBy
      <4>. QED
        BY <2>3, <4>1, Zenon
    <3>2. CASE s.endl
      <4>1. text = Append(s.text, Newline)
        BY <3>2, Zenon DEF SaidBy
      <4>2. PICK k \in DOMAIN s.text : s.text[k].t = "fmt"
        BY <2>3
      <4>3. DOMAIN s.text = 1..Len(s.text) /\ Len(s.text) \in Nat /\ Newline \in Token
        BY <1>1, NumIs
      <4>4. k \in DOMAIN text /\ text[k] = s.text[k]
        <5>. HIDE DEF text
        <5>. QED
          BY <1>1, <4>1, <4>3
      <4>. QED
        BY <4>2, <4>4, Zenon
    <3>. QED
      BY <1>1, <3>1, <3>2, Zenon
  <2>. HIDE DEF text, m
  <2>6. \A val : Line(text, val) = [j \in DOMAIN text |-> IF text[j].t = "fmt" THEN Num(val) ELSE text[j]]
    BY <2>5, Zenon DEF Line
  <2>7. f = g
    BY <2>6, Zenon
  <2>. QED
    BY <2>2, <2>4, <2>7, Zenon
<1>. QED
  BY <1>1, <1>2, <1>3

\* A statement means some texts.
LEMMA MeaningTyped ==
  ASSUME NEW s \in Statement
  PROVE  Meaning(s) \in Seq(Seq(Token))
<1>. DEFINE text == IF s.endl THEN Append(s.text, Newline) ELSE s.text
            last == IF s.strict THEN s.to - 1 ELSE s.to
            m == last - s.from + 1
            g == [k \in 1..m |-> WithNumber(text, s.from + k - 1)]
<1>1. s.text \in Seq(Token) /\ s.from \in Nat /\ s.to \in Nat /\ Newline \in Token
  BY NumIs DEF Statement
<1>2. text \in Seq(Token)
  <2>1. Append(s.text, Newline) \in Seq(Token)
    BY <1>1
  <2>. QED
    BY <1>1, <2>1, Zenon
<1>3. last \in Int
  BY <1>1
<1>. HIDE DEF text, last
<1>4. m \in Int
  BY <1>1, <1>3
<1>. HIDE DEF m
<1>5. g \in [1..m -> Seq(Token)]
  <2>1. ASSUME NEW k \in 1..m PROVE WithNumber(text, s.from + k - 1) \in Seq(Token)
    <3>1. s.from + k - 1 \in Nat
      BY <1>1, <1>4
    <3>. QED
      BY <1>2, <3>1, FilledTyped
  <2>. QED
    BY <2>1
<1>. HIDE DEF g
<1>6. g \in Seq(Seq(Token))
  BY <1>4, <1>5, RowTyped
<1>7. <<text>> \in Seq(Seq(Token))
  BY <1>2
<1>8. Meaning(s) = IF ~s.loop THEN <<text>> ELSE g
  BY Zenon DEF Meaning, WithNumber, g, m, last, text
<1>. QED
  BY <1>6, <1>7, <1>8, Zenon

\* What goes on from a sequence has it as a prefix.
LEMMA PrefixHolds ==
  ASSUME NEW T, NEW s \in Seq(T), NEW t \in Seq(T), Begins(s, t)
  PROVE  IsPrefix(s, t)
<1>. DEFINE m == Len(s)
            a == SubSeq(s, 1, m)
            b == SubSeq(t, 1, m)
<1>1. m \in Nat /\ m <= Len(t) /\ Len(t) \in Nat /\ \A x \in 1..m : t[x] = s[x]
  BY DEF Begins
<1>2. (\A x \in 1..m : s[x] \in T) /\ (\A x \in 1..m : t[x] \in T)
  BY <1>1
<1>3. 1 \in Int /\ m \in Int /\ m - 1 + 1 = m /\ (IF 1 <= m THEN m - 1 + 1 ELSE 0) = m
      /\ \A x \in 1..m : 1 + x - 1 = x
  BY <1>1
<1>. HIDE DEF m
<1>4. a \in Seq(T) /\ Len(a) = m /\ \A x \in 1..m : a[x] = s[1 + x - 1]
  BY <1>2, <1>3, SubSeqProperties
<1>5. b \in Seq(T) /\ Len(b) = m /\ \A x \in 1..m : b[x] = t[1 + x - 1]
  BY <1>2, <1>3, SubSeqProperties
<1>. HIDE DEF a, b
<1>6. \A x \in 1..m : a[x] = b[x]
  BY <1>1, <1>3, <1>4, <1>5
<1>7. a = b
  BY <1>4, <1>5, <1>6, SeqEqual
<1>. QED
  BY <1>1, <1>7, Zenon DEF IsPrefix, a, b, m

\* Each statement has its meaning.
LEMMA MeaningOfTyped ==
  ASSUME NEW program \in Seq(Statement)
  PROVE  /\ MeaningOf(program) \in Seq(Seq(Seq(Token))) /\ Len(MeaningOf(program)) = Len(program)
         /\ \A k \in 1..Len(program) : MeaningOf(program)[k] = Meaning(program[k])
<1>. DEFINE n == Len(program)
            M == MeaningOf(program)
<1>1. n \in Nat /\ n \in Int /\ DOMAIN program = 1..n /\ \A k \in 1..n : program[k] \in Statement
  OBVIOUS
<1>. HIDE DEF n
<1>2. M \in [1..n -> Seq(Seq(Token))] /\ \A k \in 1..n : M[k] = Meaning(program[k])
  <2>1. \A k \in 1..n : Meaning(program[k]) \in Seq(Seq(Token))
    BY <1>1, MeaningTyped
  <2>. QED
    BY <1>1, <2>1 DEF MeaningOf
<1>. HIDE DEF M
<1>3. M \in Seq(Seq(Seq(Token))) /\ Len(M) = n
  BY <1>1, <1>2, RowTyped
<1>. QED
  BY <1>2, <1>3 DEF M, n

\* The lines of the prints are the first that the program means, or all.
LEMMA LinesBegin ==
  ASSUME NEW program \in Seq(Statement), SupportedProgram(program),
         NEW st, PrintsOf(st, program, Len(program))
  PROVE  LET lines == FlattenSeq(LinesOf(st.prints))
             meant == FlattenSeq(MeaningOf(program))
         IN  /\ lines \in Seq(Seq(Token)) /\ meant \in Seq(Seq(Token)) /\ Begins(lines, meant)
             /\ Len(program) <= MaxPrints => lines = meant
<1>. DEFINE prints == st.prints
            c == Len(prints)
            n == Len(program)
            L == LinesOf(prints)
            M == MeaningOf(program)
            T == Seq(Token)
<1>1. prints \in Seq(OnePrint) /\ c = (IF n <= MaxPrints THEN n ELSE MaxPrints)
      /\ \A j \in 1..c : Matches(prints[j], program[j])
  BY Zenon DEF PrintsOf
<1>2. L \in Seq(Seq(T)) /\ Len(L) = c /\ \A k \in 1..c : L[k] = Lines(prints[k])
  BY <1>1, LinesOfTyped
<1>3. M \in Seq(Seq(T)) /\ Len(M) = n /\ \A k \in 1..n : M[k] = Meaning(program[k])
  BY MeaningOfTyped
<1>4. /\ n \in Nat /\ \A k \in 1..n : program[k] \in Statement /\ Supported(program[k])
  BY DEF SupportedProgram
<1>5. MaxPrints \in Nat
  BY CompilerAssumption
<1>6. \A k \in 1..c : prints[k] \in OnePrint
  BY <1>1
<1>. HIDE DEF prints, c, n, L, M, T
<1>7. c \in Nat /\ c <= n /\ (n <= MaxPrints => c = n) /\ c \in 0..n /\ n \in 0..n /\ c \in 0..c
  BY <1>1, <1>4, <1>5
<1>8. ASSUME NEW k \in 1..c PROVE L[k] = M[k]
  <2>1. k \in 1..n
    BY <1>4, <1>7
  <2>2. Lines(prints[k]) = Meaning(program[k])
    BY <1>1, <1>4, <1>6, <2>1, LinesMean
  <2>. QED
    BY <1>2, <1>3, <2>1, <2>2
<1>9. PICK F : Flat(F, L, T)
  BY <1>2, FlatExists
<1>10. PICK G : Flat(G, M, T)
  BY <1>3, FlatExists
<1>11. FlattenSeq(L) = F[c] /\ FlattenSeq(M) = G[n]
  BY <1>2, <1>3, <1>9, <1>10, FlattenIs
<1>12. F[c] = G[c]
  <2>1. c <= Len(L) /\ c <= Len(M)
    BY <1>2, <1>3, <1>7
  <2>2. \A i \in 1..c : L[i] = M[i]
    BY <1>8, Zenon
  <2>3. SameFirst(L, M, c)
    BY <2>1, <2>2, Zenon DEF SameFirst
  <2>4. L \in Seq(Seq(T)) /\ M \in Seq(Seq(T)) /\ c \in Nat
    BY <1>2, <1>3, <1>7, Zenon
  <2>. QED
    BY <1>9, <1>10, <2>3, <2>4, FlatSame
<1>13. G[c] \in Seq(T) /\ G[n] \in Seq(T)
  BY <1>3, <1>7, <1>10 DEF Flat
<1>14. Begins(G[c], G[n])
  BY <1>3, <1>7, <1>10, FlatGrows
<1>. QED
  BY <1>7, <1>11, <1>12, <1>13, <1>14, Zenon DEF L, M, T, n, prints

\* What StringsPlaced and PrintsTheSource say of a program.
PrintsMeant(from, image) ==
  LET meant == FlattenSeq(MeaningOf(from))
      made == [k \in DOMAIN image.writes |-> image.writes[k].line]
  IN  /\ image.ret_code = 3
      /\ IsPrefix(made, meant)
      /\ Bytes(FlattenSeq(meant)) + Len(meant) + LineRoom < BufCapacity
           /\ Len(meant) * WriteLen + CodeRoom < BufCapacity /\ Len(from) <= MaxPrints
         => made = meant

\* A compiled program's strings lie apart, and a supported one prints what it means.
LEMMA ProgramHolds ==
  ASSUME NEW program \in Seq(Statement)
  PROVE  /\ LaidApart(compile_c(program))
         /\ SupportedProgram(program) => PrintsMeant(program, compile_c(program))
<1>. DEFINE src == Tokens(program)
            st == parse_c_statements(src)
            image == compile_c(program)
            lines == FlattenSeq(LinesOf(st.prints))
            made == [k \in DOMAIN image.writes |-> image.writes[k].line]
            meant == FlattenSeq(MeaningOf(program))
<1>1. src \in Seq(Token)
  BY TokensAre
<1>. HIDE DEF src
<1>2. st \in ParseState
  <2>1. PICK u : Parsing(u, src) /\ st = u[Len(src)]
    BY <1>1, ParseIs
  <2>2. Len(src) \in 0..Len(src)
    BY <1>1
  <2>. QED
    BY <2>1, <2>2 DEF Parsing
<1>3. st.prints \in Seq(OnePrint)
  <2>. HIDE DEF st
  <2>. QED
    BY <1>2 DEF ParseState
<1>4. image = emit_elf64_binary(st.prints, st.ret_code)
  BY Zenon DEF compile_c, src
<1>. HIDE DEF st, image
<1>5. /\ LaidApart(image) /\ image.ret_code = st.ret_code
      /\ lines \in Seq(Seq(Token))
      /\ made \in Seq(Seq(Token)) /\ Len(made) = Len(Emitted(lines).writes)
      /\ Len(made) <= Len(lines) /\ \A k \in 1..Len(made) : made[k] = lines[k]
  <2>1. CompiledTo(image, lines, st.ret_code)
    BY <1>3, <1>4, CompiledHolds
  <2>. HIDE DEF lines
  <2>. QED
    BY <2>1, Zenon DEF CompiledTo, MadeBy
<1>6. ASSUME SupportedProgram(program) PROVE PrintsMeant(program, image)
  <2>1. st.ret_code = 3 /\ PrintsOf(st, program, Len(program))
    BY <1>6, ProgramRuns DEF SupportedProgram, st, src
  <2>2. meant \in Seq(Seq(Token)) /\ Begins(lines, meant) /\ (Len(program) <= MaxPrints => lines = meant)
    BY <1>6, <2>1, LinesBegin
  <2>. HIDE DEF made, lines, meant
  <2>3. Begins(made, lines)
    BY <1>5 DEF Begins
  <2>4. Begins(made, meant)
    <3>1. Len(made) \in Nat /\ Len(lines) \in Nat /\ Len(meant) \in Nat
      BY <1>5, <2>2
    <3>. QED
      BY <2>2, <2>3, <3>1 DEF Begins
  <2>5. IsPrefix(made, meant)
    BY <1>5, <2>2, <2>4, PrefixHolds
  <2>6. ASSUME Bytes(FlattenSeq(meant)) + Len(meant) + LineRoom < BufCapacity,
               Len(meant) * WriteLen + CodeRoom < BufCapacity, Len(program) <= MaxPrints
        PROVE  made = meant
    <3>1. lines = meant
      BY <2>2, <2>6
    <3>2. PICK H : Flat(H, meant, Token)
      BY <2>2, FlatExists
    <3>3. FlattenSeq(meant) = H[Len(meant)]
      BY <2>2, <3>2, FlattenIs
    <3>4. Len(Emitted(meant).writes) = Len(meant)
      <4>1. Bytes(H[Len(meant)]) + Len(meant) + LineRoom < BufCapacity
        BY <2>6, <3>3, Zenon
      <4>. QED
        BY <2>2, <2>6, <3>2, <4>1, EmitsAll
    <3>5. Len(made) = Len(meant)
      BY <1>5, <3>1, <3>4
    <3>. QED
      BY <1>5, <2>2, <3>1, <3>5, SeqEqual
  <2>7. image.ret_code = 3
    BY <1>5, <2>1
  <2>. QED
    BY <2>5, <2>6, <2>7, Zenon DEF PrintsMeant, made, meant
<1>. QED
  BY <1>5, <1>6, Zenon DEF image

Sources == Programs \cup Edits

\* What there can be in the output file.
Outputs == {Built(p) : p \in Sources} \cup {External(p) : p \in Sources}

CompilerInv == source \in Sources /\ output \in SUBSET Outputs

\* What a compilation returns says what it has left behind.
HonestOutcome(r, program, out) ==
  /\ r.output \in SUBSET Outputs
  /\ r.ret = 0 => r.output # {} /\ (r.output = out \/ \A o \in r.output : o.from = program)
  /\ r.ret # 0 => r.output = out

\* gcc returns 0 exactly if there is a program, and else has changed nothing.
LEMMA OutcomeIs ==
  ASSUME NEW program \in Sources, NEW out \in SUBSET Outputs, NEW external \in BOOLEAN, NEW able
  PROVE  HonestOutcome(gcc_outcome(program, out, external, able), program, out)
<1>. DEFINE b == Built(program)
            x == External(program)
            after == IF external THEN {x} ELSE out
            ok == able /\ program # <<>> /\ compile_c(program).size <= MaxBin
            file == [output |-> IF ok THEN {b} ELSE after, ret |-> ReturnOf(ok)]
            r == gcc_outcome(program, out, external, able)
<1>1. b \in Outputs /\ x \in Outputs
  BY Zenon DEF Outputs
<1>2. b.from = program /\ x.from = program
  BY DEF Built, External
<1>3. r = IF after # {} THEN [output |-> after, ret |-> 0] ELSE file
  BY Zenon DEF gcc_outcome, compile_file
<1>4. ReturnOf(ok) = IF ok THEN 0 ELSE 1
  BY Zenon DEF ReturnOf
<1>. HIDE DEF b, x, ok, r
<1>5. CASE external
  <2>1. after = {x}
    BY <1>5
  <2>2. r.output = {x} /\ r.ret = 0
    BY <1>3, <2>1
  <2>. QED
    BY <1>1, <1>2, <2>2 DEF r, HonestOutcome
<1>6. CASE ~external /\ out # {}
  <2>1. after = out
    BY <1>6
  <2>2. r.output = out /\ r.ret = 0
    BY <1>3, <1>6, <2>1
  <2>. QED
    BY <1>6, <2>2 DEF r, HonestOutcome
<1>7. CASE ~external /\ out = {} /\ ok
  <2>1. after = {}
    BY <1>7
  <2>2. r.output = {b} /\ r.ret = 0
    BY <1>3, <1>4, <1>7, <2>1
  <2>. QED
    BY <1>1, <1>2, <2>2 DEF r, HonestOutcome
<1>8. CASE ~external /\ out = {} /\ ~ok
  <2>1. after = {}
    BY <1>8
  <2>2. r.output = {} /\ r.ret = 1
    BY <1>3, <1>4, <1>8, <2>1
  <2>. QED
    BY <1>8, <2>2 DEF r, HonestOutcome
<1>. QED
  BY <1>5, <1>6, <1>7, <1>8

IsMade(u, commands) ==
  u = [k \in 0..Len(commands) |->
         IF k = 0 THEN output
         ELSE IF commands[k] = "rm" THEN {} ELSE gcc_outcome(source, u[k - 1], FALSE, TRUE).output]

\* make leaves programs of the source, or what was there.
LEMMA MakeKeeps ==
  ASSUME CompilerInv, NEW commands \in Makefiles, NEW able \in BOOLEAN, build_make(commands, able)
  PROVE  CompilerInv'
<1>. DEFINE n == Len(commands)
            T == SUBSET Outputs
            step(out, k) == IF commands[k] = "rm" THEN {} ELSE gcc_outcome(source, out, FALSE, TRUE).output
            h == [x \in T \X (1..n) |-> step(x[1], x[2])]
<1>1. n \in Nat
  BY CompilerAssumption
<1>2. source \in Sources /\ output \in T
  BY DEF CompilerInv
<1>3. \A out \in T, k \in 1..n : step(out, k) \in T
  <2>. TAKE out \in T, k \in 1..n
  <2>1. gcc_outcome(source, out, FALSE, TRUE).output \in T
    BY <1>2, OutcomeIs DEF HonestOutcome
  <2>2. {} \in T
    OBVIOUS
  <2>. HIDE DEF T
  <2>. QED
    BY <2>1, <2>2, Zenon
<1>. HIDE DEF T, step, n
<1>4. h \in [T \X (1..n) -> T]
  <2>1. ASSUME NEW x \in T \X (1..n) PROVE step(x[1], x[2]) \in T
    <3>1. x[1] \in T /\ x[2] \in 1..n
      OBVIOUS
    <3>. QED
      BY <1>3, <3>1
  <2>. QED
    BY <2>1
<1>5. PICK f \in [0..n -> T] : Follows(f, n, output, h)
  <2>. HIDE DEF h
  <2>. QED
    BY <1>1, <1>2, <1>4, Iterates
<1>6. IsMade(f, commands)
  <2>1. ASSUME NEW i \in 1..n PROVE h[<<f[i - 1], i>>] = step(f[i - 1], i)
    <3>0. i - 1 \in 0..n
      BY <1>1
    <3>1. <<f[i - 1], i>> \in T \X (1..n)
      BY <1>5, <3>0
    <3>. QED
      BY <3>1
  <2>. HIDE DEF h
  <2>2. f = [i \in 0..n |-> IF i = 0 THEN output ELSE h[<<f[i - 1], i>>]]
    BY <1>5 DEF Follows
  <2>3. \A i \in 0..n : f[i] = IF i = 0 THEN output ELSE step(f[i - 1], i)
    <3>. TAKE i \in 0..n
    <3>1. i # 0 => i \in 1..n
      BY <1>1
    <3>2. f[i] = IF i = 0 THEN output ELSE h[<<f[i - 1], i>>]
      BY <2>2, Zenon
    <3>. QED
      BY <2>1, <3>1, <3>2, Zenon
  <2>4. f = [i \in 0..n |-> f[i]]
    BY <1>5
  <2>. QED
    BY <2>3, <2>4, Zenon DEF IsMade, n, step
<1>. DEFINE u == CHOOSE g : IsMade(g, commands)
<1>7. IsMade(u, commands)
  BY <1>6
<1>8. output' = (IF able THEN u[n] ELSE output) /\ source' = source
  BY Zenon DEF build_make, IsMade, n
<1>. HIDE DEF u
<1>9. \A i \in 0..n : u[i] = IF i = 0 THEN output ELSE step(u[i - 1], i)
  BY <1>7, Zenon DEF IsMade, n, step
<1>10. \A i \in 0..n : u[i] \in T
  <2>. DEFINE S == {i \in 0..n : u[i] \in T}
  <2>1. 0 \in S
    <3>1. 0 \in 0..n
      BY <1>1
    <3>2. u[0] = output
      BY <1>9, <3>1, Zenon
    <3>. QED
      BY <1>2, <3>1, <3>2
  <2>2. ASSUME NEW i \in 0..n, i \in S, i # n PROVE i + 1 \in S
    <3>1. i + 1 \in 1..n /\ i + 1 \in 0..n /\ (i + 1) - 1 = i /\ i + 1 # 0
      BY <1>1, <2>2
    <3>2. u[i + 1] = step(u[(i + 1) - 1], i + 1)
      BY <1>9, <3>1, Zenon
    <3>3. u[i + 1] \in T
      BY <1>3, <2>2, <3>1, <3>2
    <3>. QED
      BY <3>1, <3>3
  <2>. HIDE DEF S
  <2>3. \A i \in 0..n : i \in S
    BY <1>1, <2>1, <2>2, UpToN
  <2>. QED
    BY <2>3 DEF S
<1>11. n \in 0..n
  BY <1>1
<1>12. output' \in T
  BY <1>2, <1>8, <1>10, <1>11
<1>. QED
  BY <1>2, <1>8, <1>12 DEF CompilerInv, T, Sources, Outputs

\* The output file has programs of sources, if it has any.
THEOREM CompilerInvariant == CompilerSpec => []CompilerInv
<1>1. CompilerInit => CompilerInv
  BY DEF CompilerInit, CompilerInv, Sources
<1>2. CompilerInv /\ [CompilerNext]_compilerVars => CompilerInv'
  <2>. SUFFICES ASSUME CompilerInv, [CompilerNext]_compilerVars PROVE CompilerInv'
    OBVIOUS
  <2>1. ASSUME NEW external \in BOOLEAN, NEW able \in BOOLEAN, cmd_gcc(external, able)
        PROVE  CompilerInv'
    <3>1. source \in Sources /\ output \in SUBSET Outputs
      BY DEF CompilerInv
    <3>2. output' = gcc_outcome(source, output, external, able).output /\ source' = source
      BY <2>1, Zenon DEF cmd_gcc
    <3>3. output' \in SUBSET Outputs
      BY <3>1, <3>2, OutcomeIs DEF HonestOutcome
    <3>. QED
      BY <3>1, <3>2, <3>3 DEF CompilerInv, Sources, Outputs
  <2>2. ASSUME NEW c \in Makefiles, NEW able \in BOOLEAN, build_make(c, able) PROVE CompilerInv'
    BY <2>2, MakeKeeps
  <2>3. ASSUME NEW p \in Edits, edit(p) PROVE CompilerInv'
    BY <2>3 DEF edit, CompilerInv, Sources, Outputs
  <2>4. CASE UNCHANGED compilerVars
    BY <2>4 DEF compilerVars, CompilerInv, Sources, Outputs
  <2>. QED
    BY <2>1, <2>2, <2>3, <2>4 DEF CompilerNext
<1>. QED
  BY <1>1, <1>2, PTL DEF CompilerSpec


\* Every program in the output file prints what its source says.
LEMMA OutputHolds ==
  ASSUME CompilerInv
  PROVE  PrintsTheSource /\ StringsPlaced
<1>1. ASSUME NEW o \in output
      PROVE  LaidApart(o.image) /\ (o.by = "gcc" /\ SupportedProgram(o.from) => PrintsMeant(o.from, o.image))
  <2>1. o \in Outputs
    BY DEF CompilerInv
  <2>2. Sources \subseteq Seq(Statement)
    BY CompilerAssumption DEF Sources
  <2>3. CASE \E p \in Sources : o = Built(p)
    <3>1. PICK p \in Sources : o = Built(p)
      BY <2>3
    <3>2. o.from = p /\ o.image = compile_c(p)
      BY <3>1 DEF Built
    <3>3. p \in Seq(Statement)
      BY <2>2
    <3>. QED
      BY <3>2, <3>3, ProgramHolds
  <2>4. CASE \E p \in Sources : o = External(p)
    <3>1. PICK p \in Sources : o = External(p)
      BY <2>4
    <3>2. o.by = "external" /\ o.image.writes = <<>>
      BY <3>1 DEF External
    <3>3. DOMAIN o.image.writes = {}
      BY <3>2
    <3>4. LaidApart(o.image)
      BY <3>3, Zenon DEF LaidApart
    <3>5. o.by # "gcc"
      BY <3>2
    <3>. QED
      BY <3>4, <3>5
  <2>. QED
    BY <2>1, <2>3, <2>4 DEF Outputs
<1>2. PrintsTheSource
  BY <1>1, Zenon DEF PrintsTheSource, SupportedProgram, PrintsMeant, MeaningOf
<1>3. StringsPlaced
  BY <1>1, Zenon DEF StringsPlaced, LaidApart
<1>. QED
  BY <1>2, <1>3

\* Every program that is left behind prints what its source says, its strings
\* lie apart and are where its code looks for them, and what gcc returns says
\* whether the program of the source is there (compile_file, cmd_gcc,
\* emit_elf64_binary).
THEOREM CompilerStaysHonest == CompilerSpec => CompilerHonest
<1>. DEFINE Honest ==
       result'.cmd = "gcc" =>
         IF result'.ret = 0
         THEN output' # {} /\ (output' = output \/ \A o \in output' : o.from = source)
         ELSE output' = output
<1>1. CompilerInv /\ [CompilerNext]_compilerVars => [Honest]_compilerVars
  <2>. SUFFICES ASSUME CompilerInv, CompilerNext PROVE Honest
    BY DEF CompilerInv
  <2>1. ASSUME NEW external \in BOOLEAN, NEW able \in BOOLEAN, cmd_gcc(external, able)
        PROVE  Honest
    <3>. DEFINE r == gcc_outcome(source, output, external, able)
    <3>1. source \in Sources /\ output \in SUBSET Outputs
      BY DEF CompilerInv
    <3>2. output' = r.output /\ result' = [cmd |-> "gcc", ret |-> r.ret]
      BY <2>1, Zenon DEF cmd_gcc
    <3>3. /\ r.ret = 0 => r.output # {} /\ (r.output = output \/ \A o \in r.output : o.from = source)
          /\ r.ret # 0 => r.output = output
      <4>1. HonestOutcome(r, source, output)
        BY <3>1, OutcomeIs
      <4>. QED
        BY <4>1, Zenon DEF HonestOutcome
    <3>. HIDE DEF r
    <3>4. result'.ret = r.ret
      BY <3>2
    <3>. QED
      BY <3>2, <3>3, <3>4, Zenon
  <2>2. ASSUME NEW c \in Makefiles, NEW able \in BOOLEAN, build_make(c, able) PROVE Honest
    <3>1. result' = [cmd |-> "make", ret |-> ReturnOf(able)]
      BY <2>2, Zenon DEF build_make
    <3>2. result'.cmd # "gcc"
      BY <3>1
    <3>. QED
      BY <3>2, Zenon
  <2>3. ASSUME NEW p \in Edits, edit(p) PROVE Honest
    BY <2>3 DEF edit
  <2>. QED
    BY <2>1, <2>2, <2>3 DEF CompilerNext
<1>2. CompilerInv => PrintsTheSource /\ StringsPlaced
  BY OutputHolds
<1>. QED
  BY <1>1, <1>2, CompilerInvariant, PTL DEF CompilerSpec, CompilerHonest, GccHonest

=============================================================================
