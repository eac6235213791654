------------------------------ MODULE FileSpec ------------------------------
(***************************************************************************)
(* What files promise to the programs that use them, without buffers,      *)
(* capacities, directories or memory: a file is a sequence of bytes, a     *)
(* descriptor a place in one.                                              *)
(***************************************************************************)
EXTENDS Integers, Sequences

CONSTANTS Fd, Node, Byte, Payloads, MaxRead, MaxSize

VARIABLES
  file,   \* vnode -> its bytes (none for what is not a file)
  place,  \* descriptor -> the vnode and offset it stands at, if open
  got     \* the bytes the last call read

vars == <<file, place, got>>

Upto(a, b) == IF a < b THEN a ELSE b
Nothing == got' = <<>>

\* From the offset on, as many bytes as there are and were asked for.
Read(d, k) ==
  LET f == file[place[d].node]
      o == place[d].offset
  IN  /\ place[d].is_open
      /\ got' = SubSeq(f, o + 1, Upto(o + k, Len(f)))
      /\ place' = [place EXCEPT ![d].offset = o + Len(got')]
      /\ UNCHANGED file

\* The bytes replace or extend those of this file only.  What lies between the
\* old end of the file and a write past it is not promised.
Write(d, bs) ==
  LET n == place[d].node
      o == place[d].offset
      end == IF o + Len(bs) < Len(file[n]) THEN Len(file[n]) ELSE o + Len(bs)
  IN  /\ place[d].is_open
      /\ \E gap \in [1..end -> Byte] :
           file' = [file EXCEPT ![n] = [i \in 1..end |->
                      IF i > o /\ i <= o + Len(bs) THEN bs[i - o]
                      ELSE IF i <= Len(@) THEN @[i] ELSE gap[i]]]
      /\ place' = [place EXCEPT ![d].offset = o + Len(bs)]
      /\ Nothing

Seek(d, o) ==
  /\ place[d].is_open
  /\ place' = [place EXCEPT ![d].offset = o]
  /\ Nothing /\ UNCHANGED file

\* A closed descriptor is put on a file, at its start or its end, and the file
\* may be emptied.
Open(d, n, truncate) ==
  /\ ~place[d].is_open
  /\ \E o \in {0, Len(file[n])} :
       place' = [place EXCEPT ![d] = [is_open |-> TRUE, node |-> n, offset |-> o]]
  /\ file' = IF truncate THEN [file EXCEPT ![n] = <<>>] ELSE file
  /\ Nothing

Close(d, none) ==
  /\ place[d].is_open
  /\ place' = [place EXCEPT ![d] = [is_open |-> FALSE, node |-> none, offset |-> 0]]
  /\ Nothing /\ UNCHANGED file

\* A file takes over the bytes of another one, or is left empty.
Copy(n, m) ==
  /\ \/ n # m /\ file' = [file EXCEPT ![m] = file[n]]
     \/ file' = [file EXCEPT ![m] = <<>>]
  /\ Nothing /\ UNCHANGED place

\* A call that fails, or concerns names only.
Other == Nothing /\ UNCHANGED <<file, place>>

Init ==
  /\ file = [n \in Node |-> <<>>]
  /\ \E none \in Node : place = [d \in Fd |-> [is_open |-> FALSE, node |-> none, offset |-> 0]]
  /\ got = <<>>

Next ==
  \/ \E d \in Fd, k \in 0..MaxRead : Read(d, k)
  \/ \E d \in Fd, bs \in Payloads : Write(d, bs)
  \/ \E d \in Fd, o \in 0..MaxSize : Seek(d, o)
  \/ \E d \in Fd, n \in Node, truncate \in BOOLEAN : Open(d, n, truncate)
  \/ \E d \in Fd, none \in Node : Close(d, none)
  \/ \E n, m \in Node : Copy(n, m)
  \/ Other

Spec == Init /\ [][Next]_vars

=============================================================================
