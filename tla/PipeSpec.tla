----------------------------- MODULE PipeSpec -----------------------------
(***************************************************************************)
(* What pipes promise to the programs that use them, without rings,        *)
(* reference counts or open flags: each pipe has a set of descriptors on   *)
(* its read end, a set on its write end, and a bounded first-in first-out  *)
(* queue.  End of file, "try again" and "broken pipe" are decided by       *)
(* whether a descriptor of the other end exists right now.                 *)
(***************************************************************************)
EXTENDS Integers, Sequences

CONSTANTS Fd, Pipe, Byte, Capacity, Payloads, MaxRead

VARIABLES
  readers,  \* pipe -> the descriptors open on its read end
  writers,  \* pipe -> the descriptors open on its write end
  queue,    \* pipe -> the bytes written and not yet read
  ret       \* the result of the transfer just made, and the bytes it read

vars == <<readers, writers, queue, ret>>

Ends(p) == readers[p] \cup writers[p]
NoTransfer == ret' = [code |-> 0, data |-> <<>>]

Init ==
  /\ readers = [p \in Pipe |-> {}]
  /\ writers = [p \in Pipe |-> {}]
  /\ queue = [p \in Pipe |-> <<>>]
  /\ ret = [code |-> 0, data |-> <<>>]

\* A pipe nobody holds gets one descriptor on each end, neither of them an
\* end of another pipe, and starts empty.
Create(p, r, w) ==
  /\ Ends(p) = {} /\ r # w
  /\ \A q \in Pipe : {r, w} \cap Ends(q) = {}
  /\ readers' = [readers EXCEPT ![p] = {r}]
  /\ writers' = [writers EXCEPT ![p] = {w}]
  /\ queue' = [queue EXCEPT ![p] = <<>>]
  /\ NoTransfer

\* Descriptor e stops being what it was and joins the ends rd (a pipe whose
\* read end somebody else holds) and wr (likewise for write ends).  Bytes are
\* lost only with the last descriptor of their pipe.
Redirect(e, rd, wr) ==
  /\ \A p \in rd : readers[p] \ {e} # {}
  /\ \A p \in wr : writers[p] \ {e} # {}
  /\ readers' = [p \in Pipe |-> (readers[p] \ {e}) \cup (IF p \in rd THEN {e} ELSE {})]
  /\ writers' = [p \in Pipe |-> (writers[p] \ {e}) \cup (IF p \in wr THEN {e} ELSE {})]
  /\ queue' = [p \in Pipe |-> IF readers'[p] \cup writers'[p] = {} THEN <<>> ELSE queue[p]]
  /\ NoTransfer

Close(e) == Redirect(e, {}, {})
DupReader(e, p) == Redirect(e, {p}, {})
DupWriter(e, p) == Redirect(e, {}, {p})

Read(p, n) ==
  LET k == IF n < Len(queue[p]) THEN n ELSE Len(queue[p])
  IN  /\ readers[p] # {}
      /\ ret' = IF queue[p] # <<>> THEN [code |-> k, data |-> SubSeq(queue[p], 1, k)]
                ELSE [code |-> IF writers[p] = {} THEN 0 ELSE -11, data |-> <<>>]
      /\ queue' = [queue EXCEPT ![p] = SubSeq(@, k + 1, Len(@))]
      /\ UNCHANGED <<readers, writers>>

Write(p, bs) ==
  LET room == Capacity - Len(queue[p])
      k    == IF Len(bs) < room THEN Len(bs) ELSE room
  IN  /\ writers[p] # {}
      /\ \/ /\ readers[p] = {}
            /\ ret' = [code |-> -32, data |-> <<>>]
            /\ UNCHANGED queue
         \/ /\ readers[p] # {}
            /\ ret' = [code |-> k, data |-> <<>>]
            /\ queue' = [queue EXCEPT ![p] = @ \o SubSeq(bs, 1, k)]
      /\ UNCHANGED <<readers, writers>>

\* A transfer in the wrong direction.
Refuse ==
  /\ ret' = [code |-> -1, data |-> <<>>]
  /\ UNCHANGED <<readers, writers, queue>>

\* A call that concerns no pipe.
Other == NoTransfer /\ UNCHANGED <<readers, writers, queue>>

Next ==
  \/ \E p \in Pipe, r, w \in Fd : Create(p, r, w)
  \/ \E e \in Fd : Close(e)
  \/ \E e \in Fd, p \in Pipe : DupReader(e, p) \/ DupWriter(e, p)
  \/ \E p \in Pipe, n \in 1..MaxRead : Read(p, n)
  \/ \E p \in Pipe, bs \in Payloads : Write(p, bs)
  \/ Refuse
  \/ Other

Spec == Init /\ [][Next]_vars

=============================================================================
