-------------------------------- MODULE Nic --------------------------------
(***************************************************************************)
(* The descriptor rings of the network card (kernel/drivers/e1000.cpp).    *)
(*                                                                         *)
(* The driver and the card share two rings.  The card receives into the    *)
(* descriptors from its head up to the tail the driver has set, and sends  *)
(* the ones from its head up to the other tail; a ring with head = tail    *)
(* has nothing for the card.  The card moves at any time, also between     *)
(* what the driver does to a descriptor and the tail it writes then.       *)
(* Frames are numbered.  Lengths, and the interrupt handler, which only    *)
(* acknowledges, are left out.                                             *)
(***************************************************************************)
EXTENDS Integers, Sequences

CONSTANTS
  NUM_RX_DESC, NUM_TX_DESC,
  MaxArrivals,  \* bound on frames that arrive
  MaxSent       \* bound on frames that are sent

ASSUME NicAssumption ==
  /\ NUM_RX_DESC \in Nat \ {0, 1} /\ NUM_TX_DESC \in Nat \ {0, 1}
  /\ MaxArrivals \in Nat /\ MaxSent \in Nat

VARIABLES
  g_rx_ring, g_rx_cur, RDH, RDT,
  receiving,   \* a frame is copied and its descriptor not yet given back
  arrived, handled, dropped,
  g_tx_ring, g_tx_cur, TDH, TDT,
  sending,     \* a descriptor is filled and the tail not yet written
  queued, onwire,
  overrun      \* the driver has filled the last descriptor it may not fill

rxVars == <<g_rx_ring, g_rx_cur, RDH, RDT, receiving, arrived, handled, dropped>>
txVars == <<g_tx_ring, g_tx_cur, TDH, TDT, sending, queued, onwire, overrun>>
nicVars == <<rxVars, txVars>>

RxNext(i) == (i + 1) % NUM_RX_DESC
TxNext(i) == (i + 1) % NUM_TX_DESC

\* What the descriptors from first up to, not including, last hold.
Held(ring, size, first, last) ==
  [k \in 1..((last - first) % size) |-> ring[(first + k - 1) % size].frame]

----------------------------------------------------------------------------
card_receives ==
  /\ RDH # RDT /\ Len(arrived) + dropped < MaxArrivals
  /\ g_rx_ring' = [g_rx_ring EXCEPT ![RDH] = [dd |-> TRUE, frame |-> Len(arrived) + 1]]
  /\ RDH' = RxNext(RDH)
  /\ arrived' = Append(arrived, Len(arrived) + 1)
  /\ UNCHANGED <<g_rx_cur, RDT, receiving, handled, dropped, txVars>>

card_drops ==
  /\ RDH = RDT /\ Len(arrived) + dropped < MaxArrivals
  /\ dropped' = dropped + 1
  /\ UNCHANGED <<g_rx_ring, g_rx_cur, RDH, RDT, receiving, arrived, handled, txVars>>

HasFrame(i) == g_rx_ring[i].dd

receive_copy ==
  /\ ~receiving /\ HasFrame(g_rx_cur)
  /\ handled' = Append(handled, g_rx_ring[g_rx_cur].frame)
  /\ g_rx_ring' = [g_rx_ring EXCEPT ![g_rx_cur].dd = FALSE]
  /\ receiving' = TRUE
  /\ UNCHANGED <<g_rx_cur, RDH, RDT, arrived, dropped, txVars>>

receive_return ==
  /\ receiving
  /\ RDT' = g_rx_cur
  /\ g_rx_cur' = RxNext(g_rx_cur)
  /\ receiving' = FALSE
  /\ UNCHANGED <<g_rx_ring, RDH, arrived, handled, dropped, txVars>>

----------------------------------------------------------------------------
Outstanding == (g_tx_cur - TDH) % NUM_TX_DESC

\* After 10000 looks at a descriptor the card still has, it is filled all the same.
send_fill ==
  /\ ~sending /\ Len(queued) < MaxSent
  /\ g_tx_ring' = [g_tx_ring EXCEPT ![g_tx_cur] = [dd |-> FALSE, frame |-> Len(queued) + 1]]
  /\ overrun' = (overrun \/ Outstanding = NUM_TX_DESC - 1 \/ ~g_tx_ring[g_tx_cur].dd)
  /\ g_tx_cur' = TxNext(g_tx_cur)
  /\ queued' = Append(queued, Len(queued) + 1)
  /\ sending' = TRUE
  /\ UNCHANGED <<TDH, TDT, onwire, rxVars>>

\* Faulty variant: the tail stays behind by one.
TxTail_filled == (g_tx_cur - 1) % NUM_TX_DESC

TxTail == g_tx_cur

send_tail ==
  /\ sending
  /\ TDT' = TxTail
  /\ sending' = FALSE
  /\ UNCHANGED <<g_tx_ring, g_tx_cur, TDH, queued, onwire, overrun, rxVars>>

card_sends ==
  /\ TDH # TDT
  /\ onwire' = Append(onwire, g_tx_ring[TDH].frame)
  /\ g_tx_ring' = [g_tx_ring EXCEPT ![TDH].dd = TRUE]
  /\ TDH' = TxNext(TDH)
  /\ UNCHANGED <<g_tx_cur, TDT, sending, queued, overrun, rxVars>>

----------------------------------------------------------------------------
NicInit ==
  /\ g_rx_ring = [i \in 0..(NUM_RX_DESC - 1) |-> [dd |-> FALSE, frame |-> 0]]
  /\ g_rx_cur = 0 /\ RDH = 0 /\ RDT = NUM_RX_DESC - 1
  /\ receiving = FALSE /\ arrived = <<>> /\ handled = <<>> /\ dropped = 0
  /\ g_tx_ring = [i \in 0..(NUM_TX_DESC - 1) |-> [dd |-> TRUE, frame |-> 0]]
  /\ g_tx_cur = 0 /\ TDH = 0 /\ TDT = 0
  /\ sending = FALSE /\ queued = <<>> /\ onwire = <<>> /\ overrun = FALSE

\* The two rings have nothing in common.
NicReceives == card_receives \/ card_drops \/ receive_copy \/ receive_return
NicSends == send_fill \/ send_tail \/ card_sends

NicSpec == NicInit /\ [][NicReceives \/ NicSends]_nicVars

----------------------------------------------------------------------------
Unread ==
  Held(g_rx_ring, NUM_RX_DESC, IF receiving THEN RxNext(g_rx_cur) ELSE g_rx_cur, RDH)

\* e1000_receive_packet hands over every frame the card has stored, once and in
\* the order of arrival, wherever in the ring head, tail and g_rx_cur are.
FramesInOrder == handled \o Unread = arrived

\* The card finds no descriptor, and drops a frame, only while all but one of
\* the descriptors hold frames nobody has read (or one is being given back):
\* the tail written by e1000_receive_packet never takes the whole ring away.
RoomUsed ==
  RDH = RDT => Len(Unread) >= NUM_RX_DESC - 1 - (IF receiving THEN 1 ELSE 0)

\* What e1000_send_packet has queued is what the card sends, in this order and
\* with nothing left behind, as long as fewer than NUM_TX_DESC frames were
\* outstanding.  (With one more the tail meets the head: see overrun.)
SentInOrder ==
  ~overrun /\ ~sending => onwire \o Held(g_tx_ring, NUM_TX_DESC, TDH, TDT) = queued

\* Both rings of e1000.cpp are queues: frames come out as they went in, and only
\* a full ring drops one.
RingsFaithful == FramesInOrder /\ RoomUsed /\ SentInOrder

============================================================================
