--------------------------- MODULE SocketsProofs ---------------------------
(***************************************************************************)
(* Proofs about Sockets for every table size, port range, buffer size and  *)
(* set of inputs, whatever peers send and whenever a packet is handled.    *)
(*                                                                         *)
(* The end points T, the bindings B and the sockets S are argued about as  *)
(* values: what a packet, a close, a bind and an unbind make of them is a  *)
(* lemma each, and every action is put together from those.                *)
(***************************************************************************)
EXTENDS Sockets, SequenceTheorems, NaturalsInduction, WellFoundedInduction, TLAPS

\* What an end point's buffer holds.
EndpointOK(ep) ==
  /\ ep \in TCPEndpoint
  /\ Len(ep.rx) <= RxCapacity
  /\ ep.in_use => \A i \in 1..Len(ep.rx) : ep.rx[i].dst = ep.local_port

TcpOK(T) == T \in [Tcp -> TCPEndpoint] /\ \A e \in Tcp : EndpointOK(T[e])

BindingsOK(B) ==
  /\ B \in [Binding -> UDPBinding]
  /\ \A b, c \in Binding : B[b].in_use /\ B[c].in_use /\ B[b].port = B[c].port => b = c

SocketsOK(S) == S \in [Sock -> SocketEntry] /\ \A s \in Sock : Len(S[s].rx) <= RxCapacity

Owns(S, s, e) == S[s].in_use /\ S[s].type = "SOCK_STREAM" /\ S[s].tcp_sock_id = e

NoLeakIn(S, T) ==
  \A e \in Tcp : T[e].in_use /\ T[e].state # "FIN_WAIT_1" => \E s \in Sock : Owns(S, s, e)

\* A socket whose connect waits has an end point.
Waiting(S, c) == c # None => S[c].in_use /\ S[c].type = "SOCK_STREAM" /\ S[c].tcp_sock_id # None

IInv ==
  /\ TcpOK(g_tcp_sockets) /\ BindingsOK(g_udp_bindings) /\ SocketsOK(g_sockets)
  /\ NoLeakIn(g_sockets, g_tcp_sockets)
  /\ g_next_ephemeral_port \in LocalPort /\ g_next_local_port \in FirstPort..LastTcpPort
  /\ connecting \in Sock \cup {None} /\ Waiting(g_sockets, connecting)

-----------------------------------------------------------------------------
(* Sets of indices and ports.                                              *)

\* The lowest member of a non-empty set of indices is one of them.
LEMMA LowestIn ==
  ASSUME NEW S \in SUBSET Nat, S # {}
  PROVE  Lowest(S) \in S
<1>. DEFINE R == {ss \in Nat \X Nat : ss[1] < ss[2]}
<1>1. IsWellFoundedOn(R, Nat)
  BY NatLessThanWellFounded, Zenon DEF OpToRel
<1>2. PICK x \in S : \A y \in S : <<y, x>> \notin R
  <2>. HIDE DEF R
  <2>. QED
    BY <1>1, WFMin
<1>3. \A y \in S : x <= y
  <2>. TAKE y \in S
  <2>1. <<y, x>> \in Nat \X Nat /\ ~(y < x)
    BY <1>2
  <2>. QED
    BY <2>1
<1>. QED
  BY <1>3 DEF Lowest

\* Tables are indexed by natural numbers, and None is no index.
LEMMA Indices ==
  /\ Sock \subseteq Nat /\ Tcp \subseteq Nat /\ Binding \subseteq Nat
  /\ None \notin Tcp /\ None \notin Sock
  BY SizesAssumption DEF Sock, Tcp, Binding, None

\* The two port counters stay in their ranges when they start over.
LEMMA NextPortIn ==
  /\ \A port \in LocalPort : NextPort(port, LastPort) \in LocalPort
  /\ \A port \in FirstPort..LastTcpPort : NextPort(port, LastTcpPort) \in FirstPort..LastTcpPort
  /\ FirstPort..LastTcpPort \subseteq LocalPort
  /\ FirstPort \in LocalPort /\ FirstPort \in FirstPort..LastTcpPort
  BY SizesAssumption DEF NextPort, LocalPort

-----------------------------------------------------------------------------
(* End points.                                                             *)

\* From ep to ep2 an end point stays with its port, is at most freed, which does
\* not happen while it waits for the answer to its SYN, and is in FIN_WAIT_1 only if
\* it was.
Follows(ep, ep2) ==
  /\ ep2.local_port = ep.local_port
  /\ ep2.in_use => ep.in_use /\ (ep2.state = "FIN_WAIT_1" <=> ep.state = "FIN_WAIT_1")
  /\ ep.in_use /\ ep.state = "SYN_SENT" => ep2.in_use

\* An end point whose buffer and port stay, and which is not put in use.
LEMMA EndpointKeptOK ==
  ASSUME NEW ep, EndpointOK(ep), NEW ep2 \in TCPEndpoint, ep2.rx = ep.rx,
         ep2.local_port = ep.local_port, ep2.in_use => ep.in_use
  PROVE  EndpointOK(ep2)
  BY DEF EndpointOK

\* Freed end points keep what they hold.
LEMMA FreedOK ==
  ASSUME NEW ep, EndpointOK(ep)
  PROVE  EndpointOK(Freed(ep)) /\ (ep.state # "SYN_SENT" => Follows(ep, Freed(ep)))
<1>1. ep \in TCPEndpoint
  BY DEF EndpointOK
<1>2. /\ Freed(ep) \in TCPEndpoint /\ ~Freed(ep).in_use /\ Freed(ep).rx = ep.rx
      /\ Freed(ep).local_port = ep.local_port
  BY <1>1 DEF Freed, TCPEndpoint, TCPState
<1>. QED
  BY <1>2, EndpointKeptOK DEF Follows

\* Setting the state of an end point.
LEMMA StateOK ==
  ASSUME NEW ep, EndpointOK(ep), NEW st \in TCPState
  PROVE  /\ EndpointOK([ep EXCEPT !.state = st])
         /\ [ep EXCEPT !.state = st].in_use = ep.in_use
         /\ [ep EXCEPT !.state = st].local_port = ep.local_port
         /\ [ep EXCEPT !.state = st].state = st
<1>1. ep \in TCPEndpoint
  BY DEF EndpointOK
<1>. DEFINE ep2 == [ep EXCEPT !.state = st]
<1>2. /\ ep2 \in TCPEndpoint /\ ep2.in_use = ep.in_use /\ ep2.rx = ep.rx
      /\ ep2.local_port = ep.local_port /\ ep2.state = st
  BY <1>1 DEF TCPEndpoint
<1>. HIDE DEF ep2
<1>3. EndpointOK(ep2)
  BY <1>2, EndpointKeptOK
<1>. QED
  BY <1>2, <1>3 DEF ep2

\* A byte is stored only if there is room for it.
LEMMA FilledIn ==
  ASSUME NEW rx \in Seq(Byte), Len(rx) <= RxCapacity, NEW byte \in Byte
  PROVE  /\ Filled(rx, byte) \in Seq(Byte) /\ Len(Filled(rx, byte)) <= RxCapacity
         /\ \A i \in 1..Len(Filled(rx, byte)) :
              Filled(rx, byte)[i] = byte \/ (i \in 1..Len(rx) /\ Filled(rx, byte)[i] = rx[i])
<1>1. CASE Len(rx) < RxCapacity
  <2>1. Filled(rx, byte) = Append(rx, byte)
    BY <1>1 DEF Filled
  <2>. QED
    BY <1>1, <2>1, SizesAssumption
<1>2. CASE ~(Len(rx) < RxCapacity)
  BY <1>2 DEF Filled
<1>. QED
  BY <1>1, <1>2

\* A segment for the end point's own port.
LEMMA AfterOK ==
  ASSUME NEW ep, EndpointOK(ep), ep.in_use, NEW seg \in Segment, ep.local_port = seg.dst
  PROVE  EndpointOK(After(ep, seg)) /\ Follows(ep, After(ep, seg))
<1>1. ep \in TCPEndpoint /\ ep.rx \in Seq(Byte) /\ Len(ep.rx) <= RxCapacity
      /\ \A i \in 1..Len(ep.rx) : ep.rx[i].dst = ep.local_port
  BY DEF EndpointOK, TCPEndpoint
<1>. DEFINE byte == [src |-> seg.src, dst |-> seg.dst]
            read == IF seg.full THEN [ep EXCEPT !.rx = Filled(@, byte)] ELSE ep
<1>2. byte \in Byte
  BY DEF Byte, Segment, Port
<1>3. EndpointOK(read) /\ Follows(ep, read)
  <2>1. CASE seg.full
    <3>. DEFINE rx == Filled(ep.rx, byte)
    <3>1. rx \in Seq(Byte) /\ Len(rx) <= RxCapacity
          /\ \A i \in 1..Len(rx) : rx[i] = byte \/ (i \in 1..Len(ep.rx) /\ rx[i] = ep.rx[i])
      BY <1>1, <1>2, FilledIn
    <3>2. \A i \in 1..Len(rx) : rx[i].dst = ep.local_port
      BY <1>1, <3>1
    <3>. HIDE DEF rx
    <3>3. read = [ep EXCEPT !.rx = rx]
      BY <2>1 DEF rx
    <3>4. read \in TCPEndpoint /\ read.rx = rx /\ read.local_port = ep.local_port
          /\ read.in_use = ep.in_use /\ read.state = ep.state
      <4>. HIDE DEF read
      <4>. QED
        BY <1>1, <3>1, <3>3 DEF TCPEndpoint
    <3>. HIDE DEF read
    <3>. QED
      BY <3>1, <3>2, <3>4 DEF EndpointOK, Follows
  <2>2. CASE ~seg.full
    BY <2>2 DEF Follows
  <2>. QED
    BY <2>1, <2>2
<1>. HIDE DEF read
<1>4. EndpointOK(Freed(read)) /\ (ep.state # "SYN_SENT" => Follows(ep, Freed(read)))
  <2>1. read.state = ep.state
    BY <1>1 DEF read, TCPEndpoint
  <2>2. EndpointOK(Freed(read)) /\ (read.state # "SYN_SENT" => Follows(read, Freed(read)))
    BY <1>3, FreedOK
  <2>. QED
    BY <1>3, <2>1, <2>2 DEF Follows
<1>5. EndpointOK(Freed(ep)) /\ (ep.state # "SYN_SENT" => Follows(ep, Freed(ep)))
  BY FreedOK
<1>6. Follows(ep, ep)
  BY DEF Follows
<1>7. CASE ep.state = "SYN_SENT"
  <2>1. After(ep, seg) = [ep EXCEPT !.state = "ESTABLISHED"]
    BY <1>7 DEF After
  <2>2. "ESTABLISHED" \in TCPState
    BY DEF TCPState
  <2>. QED
    BY <1>7, <2>1, <2>2, StateOK DEF Follows
<1>8. CASE ep.state = "ESTABLISHED"
  <2>1. After(ep, seg) = IF "RST" \in seg.flags THEN Freed(ep)
                         ELSE IF "FIN" \in seg.flags THEN Freed(read) ELSE read
    BY <1>8 DEF After, read
  <2>. QED
    BY <1>3, <1>4, <1>5, <1>8, <2>1
<1>9. CASE ep.state # "SYN_SENT" /\ ep.state # "ESTABLISHED"
  <2>1. After(ep, seg) = IF "ACK" \in seg.flags THEN Freed(ep) ELSE ep
    BY <1>9 DEF After
  <2>. QED
    BY <1>5, <1>6, <1>9, <2>1
<1>. QED
  BY <1>7, <1>8, <1>9

\* One packet, if any, handled while a call waits for ARP.
LEMMA SentOK ==
  ASSUME NEW T, TcpOK(T), NEW late \in Late
  PROVE  TcpOK(Sent(T, late)) /\ \A e \in Tcp : Follows(T[e], Sent(T, late)[e])
<1>1. \A e \in Tcp : Follows(T[e], T[e])
  BY DEF Follows
<1>2. ASSUME NEW seg \in Segment
      PROVE  /\ TcpOK(tcp_handle_packet(T, seg))
             /\ \A e \in Tcp : Follows(T[e], tcp_handle_packet(T, seg)[e])
  <2>1. CASE Takers(T, seg) = {}
    BY <1>1, <2>1 DEF tcp_handle_packet
  <2>2. CASE Takers(T, seg) # {}
    <3>. DEFINE e == Lowest(Takers(T, seg))
    <3>1. e \in Takers(T, seg)
      BY <2>2, LowestIn, Indices DEF Takers
    <3>2. tcp_handle_packet(T, seg) = [T EXCEPT ![e] = After(T[e], seg)]
      BY <2>2 DEF tcp_handle_packet
    <3>. HIDE DEF e
    <3>3. e \in Tcp /\ T[e].in_use /\ T[e].local_port = seg.dst
      BY <3>1 DEF Takers
    <3>4. T \in [Tcp -> TCPEndpoint] /\ \A x \in Tcp : EndpointOK(T[x])
      BY DEF TcpOK
    <3>5. EndpointOK(After(T[e], seg)) /\ Follows(T[e], After(T[e], seg))
      BY <3>3, <3>4, AfterOK
    <3>. DEFINE ep == After(T[e], seg)
                T2 == [T EXCEPT ![e] = ep]
    <3>. HIDE DEF ep
    <3>6. EndpointOK(ep) /\ Follows(T[e], ep) /\ ep \in TCPEndpoint
      BY <3>5 DEF ep, EndpointOK
    <3>7. T2 \in [Tcp -> TCPEndpoint] /\ \A x \in Tcp : T2[x] = IF x = e THEN ep ELSE T[x]
      BY <3>3, <3>4, <3>6
    <3>8. tcp_handle_packet(T, seg) = T2
      BY <3>2 DEF ep
    <3>. HIDE DEF T2
    <3>. QED
      BY <1>1, <3>4, <3>6, <3>7, <3>8 DEF TcpOK
  <2>. QED
    BY <2>1, <2>2
<1>3. CASE late = {}
  BY <1>1, <1>3 DEF Sent
<1>4. CASE late # {}
  <2>1. (CHOOSE seg \in late : TRUE) \in Segment
    BY <1>4 DEF Late
  <2>2. Sent(T, late) = tcp_handle_packet(T, CHOOSE seg \in late : TRUE)
    BY <1>4 DEF Sent
  <2>. QED
    BY <1>2, <2>1, <2>2
<1>. QED
  BY <1>3, <1>4

\* tcp_socket_create takes a free end point, if there is one, and empties it.
LEMMA CreatedOK ==
  ASSUME NEW T, TcpOK(T), NEW port \in LocalPort
  PROVE  LET made == Created(T, port)
         IN  /\ TcpOK(made.tab)
             /\ made.id \in Tcp \cup {None}
             /\ made.id = None => made.tab = T
             /\ made.id # None =>
                  /\ ~T[made.id].in_use /\ made.tab[made.id].in_use
                  /\ made.tab[made.id].state = "CLOSED"
             /\ \A e \in Tcp : e # made.id => made.tab[e] = T[e]
<1>. DEFINE made == Created(T, port)
            e == Lowest(FreeTcp(T))
            ep == Endpoint(T, e, port)
<1>1. T \in [Tcp -> TCPEndpoint] /\ \A x \in Tcp : EndpointOK(T[x])
  BY DEF TcpOK
<1>2. CASE FreeTcp(T) = {}
  <2>1. made.tab = T /\ made.id = None
    BY <1>2 DEF Created
  <2>. HIDE DEF made
  <2>. QED
    BY <2>1 DEF made
<1>3. CASE FreeTcp(T) # {}
  <2>1. made = [tab |-> [T EXCEPT ![e] = ep], id |-> e]
    BY <1>3 DEF Created
  <2>2. e \in Tcp /\ ~T[e].in_use
    BY <1>3, LowestIn, Indices DEF FreeTcp
  <2>3. /\ ep \in TCPEndpoint /\ ep.in_use /\ ep.state = "CLOSED" /\ ep.rx = <<>>
    BY DEF Endpoint, TCPEndpoint, TCPState
  <2>4. EndpointOK(ep)
    BY <2>3, SizesAssumption DEF EndpointOK
  <2>. DEFINE T2 == [T EXCEPT ![e] = ep]
  <2>. HIDE DEF made, e, ep
  <2>5. T2 \in [Tcp -> TCPEndpoint] /\ \A x \in Tcp : T2[x] = IF x = e THEN ep ELSE T[x]
    BY <1>1, <2>2, <2>3
  <2>6. made.tab = T2 /\ made.id = e
    BY <2>1
  <2>. HIDE DEF T2
  <2>7. e # None
    BY <2>2, Indices
  <2>8. TcpOK(T2)
    BY <1>1, <2>4, <2>5 DEF TcpOK
  <2>. QED
    BY <2>2, <2>3, <2>5, <2>6, <2>7, <2>8 DEF made
<1>. QED
  BY <1>2, <1>3

\* One end point of the table replaced, or only its state.
With(T, e, ep) == [T EXCEPT ![e] = ep]
WithState(T, e, st) == [T EXCEPT ![e].state = st]

\* A sound end point put into a sound table.
LEMMA WithOK ==
  ASSUME NEW T, TcpOK(T), NEW e \in Tcp, NEW ep, EndpointOK(ep)
  PROVE  /\ TcpOK(With(T, e, ep))
         /\ \A x \in Tcp : With(T, e, ep)[x] = IF x = e THEN ep ELSE T[x]
<1>1. T \in [Tcp -> TCPEndpoint] /\ \A x \in Tcp : EndpointOK(T[x])
  BY DEF TcpOK
<1>2. ep \in TCPEndpoint
  BY DEF EndpointOK
<1>. QED
  BY <1>1, <1>2 DEF TcpOK, With

\* The state of one end point set.
LEMMA WithStateOK ==
  ASSUME NEW T, TcpOK(T), NEW e \in Tcp, NEW st \in TCPState
  PROVE  /\ TcpOK(WithState(T, e, st)) /\ WithState(T, e, st)[e].in_use = T[e].in_use
         /\ WithState(T, e, st)[e].state = st
         /\ \A x \in Tcp : x # e => WithState(T, e, st)[x] = T[x]
<1>1. T \in [Tcp -> TCPEndpoint] /\ EndpointOK(T[e])
  BY DEF TcpOK
<1>. DEFINE ep == [T[e] EXCEPT !.state = st]
<1>2. EndpointOK(ep) /\ ep.in_use = T[e].in_use /\ ep.state = st
  BY <1>1, StateOK
<1>3. WithState(T, e, st) = With(T, e, ep)
  BY DEF With, WithState
<1>. HIDE DEF ep
<1>. QED
  BY <1>2, <1>3, WithOK

\* tcp_close, with the packet its FIN lets in: the end point is freed or waits for
\* its FIN to be acknowledged, and the others follow what the packet did.
LEMMA CloseOK ==
  ASSUME NEW T, TcpOK(T), NEW e \in Tcp, NEW late \in Late
  PROVE  LET T2 == tcp_close(T, e, late)
         IN  /\ TcpOK(T2)
             /\ T2[e].in_use => T[e].in_use /\ T2[e].state = "FIN_WAIT_1"
             /\ \A x \in Tcp : x # e => Follows(T[x], T2[x])
<1>. DEFINE T2 == tcp_close(T, e, late)
<1>1. T \in [Tcp -> TCPEndpoint] /\ \A x \in Tcp : EndpointOK(T[x]) /\ Follows(T[x], T[x])
  BY DEF TcpOK, Follows
<1>2. CASE ~T[e].in_use
  <2>1. T2 = T
    BY <1>2 DEF tcp_close
  <2>. HIDE DEF T2
  <2>. QED
    BY <1>1, <1>2, <2>1 DEF T2
<1>3. CASE T[e].in_use /\ T[e].state = "ESTABLISHED"
  <2>. DEFINE T1 == Sent(T, late)
  <2>1. TcpOK(T1) /\ \A x \in Tcp : Follows(T[x], T1[x])
    BY SentOK
  <2>2. T2 = WithState(T1, e, "FIN_WAIT_1")
    BY <1>3 DEF tcp_close, WithState
  <2>3. "FIN_WAIT_1" \in TCPState
    BY DEF TCPState
  <2>. HIDE DEF T1, T2
  <2>4. /\ TcpOK(T2) /\ T2[e].state = "FIN_WAIT_1"
        /\ \A x \in Tcp : x # e => T2[x] = T1[x]
    BY <2>1, <2>2, <2>3, WithStateOK
  <2>. QED
    BY <1>3, <2>1, <2>4 DEF T2
<1>4. CASE T[e].in_use /\ T[e].state # "ESTABLISHED"
  <2>1. T2 = With(T, e, Freed(T[e]))
    BY <1>4 DEF tcp_close, With
  <2>2. EndpointOK(Freed(T[e])) /\ ~Freed(T[e]).in_use
    BY <1>1, FreedOK DEF Freed, TCPEndpoint
  <2>. DEFINE ep == Freed(T[e])
  <2>. HIDE DEF T2, ep
  <2>3. T2 = With(T, e, ep) /\ EndpointOK(ep) /\ ~ep.in_use
    BY <2>1, <2>2 DEF ep
  <2>4. TcpOK(T2) /\ \A x \in Tcp : T2[x] = IF x = e THEN ep ELSE T[x]
    BY <2>3, WithOK
  <2>. QED
    BY <1>1, <2>3, <2>4 DEF T2
<1>. QED
  BY <1>2, <1>3, <1>4

-----------------------------------------------------------------------------
(* Bindings.                                                               *)

\* udp_bind never makes a second binding of a port.
LEMMA BindOK ==
  ASSUME NEW B, BindingsOK(B), NEW port \in Port, NEW handler \in {"none", "socket", "dns", "dhcp"}
  PROVE  BindingsOK(udp_bind(B, port, handler))
<1>1. /\ B \in [Binding -> UDPBinding]
      /\ \A b, c \in Binding : B[b].in_use /\ B[c].in_use /\ B[b].port = B[c].port => b = c
  BY DEF BindingsOK
<1>2. CASE port = 0
  BY <1>2 DEF udp_bind
<1>3. CASE port # 0 /\ BoundTo(B, port) # {}
  <2>. DEFINE b == Lowest(BoundTo(B, port))
  <2>1. b \in Binding
    BY <1>3, LowestIn, Indices DEF BoundTo
  <2>2. udp_bind(B, port, handler) = [B EXCEPT ![b].handler = handler]
    BY <1>3 DEF udp_bind
  <2>. HIDE DEF b
  <2>. DEFINE B2 == [B EXCEPT ![b].handler = handler]
  <2>3. /\ B2 \in [Binding -> UDPBinding]
        /\ \A c \in Binding : B2[c].in_use = B[c].in_use /\ B2[c].port = B[c].port
    BY <1>1, <2>1 DEF UDPBinding
  <2>. HIDE DEF B2
  <2>4. \A c, d \in Binding : B2[c].in_use /\ B2[d].in_use /\ B2[c].port = B2[d].port => c = d
    BY <1>1, <2>3, Zenon
  <2>. QED
    BY <2>2, <2>3, <2>4 DEF BindingsOK, B2
<1>4. CASE port # 0 /\ BoundTo(B, port) = {} /\ FreeBindings(B) = {}
  BY <1>4 DEF udp_bind
<1>5. CASE port # 0 /\ BoundTo(B, port) = {} /\ FreeBindings(B) # {}
  <2>. DEFINE b == Lowest(FreeBindings(B))
              r == [in_use |-> TRUE, port |-> port, handler |-> handler]
              B2 == [B EXCEPT ![b] = r]
  <2>1. b \in Binding /\ ~B[b].in_use
    BY <1>5, LowestIn, Indices DEF FreeBindings
  <2>2. udp_bind(B, port, handler) = B2
    BY <1>5 DEF udp_bind
  <2>. HIDE DEF b
  <2>3. r \in UDPBinding /\ r.in_use /\ r.port = port
    BY DEF UDPBinding
  <2>. HIDE DEF r
  <2>4. B2 \in [Binding -> UDPBinding] /\ \A c \in Binding : B2[c] = IF c = b THEN r ELSE B[c]
    BY <1>1, <2>1, <2>3
  <2>5. \A c \in Binding : B[c].in_use => B[c].port # port
    BY <1>5 DEF BoundTo
  <2>. HIDE DEF B2
  <2>6. \A c, d \in Binding : B2[c].in_use /\ B2[d].in_use /\ B2[c].port = B2[d].port => c = d
    BY <1>1, <2>3, <2>4, <2>5
  <2>. QED
    BY <2>2, <2>4, <2>6 DEF BindingsOK
<1>. QED
  BY <1>2, <1>3, <1>4, <1>5

\* udp_unbind only takes a binding away.
LEMMA UnbindOK ==
  ASSUME NEW B, BindingsOK(B), NEW port
  PROVE  BindingsOK(udp_unbind(B, port))
<1>1. /\ B \in [Binding -> UDPBinding]
      /\ \A b, c \in Binding : B[b].in_use /\ B[c].in_use /\ B[b].port = B[c].port => b = c
  BY DEF BindingsOK
<1>2. CASE BoundTo(B, port) = {}
  BY <1>2 DEF udp_unbind
<1>3. CASE BoundTo(B, port) # {}
  <2>. DEFINE b == Lowest(BoundTo(B, port))
              r == [B[b] EXCEPT !.in_use = FALSE, !.handler = "none"]
              B2 == [B EXCEPT ![b] = r]
  <2>1. b \in Binding
    BY <1>3, LowestIn, Indices DEF BoundTo
  <2>2. udp_unbind(B, port) = B2
    BY <1>3 DEF udp_unbind
  <2>. HIDE DEF b
  <2>3. r \in UDPBinding /\ ~r.in_use
    BY <1>1, <2>1 DEF UDPBinding
  <2>. HIDE DEF r
  <2>4. B2 \in [Binding -> UDPBinding] /\ \A c \in Binding : B2[c] = IF c = b THEN r ELSE B[c]
    BY <1>1, <2>1, <2>3
  <2>. HIDE DEF B2
  <2>5. \A c, d \in Binding : B2[c].in_use /\ B2[d].in_use /\ B2[c].port = B2[d].port => c = d
    BY <1>1, <2>3, <2>4
  <2>. QED
    BY <2>2, <2>4, <2>5 DEF BindingsOK
<1>. QED
  BY <1>2, <1>3

-----------------------------------------------------------------------------
(* Owners.                                                                 *)

\* OneToOne about values.
OneToOneIn(S, T) ==
  \A s \in Sock : \A e \in Tcp : Owns(S, s, e) =>
    /\ \A r \in Sock : Owns(S, r, e) => r = s
    /\ T[e].in_use /\ T[e].state # "FIN_WAIT_1"

\* An end point was freed under a socket that still refers to it.
Ended(T, S2, T2) ==
  \E e \in Tcp : T[e].in_use /\ ~T2[e].in_use /\ \E s \in Sock : Owns(S2, s, e)

\* What every step keeps of the relation between sockets and end points.
Kept(S, T, S2, T2) ==
  /\ NoLeakIn(S, T) => NoLeakIn(S2, T2)
  /\ OneToOneIn(S, T) => OneToOneIn(S2, T2) \/ Ended(T, S2, T2)

\* Nobody's end point changes: the end points follow a packet, or are given another
\* state under their owner.
LEMMA SameOwners ==
  ASSUME NEW S, NEW T, NEW S2, NEW T2,
         \A s \in Sock, e \in Tcp : Owns(S2, s, e) <=> Owns(S, s, e),
         \A e \in Tcp : \/ Follows(T[e], T2[e])
                        \/ /\ T2[e].state # "FIN_WAIT_1" /\ (T2[e].in_use => T[e].in_use)
                           /\ \E s \in Sock : Owns(S, s, e)
  PROVE  Kept(S, T, S2, T2)
<1>1. NoLeakIn(S, T) => NoLeakIn(S2, T2)
  BY DEF NoLeakIn, Follows
<1>2. ASSUME OneToOneIn(S, T), ~Ended(T, S2, T2)
      PROVE  OneToOneIn(S2, T2)
  BY <1>2 DEF OneToOneIn, Ended, Follows
<1>. QED
  BY <1>1, <1>2 DEF Kept

\* A socket that owned nothing gets end point e, which was free, or stays without one.
LEMMA NewOwner ==
  ASSUME NEW S, NEW T, NEW S2, NEW T2, NEW s \in Sock, NEW e \in Tcp \cup {None},
         \A x \in Tcp : ~Owns(S, s, x),
         \A x \in Tcp : Owns(S2, s, x) <=> x = e,
         \A r \in Sock, x \in Tcp : r # s => (Owns(S2, r, x) <=> Owns(S, r, x)),
         e \in Tcp => ~T[e].in_use /\ T2[e].in_use /\ T2[e].state # "FIN_WAIT_1",
         \A x \in Tcp : x # e => Follows(T[x], T2[x])
  PROVE  Kept(S, T, S2, T2)
<1>1. NoLeakIn(S, T) => NoLeakIn(S2, T2)
  BY DEF NoLeakIn, Follows
<1>2. ASSUME OneToOneIn(S, T), ~Ended(T, S2, T2)
      PROVE  OneToOneIn(S2, T2)
  <2>. SUFFICES ASSUME NEW r \in Sock, NEW x \in Tcp, Owns(S2, r, x)
                PROVE  /\ \A q \in Sock : Owns(S2, q, x) => q = r
                       /\ T2[x].in_use /\ T2[x].state # "FIN_WAIT_1"
    BY DEF OneToOneIn
  <2>1. CASE r = s
    BY <1>2, <2>1 DEF OneToOneIn
  <2>2. CASE r # s
    <3>1. Owns(S, r, x) /\ T[x].in_use /\ T[x].state # "FIN_WAIT_1" /\ x # e
      BY <1>2, <2>2 DEF OneToOneIn
    <3>2. T2[x].in_use
      BY <1>2, <3>1 DEF Ended
    <3>. QED
      BY <1>2, <2>2, <3>1, <3>2 DEF OneToOneIn, Follows
  <2>. QED
    BY <2>1, <2>2
<1>. QED
  BY <1>1, <1>2 DEF Kept

\* A socket gives up what it owned, which is freed or waits for the answer to its FIN.
LEMMA OwnerGone ==
  ASSUME NEW S, NEW T, NEW S2, NEW T2, NEW s \in Sock,
         \A x \in Tcp : ~Owns(S2, s, x),
         \A r \in Sock, x \in Tcp : r # s => (Owns(S2, r, x) <=> Owns(S, r, x)),
         \A x \in Tcp : Owns(S, s, x) /\ T2[x].in_use => T2[x].state = "FIN_WAIT_1",
         \A x \in Tcp : ~Owns(S, s, x) => Follows(T[x], T2[x])
  PROVE  Kept(S, T, S2, T2)
<1>1. NoLeakIn(S, T) => NoLeakIn(S2, T2)
  BY DEF NoLeakIn, Follows
<1>2. ASSUME OneToOneIn(S, T), ~Ended(T, S2, T2)
      PROVE  OneToOneIn(S2, T2)
  <2>. SUFFICES ASSUME NEW r \in Sock, NEW x \in Tcp, Owns(S2, r, x)
                PROVE  /\ \A q \in Sock : Owns(S2, q, x) => q = r
                       /\ T2[x].in_use /\ T2[x].state # "FIN_WAIT_1"
    BY DEF OneToOneIn
  <2>1. r # s /\ Owns(S, r, x) /\ ~Owns(S, s, x) /\ T[x].in_use /\ T[x].state # "FIN_WAIT_1"
    BY <1>2 DEF OneToOneIn
  <2>2. T2[x].in_use
    BY <1>2, <2>1 DEF Ended
  <2>. QED
    BY <1>2, <2>1, <2>2 DEF OneToOneIn, Follows
<1>. QED
  BY <1>1, <1>2 DEF Kept

-----------------------------------------------------------------------------
(* Steps.                                                                  *)

\* What each step establishes: the end points, bindings and sockets are sound, and
\* the relation between sockets and end points is kept.
Good ==
  /\ TcpOK(g_tcp_sockets') /\ BindingsOK(g_udp_bindings') /\ SocketsOK(g_sockets')
  /\ g_next_ephemeral_port' \in LocalPort /\ g_next_local_port' \in FirstPort..LastTcpPort
  /\ connecting' \in Sock \cup {None} /\ Waiting(g_sockets', connecting')
  /\ Kept(g_sockets, g_tcp_sockets, g_sockets', g_tcp_sockets')

\* One entry of the socket table replaced.
LEMMA EntrySet ==
  ASSUME NEW S, SocketsOK(S), NEW s \in Sock, NEW r \in SocketEntry, Len(r.rx) <= RxCapacity
  PROVE  /\ SocketsOK([S EXCEPT ![s] = r])
         /\ \A q \in Sock : [S EXCEPT ![s] = r][q] = IF q = s THEN r ELSE S[q]
  BY DEF SocketsOK

\* Nothing happens to end points or owners.
LEMMA NothingKept ==
  ASSUME NEW S, NEW T, NEW S2, \A s \in Sock, e \in Tcp : Owns(S2, s, e) <=> Owns(S, s, e)
  PROVE  Kept(S, T, S2, T)
<1>1. \A e \in Tcp : Follows(T[e], T[e])
  BY DEF Follows
<1>. QED
  BY <1>1, SameOwners

\* sock_create and sock_accept.
LEMMA OpenGood ==
  ASSUME IInv, Idle, NEW type, Open(type), UNCHANGED connecting
  PROVE  Good
<1>. DEFINE s == Lowest(FreeSockets)
            made == Created(g_tcp_sockets, g_next_local_port)
<1>1. s \in Sock /\ ~g_sockets[s].in_use
  BY LowestIn, Indices DEF Open, FreeSockets
<1>2. /\ TcpOK(g_tcp_sockets) /\ BindingsOK(g_udp_bindings) /\ SocketsOK(g_sockets)
      /\ g_next_ephemeral_port \in LocalPort /\ g_next_local_port \in FirstPort..LastTcpPort
      /\ g_next_local_port \in LocalPort /\ g_sockets \in [Sock -> SocketEntry]
  BY NextPortIn DEF IInv, SocketsOK
<1>3. g_next_ephemeral_port' \in LocalPort /\ connecting' = None
      /\ connecting' \in Sock \cup {None} /\ Waiting(g_sockets', connecting')
  BY <1>2, NextPortIn DEF Open, Idle, Waiting
<1>4. CASE type = "SOCK_STREAM"
  <2>. DEFINE r == Opened(type, made.id)
  <2>1. /\ g_sockets' = [g_sockets EXCEPT ![s] = r] /\ g_tcp_sockets' = made.tab
        /\ g_next_local_port' = IF made.id = None THEN g_next_local_port
                                ELSE NextPort(g_next_local_port, LastTcpPort)
        /\ g_udp_bindings' = g_udp_bindings
    BY <1>4 DEF Open
  <2>2. /\ TcpOK(made.tab) /\ made.id \in Tcp \cup {None}
        /\ made.id = None => made.tab = g_tcp_sockets
        /\ made.id # None => /\ ~g_tcp_sockets[made.id].in_use /\ made.tab[made.id].in_use
                             /\ made.tab[made.id].state = "CLOSED"
        /\ \A e \in Tcp : e # made.id => made.tab[e] = g_tcp_sockets[e]
    BY <1>2, CreatedOK
  <2>. HIDE DEF made, s
  <2>3. /\ r \in SocketEntry /\ r.rx = <<>> /\ Len(r.rx) <= RxCapacity /\ r.in_use
        /\ r.type = "SOCK_STREAM" /\ r.tcp_sock_id = made.id
    BY <1>2, <1>4, <2>2, SizesAssumption DEF Opened, SocketEntry, Port
  <2>. HIDE DEF r
  <2>4. /\ SocketsOK(g_sockets')
        /\ \A q \in Sock : g_sockets'[q] = IF q = s THEN r ELSE g_sockets[q]
    BY <1>1, <1>2, <2>1, <2>3, EntrySet
  <2>5. Kept(g_sockets, g_tcp_sockets, g_sockets', g_tcp_sockets')
    <3>1. \A x \in Tcp : ~Owns(g_sockets, s, x)
      BY <1>1 DEF Owns
    <3>2. \A x \in Tcp : Owns(g_sockets', s, x) <=> x = made.id
      BY <1>1, <2>3, <2>4 DEF Owns
    <3>3. \A q \in Sock, x \in Tcp : q # s => (Owns(g_sockets', q, x) <=> Owns(g_sockets, q, x))
      BY <2>4, Zenon DEF Owns
    <3>4. made.id \in Tcp => /\ ~g_tcp_sockets[made.id].in_use /\ g_tcp_sockets'[made.id].in_use
                             /\ g_tcp_sockets'[made.id].state # "FIN_WAIT_1"
      BY <2>1, <2>2, Indices
    <3>5. \A x \in Tcp : x # made.id => Follows(g_tcp_sockets[x], g_tcp_sockets'[x])
      BY <2>1, <2>2 DEF Follows
    <3>. QED
      BY <1>1, <2>2, <3>1, <3>2, <3>3, <3>4, <3>5, NewOwner
  <2>6. g_next_local_port' \in FirstPort..LastTcpPort
    BY <1>2, <2>1, NextPortIn
  <2>. QED
    BY <1>2, <1>3, <2>1, <2>2, <2>4, <2>5, <2>6 DEF Good
<1>5. CASE type = "SOCK_DGRAM"
  <2>. DEFINE r == Opened(type, None)
  <2>1. /\ g_sockets' = [g_sockets EXCEPT ![s] = r] /\ g_tcp_sockets' = g_tcp_sockets
        /\ g_udp_bindings' = udp_bind(g_udp_bindings, g_next_ephemeral_port, "socket")
        /\ g_next_local_port' = g_next_local_port
    BY <1>5 DEF Open
  <2>. HIDE DEF s
  <2>2. /\ r \in SocketEntry /\ r.rx = <<>> /\ Len(r.rx) <= RxCapacity /\ r.type = "SOCK_DGRAM"
    BY <1>2, <1>5, SizesAssumption DEF Opened, SocketEntry, Port
  <2>. HIDE DEF r
  <2>3. /\ SocketsOK(g_sockets')
        /\ \A q \in Sock : g_sockets'[q] = IF q = s THEN r ELSE g_sockets[q]
    BY <1>1, <1>2, <2>1, <2>2, EntrySet
  <2>4. BindingsOK(g_udp_bindings')
    BY <1>2, <2>1, BindOK DEF Port
  <2>5. \A q \in Sock, x \in Tcp : Owns(g_sockets', q, x) <=> Owns(g_sockets, q, x)
    <3>. TAKE q \in Sock, x \in Tcp
    <3>1. CASE q = s
      BY <1>1, <2>2, <2>3, <3>1 DEF Owns
    <3>2. CASE q # s
      BY <2>3, <3>2, Zenon DEF Owns
    <3>. QED
      BY <3>1, <3>2
  <2>6. Kept(g_sockets, g_tcp_sockets, g_sockets', g_tcp_sockets')
    BY <2>1, <2>5, NothingKept
  <2>. QED
    BY <1>2, <1>3, <2>1, <2>3, <2>4, <2>6 DEF Good
<1>. QED
  BY <1>4, <1>5 DEF Open

\* A step that leaves the socket table alone and lets in at most one packet.
LEMMA PacketGood ==
  ASSUME IInv, NEW late \in Late, g_tcp_sockets' = Sent(g_tcp_sockets, late),
         UNCHANGED <<g_sockets, g_udp_bindings, g_next_ephemeral_port, g_next_local_port, connecting>>
  PROVE  Good
<1>1. TcpOK(g_tcp_sockets') /\ \A e \in Tcp : Follows(g_tcp_sockets[e], g_tcp_sockets'[e])
  BY SentOK DEF IInv
<1>2. \A s \in Sock, e \in Tcp : Owns(g_sockets', s, e) <=> Owns(g_sockets, s, e)
  BY DEF Owns
<1>3. Kept(g_sockets, g_tcp_sockets, g_sockets', g_tcp_sockets')
  BY <1>1, <1>2, SameOwners
<1>. QED
  BY <1>1, <1>3 DEF Good, IInv

\* A step that changes sockets in what nobody owns an end point by.
LEMMA EntryGood ==
  ASSUME IInv, SocketsOK(g_sockets'), BindingsOK(g_udp_bindings'),
         \A s \in Sock : /\ g_sockets'[s].in_use = g_sockets[s].in_use
                         /\ g_sockets'[s].type = g_sockets[s].type
                         /\ g_sockets'[s].tcp_sock_id = g_sockets[s].tcp_sock_id,
         UNCHANGED <<g_tcp_sockets, g_next_ephemeral_port, g_next_local_port, connecting>>
  PROVE  Good
<1>1. \A s \in Sock, e \in Tcp : Owns(g_sockets', s, e) <=> Owns(g_sockets, s, e)
  BY Zenon DEF Owns
<1>2. Kept(g_sockets, g_tcp_sockets, g_sockets', g_tcp_sockets')
  BY <1>1, NothingKept
<1>3. Waiting(g_sockets', connecting')
  BY DEF IInv, Waiting
<1>. QED
  BY <1>2, <1>3 DEF Good, IInv

\* sock_listen.
LEMMA ListenGood ==
  ASSUME IInv, NEW s \in Sock, sock_listen(s)
  PROVE  Good
<1>1. g_sockets \in [Sock -> SocketEntry] /\ \A q \in Sock : Len(g_sockets[q].rx) <= RxCapacity
  BY DEF IInv, SocketsOK
<1>2. g_sockets' = [g_sockets EXCEPT ![s].listening = TRUE] /\ g_udp_bindings' = g_udp_bindings
      /\ UNCHANGED <<g_tcp_sockets, g_next_ephemeral_port, g_next_local_port, connecting>>
  BY DEF sock_listen
<1>3. /\ g_sockets' \in [Sock -> SocketEntry]
      /\ \A q \in Sock : /\ g_sockets'[q].in_use = g_sockets[q].in_use
                         /\ g_sockets'[q].type = g_sockets[q].type
                         /\ g_sockets'[q].tcp_sock_id = g_sockets[q].tcp_sock_id
                         /\ g_sockets'[q].rx = g_sockets[q].rx
  BY <1>1, <1>2 DEF SocketEntry
<1>. QED
  BY <1>1, <1>2, <1>3, EntryGood DEF SocketsOK, IInv

\* sock_bind.
LEMMA BindGood ==
  ASSUME IInv, NEW s \in Sock, NEW port \in BindPort, sock_bind(s, port)
  PROVE  Good
<1>1. g_sockets \in [Sock -> SocketEntry] /\ \A q \in Sock : Len(g_sockets[q].rx) <= RxCapacity
  BY DEF IInv, SocketsOK
<1>2. /\ g_sockets' = [g_sockets EXCEPT ![s].local_port = port]
      /\ g_udp_bindings' = IF IsDgram(s) THEN udp_bind(g_udp_bindings, port, "socket") ELSE g_udp_bindings
      /\ UNCHANGED <<g_tcp_sockets, g_next_ephemeral_port, g_next_local_port, connecting>>
  BY DEF sock_bind
<1>3. /\ g_sockets' \in [Sock -> SocketEntry]
      /\ \A q \in Sock : /\ g_sockets'[q].in_use = g_sockets[q].in_use
                         /\ g_sockets'[q].type = g_sockets[q].type
                         /\ g_sockets'[q].tcp_sock_id = g_sockets[q].tcp_sock_id
                         /\ g_sockets'[q].rx = g_sockets[q].rx
  BY <1>1, <1>2 DEF SocketEntry, Port
<1>4. BindingsOK(udp_bind(g_udp_bindings, port, "socket")) /\ BindingsOK(g_udp_bindings)
  BY BindOK DEF IInv, Port
<1>5. BindingsOK(g_udp_bindings')
  BY <1>2, <1>4
<1>. QED
  BY <1>1, <1>2, <1>3, <1>5, EntryGood DEF SocketsOK

\* connect_done.
LEMMA DoneGood ==
  ASSUME IInv, NEW s \in Sock, connect_done(s)
  PROVE  Good
<1>1. /\ connecting' = None
      /\ UNCHANGED <<g_sockets, g_tcp_sockets, g_udp_bindings, g_next_ephemeral_port, g_next_local_port>>
  BY DEF connect_done
<1>2. Kept(g_sockets, g_tcp_sockets, g_sockets', g_tcp_sockets')
  BY <1>1, NothingKept
<1>. QED
  BY <1>1, <1>2 DEF Good, IInv, Waiting

\* connect_timeout.
LEMMA TimeoutGood ==
  ASSUME IInv, NEW s \in Sock, connect_timeout(s)
  PROVE  Good
<1>. DEFINE e == g_sockets[s].tcp_sock_id
<1>1. /\ connecting = s /\ g_tcp_sockets' = WithState(g_tcp_sockets, e, "CLOSED")
      /\ connecting' = None
      /\ UNCHANGED <<g_sockets, g_udp_bindings, g_next_ephemeral_port, g_next_local_port>>
  BY DEF connect_timeout, WithState
<1>2. s # None
  BY Indices
<1>3. e \in Tcp /\ Owns(g_sockets, s, e)
  <2>1. g_sockets[s] \in SocketEntry
    BY DEF IInv, SocketsOK
  <2>2. e \in Tcp \cup {None} /\ e # None
    BY <1>1, <1>2, <2>1 DEF SocketEntry, IInv, Waiting
  <2>. QED
    BY <1>1, <1>2, <2>2 DEF IInv, Waiting, Owns
<1>. HIDE DEF e
<1>4. "CLOSED" \in TCPState
  BY DEF TCPState
<1>5. /\ TcpOK(g_tcp_sockets') /\ g_tcp_sockets'[e].in_use = g_tcp_sockets[e].in_use
      /\ g_tcp_sockets'[e].state = "CLOSED"
      /\ \A x \in Tcp : x # e => g_tcp_sockets'[x] = g_tcp_sockets[x]
  BY <1>1, <1>3, <1>4, WithStateOK DEF IInv
<1>6. \A x \in Tcp : \/ Follows(g_tcp_sockets[x], g_tcp_sockets'[x])
                     \/ /\ g_tcp_sockets'[x].state # "FIN_WAIT_1"
                        /\ g_tcp_sockets'[x].in_use => g_tcp_sockets[x].in_use
                        /\ \E q \in Sock : Owns(g_sockets, q, x)
  BY <1>3, <1>5 DEF Follows
<1>7. \A q \in Sock, x \in Tcp : Owns(g_sockets', q, x) <=> Owns(g_sockets, q, x)
  BY <1>1 DEF Owns
<1>8. Kept(g_sockets, g_tcp_sockets, g_sockets', g_tcp_sockets')
  BY <1>6, <1>7, SameOwners
<1>. QED
  BY <1>1, <1>5, <1>8 DEF Good, IInv, Waiting

\* sock_recv.
LEMMA RecvGood ==
  ASSUME IInv, NEW s \in Sock, sock_recv(s)
  PROVE  Good
<1>. DEFINE e == g_sockets[s].tcp_sock_id
<1>1. /\ g_sockets \in [Sock -> SocketEntry] /\ \A q \in Sock : Len(g_sockets[q].rx) <= RxCapacity
      /\ g_tcp_sockets \in [Tcp -> TCPEndpoint] /\ \A x \in Tcp : EndpointOK(g_tcp_sockets[x])
      /\ TcpOK(g_tcp_sockets) /\ BindingsOK(g_udp_bindings) /\ SocketsOK(g_sockets)
  BY DEF IInv, SocketsOK, TcpOK
<1>2. UNCHANGED <<g_udp_bindings, g_next_ephemeral_port, g_next_local_port, connecting>>
  BY DEF sock_recv
<1>3. CASE /\ e # None /\ g_tcp_sockets[e].rx # <<>>
           /\ g_tcp_sockets' = [g_tcp_sockets EXCEPT ![e].rx = Tail(@)] /\ g_sockets' = g_sockets
  <2>1. e \in Tcp
    BY <1>1, <1>3 DEF SocketEntry
  <2>. HIDE DEF e
  <2>. DEFINE old == g_tcp_sockets[e]
              ep == [old EXCEPT !.rx = Tail(@)]
  <2>2. g_tcp_sockets' = With(g_tcp_sockets, e, ep)
    BY <1>3 DEF With
  <2>3. old \in TCPEndpoint /\ EndpointOK(old) /\ old.rx # <<>> /\ old.rx \in Seq(Byte)
    BY <1>1, <1>3, <2>1 DEF TCPEndpoint
  <2>. HIDE DEF old
  <2>4. /\ ep \in TCPEndpoint /\ ep.rx = Tail(old.rx) /\ ep.in_use = old.in_use
        /\ ep.local_port = old.local_port /\ ep.state = old.state
    <3>1. Tail(old.rx) \in Seq(Byte)
      BY <2>3
    <3>2. ep = [old EXCEPT !.rx = Tail(old.rx)]
      OBVIOUS
    <3>. HIDE DEF ep
    <3>. QED
      BY <2>3, <3>1, <3>2 DEF TCPEndpoint
  <2>5. Len(ep.rx) = Len(old.rx) - 1 /\ \A i \in 1..Len(ep.rx) : ep.rx[i] = old.rx[i + 1]
    BY <2>3, <2>4
  <2>6. EndpointOK(ep) /\ Follows(old, ep)
    <3>1. Len(old.rx) \in Nat /\ Len(old.rx) <= RxCapacity
      BY <2>3 DEF EndpointOK
    <3>2. Len(ep.rx) <= RxCapacity /\ \A i \in 1..Len(ep.rx) : i + 1 \in 1..Len(old.rx)
      BY <2>5, <3>1, SizesAssumption
    <3>. HIDE DEF ep
    <3>. QED
      BY <2>3, <2>4, <2>5, <3>2 DEF EndpointOK, Follows
  <2>. HIDE DEF ep
  <2>7. TcpOK(g_tcp_sockets') /\ \A x \in Tcp : g_tcp_sockets'[x] = IF x = e THEN ep ELSE g_tcp_sockets[x]
    <3>1. TcpOK(g_tcp_sockets)
      BY <1>1
    <3>. QED
      BY <2>1, <2>2, <2>6, <3>1, WithOK
  <2>8. \A x \in Tcp : Follows(g_tcp_sockets[x], g_tcp_sockets'[x])
    BY <2>6, <2>7 DEF Follows, old
  <2>9. \A q \in Sock, x \in Tcp : Owns(g_sockets', q, x) <=> Owns(g_sockets, q, x)
    BY <1>3 DEF Owns
  <2>10. Kept(g_sockets, g_tcp_sockets, g_sockets', g_tcp_sockets')
    BY <2>8, <2>9, SameOwners
  <2>. QED
    BY <1>1, <1>2, <1>3, <2>7, <2>10 DEF Good, IInv
<1>4. CASE /\ g_sockets[s].rx # <<>> /\ g_sockets' = [g_sockets EXCEPT ![s].rx = Tail(@)]
           /\ g_tcp_sockets' = g_tcp_sockets
  <2>1. g_sockets[s].rx \in Seq(Byte) /\ Len(g_sockets[s].rx) \in Nat
    BY <1>1 DEF SocketEntry
  <2>2. Tail(g_sockets[s].rx) \in Seq(Byte) /\ Len(Tail(g_sockets[s].rx)) <= RxCapacity
    BY <1>1, <1>4, <2>1, SizesAssumption
  <2>3. /\ g_sockets' \in [Sock -> SocketEntry]
        /\ \A q \in Sock : /\ g_sockets'[q].in_use = g_sockets[q].in_use
                           /\ g_sockets'[q].type = g_sockets[q].type
                           /\ g_sockets'[q].tcp_sock_id = g_sockets[q].tcp_sock_id
                           /\ g_sockets'[q].rx = IF q = s THEN Tail(g_sockets[s].rx) ELSE g_sockets[q].rx
    BY <1>1, <1>4, <2>2 DEF SocketEntry
  <2>. QED
    BY <1>1, <1>2, <1>4, <2>2, <2>3, EntryGood DEF SocketsOK
<1>. QED
  BY <1>3, <1>4 DEF sock_recv

\* The end point e of the table T sends its SYN, and a packet may come in meanwhile;
\* if the SYN was not sent the end point is closed again.
LEMMA SynOK ==
  ASSUME NEW T, TcpOK(T), NEW e \in Tcp, T[e].in_use, NEW port \in RemotePort, NEW late \in Late,
         NEW syn, syn = [T EXCEPT ![e].remote_port = port, ![e].state = "SYN_SENT"],
         NEW T2, T2 = Sent(syn, late) \/ T2 = WithState(Sent(syn, late), e, "CLOSED")
  PROVE  /\ TcpOK(T2) /\ T2[e].in_use /\ T2[e].state # "FIN_WAIT_1"
         /\ \A x \in Tcp : x # e => Follows(T[x], T2[x])
<1>1. T \in [Tcp -> TCPEndpoint] /\ \A x \in Tcp : EndpointOK(T[x])
  BY DEF TcpOK
<1>2. "SYN_SENT" \in TCPState /\ "CLOSED" \in TCPState
  BY DEF TCPState
<1>3. /\ syn \in [Tcp -> TCPEndpoint]
      /\ syn[e].in_use = T[e].in_use /\ syn[e].state = "SYN_SENT" /\ syn[e].rx = T[e].rx
      /\ syn[e].local_port = T[e].local_port
      /\ \A x \in Tcp : x # e => syn[x] = T[x]
  BY <1>1, <1>2 DEF TCPEndpoint
<1>4. EndpointOK(syn[e])
  BY <1>1, <1>3, EndpointKeptOK
<1>5. TcpOK(syn)
  BY <1>1, <1>3, <1>4 DEF TcpOK
<1>. DEFINE T1 == Sent(syn, late)
<1>6. TcpOK(T1) /\ \A x \in Tcp : Follows(syn[x], T1[x])
  BY <1>5, SentOK
<1>. HIDE DEF T1
<1>7. T1[e].in_use /\ T1[e].state # "FIN_WAIT_1" /\ \A x \in Tcp : x # e => Follows(T[x], T1[x])
  BY <1>3, <1>6 DEF Follows
<1>8. CASE T2 = T1
  BY <1>6, <1>7, <1>8
<1>9. CASE T2 = WithState(T1, e, "CLOSED")
  <2>1. /\ TcpOK(T2) /\ T2[e].in_use = T1[e].in_use /\ T2[e].state = "CLOSED"
        /\ \A x \in Tcp : x # e => T2[x] = T1[x]
    BY <1>2, <1>6, <1>9, WithStateOK
  <2>. QED
    BY <1>7, <2>1
<1>. QED
  BY <1>8, <1>9 DEF T1

\* sock_connect.
LEMMA ConnectGood ==
  ASSUME IInv, NEW s \in Sock, NEW port \in RemotePort, NEW ok \in BOOLEAN, NEW late \in Late,
         sock_connect(s, port, ok, late)
  PROVE  Good
<1>. DEFINE own == g_sockets[s].tcp_sock_id
            cr == Created(g_tcp_sockets, g_next_local_port)
            made == IF own = None THEN cr ELSE [tab |-> g_tcp_sockets, id |-> own]
            e == made.id
            tab == made.tab
            alive == e \in Tcp \ FreeTcp(tab)
            syn == [tab EXCEPT ![e].remote_port = port, ![e].state = "SYN_SENT"]
<1>1. /\ g_sockets \in [Sock -> SocketEntry] /\ \A q \in Sock : Len(g_sockets[q].rx) <= RxCapacity
      /\ g_next_local_port \in FirstPort..LastTcpPort /\ g_next_local_port \in LocalPort
      /\ own \in Tcp \cup {None}
  BY NextPortIn DEF IInv, SocketsOK, SocketEntry
<1>2. TcpOK(g_tcp_sockets)
  BY DEF IInv
<1>3. /\ IsStream(s) /\ connecting = None
      /\ g_sockets' = [g_sockets EXCEPT ![s].tcp_sock_id = e]
      /\ g_next_local_port' = IF own = e THEN g_next_local_port
                              ELSE NextPort(g_next_local_port, LastTcpPort)
      /\ g_udp_bindings' = g_udp_bindings /\ g_next_ephemeral_port' = g_next_ephemeral_port
  BY DEF sock_connect, Idle
<1>4. \/ ~alive /\ g_tcp_sockets' = tab /\ connecting' = connecting
      \/ /\ alive /\ connecting' \in {None, s}
         /\ \/ g_tcp_sockets' = Sent(syn, late)
            \/ g_tcp_sockets' = WithState(Sent(syn, late), e, "CLOSED")
  BY <1>3 DEF sock_connect, WithState, Idle
<1>5. /\ TcpOK(cr.tab) /\ cr.id \in Tcp \cup {None}
      /\ cr.id = None => cr.tab = g_tcp_sockets
      /\ cr.id # None => ~g_tcp_sockets[cr.id].in_use /\ cr.tab[cr.id].in_use
      /\ \A x \in Tcp : x # cr.id => cr.tab[x] = g_tcp_sockets[x]
  BY <1>1, <1>2, CreatedOK
<1>6. /\ e \in Tcp \cup {None} /\ TcpOK(tab)
      /\ own # None => e = own /\ tab = g_tcp_sockets
      /\ own = None => e = cr.id /\ tab = cr.tab
  BY <1>1, <1>2, <1>5
<1>. HIDE DEF cr, made, e, tab, own, syn
<1>7. /\ g_sockets' \in [Sock -> SocketEntry]
      /\ \A q \in Sock : /\ g_sockets'[q].in_use = g_sockets[q].in_use
                         /\ g_sockets'[q].type = g_sockets[q].type
                         /\ g_sockets'[q].tcp_sock_id = IF q = s THEN e ELSE g_sockets[q].tcp_sock_id
                         /\ g_sockets'[q].rx = g_sockets[q].rx
  BY <1>1, <1>3, <1>6 DEF SocketEntry
<1>8. SocketsOK(g_sockets') /\ g_next_local_port' \in FirstPort..LastTcpPort
  BY <1>1, <1>3, <1>7, NextPortIn DEF SocketsOK
<1>9. \A q \in Sock, x \in Tcp : q # s => (Owns(g_sockets', q, x) <=> Owns(g_sockets, q, x))
  BY <1>7, Zenon DEF Owns
<1>10. \A x \in Tcp : Owns(g_sockets', s, x) <=> x = e
  BY <1>3, <1>7 DEF Owns, IsStream
<1>11. \A x \in Tcp : Owns(g_sockets, s, x) <=> x = own
  BY <1>3 DEF Owns, IsStream, own
<1>12. CASE ~alive /\ g_tcp_sockets' = tab /\ connecting' = connecting
  <2>1. tab = g_tcp_sockets /\ e = own
    BY <1>5, <1>6, <1>12 DEF FreeTcp
  <2>2. \A q \in Sock, x \in Tcp : Owns(g_sockets', q, x) <=> Owns(g_sockets, q, x)
    BY <1>9, <1>10, <1>11, <2>1
  <2>3. Kept(g_sockets, g_tcp_sockets, g_sockets', g_tcp_sockets')
    BY <1>12, <2>1, <2>2, NothingKept
  <2>. QED
    BY <1>3, <1>8, <1>12, <2>1, <2>3 DEF Good, IInv, Waiting
<1>13. CASE /\ alive /\ connecting' \in {None, s}
            /\ \/ g_tcp_sockets' = Sent(syn, late)
               \/ g_tcp_sockets' = WithState(Sent(syn, late), e, "CLOSED")
  <2>1. e \in Tcp /\ tab[e].in_use
    BY <1>13 DEF FreeTcp
  <2>2. /\ TcpOK(g_tcp_sockets') /\ g_tcp_sockets'[e].in_use
        /\ g_tcp_sockets'[e].state # "FIN_WAIT_1"
        /\ \A x \in Tcp : x # e => Follows(tab[x], g_tcp_sockets'[x])
    BY <1>6, <1>13, <2>1, SynOK DEF syn
  <2>3. e # None /\ connecting' \in Sock \cup {None} /\ Waiting(g_sockets', connecting')
    BY <1>3, <1>7, <1>13, <2>1, Indices DEF Waiting, IsStream
  <2>4. CASE own = None
    <3>1. \A x \in Tcp : ~Owns(g_sockets, s, x)
      BY <1>11, <2>4, Indices
    <3>2. ~g_tcp_sockets[e].in_use /\ \A x \in Tcp : x # e => tab[x] = g_tcp_sockets[x]
      BY <1>5, <1>6, <2>3, <2>4
    <3>3. \A x \in Tcp : x # e => Follows(g_tcp_sockets[x], g_tcp_sockets'[x])
      BY <2>2, <3>2
    <3>4. Kept(g_sockets, g_tcp_sockets, g_sockets', g_tcp_sockets')
      BY <1>6, <1>9, <1>10, <2>2, <3>1, <3>2, <3>3, NewOwner
    <3>. QED
      BY <1>3, <1>8, <2>2, <2>3, <3>4 DEF Good, IInv
  <2>5. CASE own # None
    <3>1. e = own /\ tab = g_tcp_sockets
      BY <1>6, <2>5
    <3>2. \A q \in Sock, x \in Tcp : Owns(g_sockets', q, x) <=> Owns(g_sockets, q, x)
      BY <1>9, <1>10, <1>11, <3>1
    <3>3. \A x \in Tcp : \/ Follows(g_tcp_sockets[x], g_tcp_sockets'[x])
                         \/ /\ g_tcp_sockets'[x].state # "FIN_WAIT_1"
                            /\ g_tcp_sockets'[x].in_use => g_tcp_sockets[x].in_use
                            /\ \E q \in Sock : Owns(g_sockets, q, x)
      BY <1>11, <2>1, <2>2, <3>1
    <3>4. Kept(g_sockets, g_tcp_sockets, g_sockets', g_tcp_sockets')
      BY <3>2, <3>3, SameOwners
    <3>. QED
      BY <1>3, <1>8, <2>2, <2>3, <3>4 DEF Good, IInv
  <2>. QED
    BY <2>4, <2>5
<1>. QED
  BY <1>4, <1>12, <1>13

\* sock_close.
LEMMA SockCloseGood ==
  ASSUME IInv, NEW s \in Sock, NEW late \in Late, sock_close(s, late)
  PROVE  Good
<1>. DEFINE e == g_sockets[s].tcp_sock_id
<1>1. /\ g_sockets \in [Sock -> SocketEntry] /\ SocketsOK(g_sockets)
      /\ TcpOK(g_tcp_sockets) /\ BindingsOK(g_udp_bindings) /\ e \in Tcp \cup {None}
  BY DEF IInv, SocketsOK, SocketEntry
<1>2. /\ connecting = None /\ g_sockets[s].in_use
      /\ g_tcp_sockets' = IF IsStream(s) /\ e # None THEN tcp_close(g_tcp_sockets, e, late)
                          ELSE g_tcp_sockets
      /\ g_udp_bindings' = IF IsDgram(s) /\ g_sockets[s].local_port > 0
                           THEN udp_unbind(g_udp_bindings, g_sockets[s].local_port)
                           ELSE g_udp_bindings
      /\ g_sockets' = [g_sockets EXCEPT ![s] = NoSocket]
      /\ UNCHANGED <<g_next_ephemeral_port, g_next_local_port, connecting>>
  BY DEF sock_close, Idle
<1>3. NoSocket \in SocketEntry /\ Len(NoSocket.rx) <= RxCapacity /\ ~NoSocket.in_use
  <2>1. FirstPort \in Port
    BY NextPortIn DEF Port
  <2>. QED
    BY <2>1, SizesAssumption DEF NoSocket, SocketEntry
<1>4. /\ SocketsOK(g_sockets')
      /\ \A q \in Sock : g_sockets'[q] = IF q = s THEN NoSocket ELSE g_sockets[q]
  BY <1>1, <1>2, <1>3, EntrySet
<1>5. BindingsOK(g_udp_bindings')
  BY <1>1, <1>2, UnbindOK
<1>6. \A x \in Tcp : ~Owns(g_sockets', s, x)
  BY <1>3, <1>4 DEF Owns
<1>7. \A q \in Sock, x \in Tcp : q # s => (Owns(g_sockets', q, x) <=> Owns(g_sockets, q, x))
  BY <1>4, Zenon DEF Owns
<1>. HIDE DEF e
<1>8. CASE IsStream(s) /\ e # None
  <2>1. e \in Tcp
    BY <1>1, <1>8
  <2>2. /\ TcpOK(g_tcp_sockets')
        /\ g_tcp_sockets'[e].in_use => g_tcp_sockets'[e].state = "FIN_WAIT_1"
        /\ \A x \in Tcp : x # e => Follows(g_tcp_sockets[x], g_tcp_sockets'[x])
    BY <1>1, <1>2, <1>8, <2>1, CloseOK
  <2>3. \A x \in Tcp : Owns(g_sockets, s, x) <=> x = e
    BY <1>8 DEF Owns, IsStream, e
  <2>4. Kept(g_sockets, g_tcp_sockets, g_sockets', g_tcp_sockets')
    BY <1>6, <1>7, <2>2, <2>3, OwnerGone
  <2>. QED
    BY <1>2, <1>4, <1>5, <2>2, <2>4 DEF Good, IInv, Waiting
<1>9. CASE ~(IsStream(s) /\ e # None)
  <2>1. g_tcp_sockets' = g_tcp_sockets
    BY <1>2, <1>9
  <2>2. \A x \in Tcp : ~Owns(g_sockets, s, x)
    BY <1>9, Indices DEF Owns, IsStream, e
  <2>3. \A q \in Sock, x \in Tcp : Owns(g_sockets', q, x) <=> Owns(g_sockets, q, x)
    BY <1>6, <1>7, <2>2
  <2>4. Kept(g_sockets, g_tcp_sockets, g_sockets', g_tcp_sockets')
    BY <2>1, <2>3, NothingKept
  <2>. QED
    BY <1>1, <1>2, <1>4, <1>5, <2>1, <2>4 DEF Good, IInv, Waiting
<1>. QED
  BY <1>8, <1>9

\* One segment polled.
LEMMA PollTcpGood ==
  ASSUME IInv, NEW seg \in Segment, poll_tcp(seg)
  PROVE  Good
<1>1. {seg} \in Late /\ {seg} # {} /\ (CHOOSE x \in {seg} : TRUE) = seg
  BY DEF Late
<1>2. g_tcp_sockets' = Sent(g_tcp_sockets, {seg})
  BY <1>1 DEF poll_tcp, Sent
<1>. QED
  BY <1>1, <1>2, PacketGood DEF poll_tcp

\* One datagram polled.
LEMMA PollUdpGood ==
  ASSUME IInv, NEW src \in RemotePort, NEW dst \in Port, poll_udp(src, dst)
  PROVE  Good
<1>. DEFINE byte == [src |-> src, dst |-> dst]
<1>1. g_sockets \in [Sock -> SocketEntry] /\ \A q \in Sock : Len(g_sockets[q].rx) <= RxCapacity
  BY DEF IInv, SocketsOK
<1>2. byte \in Byte
  BY DEF Byte
<1>. HIDE DEF byte
<1>3. \A q \in Sock : /\ Filled(g_sockets[q].rx, byte) \in Seq(Byte)
                     /\ Len(Filled(g_sockets[q].rx, byte)) <= RxCapacity
  BY <1>1, <1>2, FilledIn DEF SocketEntry
<1>4. \A q \in Sock : g_sockets'[q] = IF IsDgram(q)
                                     THEN [g_sockets[q] EXCEPT !.rx = Filled(g_sockets[q].rx, byte)]
                                     ELSE g_sockets[q]
  BY DEF poll_udp, byte
<1>5. \A q \in Sock : /\ g_sockets'[q] \in SocketEntry
                     /\ g_sockets'[q].in_use = g_sockets[q].in_use
                     /\ g_sockets'[q].type = g_sockets[q].type
                     /\ g_sockets'[q].tcp_sock_id = g_sockets[q].tcp_sock_id
                     /\ Len(g_sockets'[q].rx) <= RxCapacity
  BY <1>1, <1>3, <1>4 DEF SocketEntry
<1>6. g_sockets' \in [Sock -> SocketEntry]
  BY <1>5 DEF poll_udp
<1>7. SocketsOK(g_sockets') /\ BindingsOK(g_udp_bindings')
  BY <1>5, <1>6 DEF SocketsOK, poll_udp, IInv
<1>8. UNCHANGED <<g_tcp_sockets, g_next_ephemeral_port, g_next_local_port, connecting>>
  BY DEF poll_udp
<1>. QED
  BY <1>5, <1>7, <1>8, EntryGood

-----------------------------------------------------------------------------
(* Theorems.                                                               *)

\* net_init establishes the invariant.
LEMMA InitOK == Init => IInv
<1>. SUFFICES ASSUME Init PROVE IInv
  OBVIOUS
<1>1. NoSocket \in SocketEntry /\ Len(NoSocket.rx) <= RxCapacity
  <2>1. FirstPort \in Port
    BY NextPortIn DEF Port
  <2>. QED
    BY <2>1, SizesAssumption DEF NoSocket, SocketEntry
<1>2. SocketsOK(g_sockets)
  BY <1>1 DEF Init, SocketsOK
<1>3. NoEndpoint \in TCPEndpoint /\ EndpointOK(NoEndpoint) /\ ~NoEndpoint.in_use
  BY SizesAssumption DEF NoEndpoint, TCPEndpoint, TCPState, EndpointOK
<1>4. TcpOK(g_tcp_sockets) /\ NoLeakIn(g_sockets, g_tcp_sockets)
  BY <1>3 DEF Init, TcpOK, NoLeakIn
<1>5. BindingsOK(g_udp_bindings)
  <2>. DEFINE dhcp == [in_use |-> TRUE, port |-> DhcpPort, handler |-> "dhcp"]
              dns == [in_use |-> TRUE, port |-> DnsPort, handler |-> "dns"]
  <2>1. \A b \in Binding : g_udp_bindings[b] = IF b = 0 THEN dhcp ELSE IF b = 1 THEN dns ELSE NoBinding
    BY DEF Init
  <2>2. dhcp \in UDPBinding /\ dns \in UDPBinding /\ NoBinding \in UDPBinding
    BY DEF UDPBinding, Port, NoBinding
  <2>3. dhcp.port = DhcpPort /\ dns.port = DnsPort /\ ~NoBinding.in_use
    BY DEF NoBinding
  <2>. HIDE DEF dhcp, dns
  <2>4. g_udp_bindings \in [Binding -> UDPBinding]
    <3>1. \A b \in Binding : g_udp_bindings[b] \in UDPBinding
      BY <2>1, <2>2
    <3>2. g_udp_bindings = [b \in Binding |-> g_udp_bindings[b]]
      BY DEF Init
    <3>. QED
      BY <3>1, <3>2
  <2>. QED
    BY <2>1, <2>3, <2>4, InputsAssumption DEF BindingsOK
<1>6. /\ g_next_ephemeral_port \in LocalPort /\ g_next_local_port \in FirstPort..LastTcpPort
      /\ connecting \in Sock \cup {None} /\ Waiting(g_sockets, connecting)
  BY NextPortIn DEF Init, Waiting
<1>. QED
  BY <1>2, <1>4, <1>5, <1>6 DEF IInv

\* Every step is good.
LEMMA StepGood == IInv /\ [Next]_vars => Good
<1>. SUFFICES ASSUME IInv, [Next]_vars PROVE Good
  OBVIOUS
<1>1. ASSUME NEW type \in Types, sock_create(type) PROVE Good
  BY <1>1, OpenGood DEF sock_create
<1>2. ASSUME NEW s \in Sock, sock_accept(s) PROVE Good
  BY <1>2, OpenGood DEF sock_accept
<1>3. ASSUME NEW s \in Sock, NEW late \in Late, sock_send(s, late) PROVE Good
  BY <1>3, PacketGood DEF sock_send
<1>4. CASE UNCHANGED vars
  <2>1. Kept(g_sockets, g_tcp_sockets, g_sockets', g_tcp_sockets')
    BY <1>4, NothingKept DEF vars
  <2>. QED
    BY <1>4, <2>1 DEF vars, Good, IInv
<1>. QED
  BY <1>1, <1>2, <1>3, <1>4, ListenGood, BindGood, ConnectGood, DoneGood, TimeoutGood, RecvGood,
     SockCloseGood, PollTcpGood, PollUdpGood DEF Next

\* The invariant holds in every reachable state.
THEOREM Invariance == Spec => []IInv
<1>1. IInv /\ [Next]_vars => IInv'
  BY StepGood DEF Good, IInv, Kept
<1>. QED
  BY <1>1, InitOK, PTL DEF Spec

\* Every table, buffer and counter keeps its type; in particular the ports handed
\* out stay in their ranges when the two counters start over.
THEOREM TypeCorrect == Spec => []TypeOK
<1>1. IInv => TypeOK
  BY NextPortIn DEF IInv, TypeOK, TcpOK, BindingsOK, SocketsOK
<1>. QED
  BY <1>1, Invariance, PTL

\* No sequence of failed connects, time-outs, resets, closes and reuse leaves an end
\* point in use that no socket refers to, unless its FIN is on its way.
THEOREM NoLeakHolds == Spec => []NoLeak
<1>1. IInv => NoLeak
  BY DEF IInv, NoLeakIn, NoLeak, Owners, IsStream, Owns
<1>. QED
  BY <1>1, Invariance, PTL

\* A connection reads only bytes sent to its own port, and no receive buffer is
\* overrun, whatever arrives and whoever used the end point before.
THEOREM OwnBytesHolds == Spec => []OwnBytes
<1>1. IInv => OwnBytes
  BY DEF IInv, TcpOK, EndpointOK, SocketsOK, OwnBytes
<1>. QED
  BY <1>1, Invariance, PTL

\* No two UDP bindings are for one port.
THEOREM BindingsUniqueHolds == Spec => []BindingsUnique
<1>1. IInv => BindingsUnique
  BY DEF IInv, BindingsOK, BindingsUnique
<1>. QED
  BY <1>1, Invariance, PTL

\* OneToOne is OneToOneIn of the state.
LEMMA OneToOneValues == IInv => (OneToOne <=> OneToOneIn(g_sockets, g_tcp_sockets))
<1>. SUFFICES ASSUME IInv PROVE OneToOne <=> OneToOneIn(g_sockets, g_tcp_sockets)
  OBVIOUS
<1>1. \A s \in Sock : g_sockets[s].tcp_sock_id \in Tcp \cup {None}
  BY DEF IInv, SocketsOK, SocketEntry
<1>2. \A s \in Sock, e \in Tcp : Owns(g_sockets, s, e) <=> s \in Owners(e)
  BY DEF Owns, Owners, IsStream
<1>3. ASSUME OneToOne PROVE OneToOneIn(g_sockets, g_tcp_sockets)
  <2>. SUFFICES ASSUME NEW s \in Sock, NEW e \in Tcp, Owns(g_sockets, s, e)
                PROVE  /\ \A r \in Sock : Owns(g_sockets, r, e) => r = s
                       /\ g_tcp_sockets[e].in_use /\ g_tcp_sockets[e].state # "FIN_WAIT_1"
    BY DEF OneToOneIn
  <2>1. IsStream(s) /\ g_sockets[s].tcp_sock_id = e /\ e # None
    BY Indices DEF Owns, IsStream
  <2>2. /\ Owners(e) = {s} /\ g_tcp_sockets[e].in_use /\ g_tcp_sockets[e].state # "FIN_WAIT_1"
    BY <1>3, <2>1 DEF OneToOne
  <2>. QED
    BY <1>2, <2>2
<1>4. ASSUME OneToOneIn(g_sockets, g_tcp_sockets) PROVE OneToOne
  <2>. SUFFICES ASSUME NEW s \in Sock, IsStream(s), NEW e, e = g_sockets[s].tcp_sock_id, e # None
                PROVE  /\ Owners(e) = {s}
                       /\ g_tcp_sockets[e].in_use /\ g_tcp_sockets[e].state # "FIN_WAIT_1"
    BY DEF OneToOne
  <2>1. e \in Tcp /\ Owns(g_sockets, s, e)
    BY <1>1 DEF Owns, IsStream
  <2>2. /\ \A r \in Sock : Owns(g_sockets, r, e) => r = s
        /\ g_tcp_sockets[e].in_use /\ g_tcp_sockets[e].state # "FIN_WAIT_1"
    BY <1>4, <2>1 DEF OneToOneIn
  <2>3. Owners(e) \subseteq Sock
    BY DEF Owners
  <2>. QED
    BY <1>2, <2>1, <2>2, <2>3
<1>. QED
  BY <1>3, <1>4

\* No call gives a socket the end point of another, and only a packet of the peer
\* ends the connection under a socket that still refers to it.
THEOREM OwnersKeptHolds == Spec => OwnersKept
<1>. DEFINE Lost == \E e \in Tcp : g_tcp_sockets[e].in_use /\ ~g_tcp_sockets'[e].in_use
                                  /\ Owners(e)' # {}
<1>1. ASSUME IInv, IInv', [Next]_vars, OneToOne
      PROVE  OneToOne' \/ Lost
  <2>1. OneToOneIn(g_sockets, g_tcp_sockets)
    BY <1>1, OneToOneValues
  <2>2. Kept(g_sockets, g_tcp_sockets, g_sockets', g_tcp_sockets')
    BY <1>1, StepGood DEF Good
  <2>3. CASE OneToOneIn(g_sockets', g_tcp_sockets')
    <3>1. (OneToOne <=> OneToOneIn(g_sockets, g_tcp_sockets))'
      BY <1>1, OneToOneValues, PTL
    <3>. QED
      BY <2>3, <3>1
  <2>4. CASE Ended(g_tcp_sockets, g_sockets', g_tcp_sockets')
    <3>1. \A s \in Sock, e \in Tcp : Owns(g_sockets', s, e) => s \in Owners(e)'
      BY DEF Owns, Owners, IsStream
    <3>. QED
      BY <2>4, <3>1 DEF Ended
  <2>. QED
    BY <2>1, <2>2, <2>3, <2>4 DEF Kept
<1>2. IInv /\ IInv' /\ [Next]_vars => [OneToOne => OneToOne' \/ Lost]_vars
  BY <1>1
<1>. QED
  BY <1>2, Invariance, PTL DEF Spec, OwnersKept

=============================================================================
