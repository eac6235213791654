------------------------------ MODULE Sockets ------------------------------
(***************************************************************************)
(* Sockets, TCP end points and UDP bindings: kernel/net/socket.cpp,        *)
(* tcp.cpp and udp.cpp.                                                    *)
(*                                                                         *)
(* A call is one step, except connect, which waits while packets come in.  *)
(* Packets are handled only by polling; some call polls at any time.  A    *)
(* send whose next hop is not in the ARP cache polls while it waits for the *)
(* answer (ipv4_send): one packet may be handled in the middle of the call. *)
(* The handler's own acknowledgements find the next hop in the cache.      *)
(*                                                                         *)
(* The network may lose, repeat, delay and reorder packets, and peers may  *)
(* send what they like: any segment may arrive at any time.  Sequence      *)
(* numbers are written into headers and never read, and the address of a   *)
(* segment's sender is not compared with anything: both are left out.  A   *)
(* payload is one byte, which says where it came from and where it went.   *)
(* A socket's own copy of the peer's address and its connected flag are    *)
(* only reported to callers and are left out; connect on a datagram socket *)
(* sets nothing else.                                                      *)
(***************************************************************************)
EXTENDS Integers, Sequences, FiniteSets

CONSTANTS
  MAX_SOCKETS,       \* entries of g_sockets
  MAX_TCP_SOCKETS,   \* end points
  MAX_UDP_BINDINGS,  \* entries of g_udp_bindings
  FirstPort,         \* 49152: the first port handed out
  LastPort,          \* 65535: the last port, where socket.cpp starts over
  LastTcpPort,       \* 64999: where tcp.cpp starts over
  RemotePort,        \* ports of peers
  BindPort,          \* ports callers pass to bind
  DnsPort, DhcpPort, \* 53 and 68
  Types,             \* the types of sockets callers create
  PeerFlags,         \* the sets of flags on segments of peers
  RxCapacity         \* bytes a receive buffer has room for

Sock == 0..(MAX_SOCKETS - 1)
Tcp == 0..(MAX_TCP_SOCKETS - 1)
Binding == 0..(MAX_UDP_BINDINGS - 1)
None == -1
LocalPort == FirstPort..LastPort
Port == LocalPort \cup BindPort \cup {DnsPort, DhcpPort}
Flag == {"SYN", "ACK", "FIN", "RST"}
TCPState == {"CLOSED", "SYN_SENT", "ESTABLISHED", "FIN_WAIT_1"}
Byte == [src : RemotePort, dst : Port]
\* full: with data, which a reset does not have.
Segment == {seg \in [src : RemotePort, dst : LocalPort, flags : PeerFlags, full : BOOLEAN] :
              ~("RST" \in seg.flags /\ seg.full)}

ASSUME SizesAssumption ==
  /\ MAX_SOCKETS \in Nat /\ MAX_TCP_SOCKETS \in Nat /\ MAX_UDP_BINDINGS \in Nat \ {0, 1}
  /\ FirstPort \in Nat \ {0} /\ LastPort \in Nat /\ FirstPort <= LastPort
  /\ LastTcpPort \in LocalPort
  /\ RxCapacity \in Nat
ASSUME InputsAssumption ==
  /\ RemotePort \subseteq Nat \ {0} /\ BindPort \subseteq Nat
  /\ DnsPort \in Nat \ {0} /\ DhcpPort \in Nat \ {0} /\ DnsPort # DhcpPort
  /\ Types \subseteq {"SOCK_STREAM", "SOCK_DGRAM"}
  /\ PeerFlags \subseteq SUBSET Flag

VARIABLES
  g_sockets,              \* socket -> SocketEntry
  g_tcp_sockets,          \* end point -> TCPEndpoint
  g_udp_bindings,         \* binding -> UDPBinding
  g_next_ephemeral_port,  \* socket.cpp's counter
  g_next_local_port,      \* tcp.cpp's counter
  connecting              \* the socket whose connect waits, or None

vars == <<g_sockets, g_tcp_sockets, g_udp_bindings, g_next_ephemeral_port,
          g_next_local_port, connecting>>

\* A remote port of 0: none yet.
SocketEntry ==
  [in_use : BOOLEAN, type : {"SOCK_STREAM", "SOCK_DGRAM"}, tcp_sock_id : Tcp \cup {None},
   local_port : Port, listening : BOOLEAN, rx : Seq(Byte)]
TCPEndpoint ==
  [in_use : BOOLEAN, state : TCPState, local_port : LocalPort \cup {0},
   remote_port : RemotePort \cup {0}, rx : Seq(Byte)]
UDPBinding == [in_use : BOOLEAN, port : Port \cup {0}, handler : {"none", "socket", "dns", "dhcp"}]

Lowest(S) == CHOOSE n \in S : \A m \in S : n <= m
NextPort(port, last) == IF port = last THEN FirstPort ELSE port + 1

-----------------------------------------------------------------------------
(* tcp.cpp.  T is the state of all end points.                             *)

\* Faulty variant: an end point that is not connected counts as free.
FreeTcpClosed(T) == {e \in Tcp : T[e].state = "CLOSED"}

FreeTcp(T) == {e \in Tcp : ~T[e].in_use}

\* Faulty variant: what the last connection left unread stays.
EndpointKept(T, e, port) ==
  [T[e] EXCEPT !.in_use = TRUE, !.state = "CLOSED", !.local_port = port, !.remote_port = 0]

Endpoint(T, e, port) ==
  [in_use |-> TRUE, state |-> "CLOSED", local_port |-> port, remote_port |-> 0, rx |-> <<>>]

\* tcp_socket_create: the table, and the end point or None.
Created(T, port) ==
  LET e == Lowest(FreeTcp(T))
  IN  IF FreeTcp(T) = {} THEN [tab |-> T, id |-> None]
      ELSE [tab |-> [T EXCEPT ![e] = Endpoint(T, e, port)], id |-> e]

Freed(ep) == [ep EXCEPT !.state = "CLOSED", !.in_use = FALSE]

\* The end points a segment can concern, in the order the table is searched.
Takers(T, seg) ==
  {e \in Tcp :
    /\ T[e].in_use /\ T[e].local_port = seg.dst /\ (T[e].remote_port = 0 \/ T[e].remote_port = seg.src)
    /\ \/ T[e].state \in {"ESTABLISHED", "FIN_WAIT_1"}
       \/ T[e].state = "SYN_SENT" /\ {"SYN", "ACK"} \subseteq seg.flags}

\* What does not fit is dropped (and acknowledged).
Filled(rx, byte) == IF Len(rx) < RxCapacity THEN Append(rx, byte) ELSE rx

After(ep, seg) ==
  CASE ep.state = "SYN_SENT" -> [ep EXCEPT !.state = "ESTABLISHED"]
    [] ep.state = "ESTABLISHED" /\ "RST" \in seg.flags -> Freed(ep)
    [] ep.state = "ESTABLISHED" /\ "RST" \notin seg.flags ->
         LET read == IF seg.full
                     THEN [ep EXCEPT !.rx = Filled(@, [src |-> seg.src, dst |-> seg.dst])] ELSE ep
         IN  IF "FIN" \in seg.flags THEN Freed(read) ELSE read
    [] OTHER -> IF "ACK" \in seg.flags THEN Freed(ep) ELSE ep

tcp_handle_packet(T, seg) ==
  LET e == Lowest(Takers(T, seg))
  IN  IF Takers(T, seg) = {} THEN T ELSE [T EXCEPT ![e] = After(@, seg)]

\* A segment nobody takes changes nothing: as if none had come.
Concerns(T, late) == \A seg \in late : Takers(T, seg) # {}

\* A send, and the packet handled while it waited, if any.
Sent(T, late) == IF late = {} THEN T ELSE tcp_handle_packet(T, CHOOSE seg \in late : TRUE)

\* Faulty variant: a connection in any state is only marked.
tcp_close_marks(T, e, late) == [T EXCEPT ![e].state = "CLOSED"]

tcp_close(T, e, late) ==
  IF ~T[e].in_use THEN T
  ELSE IF T[e].state = "ESTABLISHED" THEN [Sent(T, late) EXCEPT ![e].state = "FIN_WAIT_1"]
  ELSE [T EXCEPT ![e] = Freed(@)]

-----------------------------------------------------------------------------
(* udp.cpp.  B is the state of all bindings.                               *)

BoundTo(B, port) == {b \in Binding : B[b].in_use /\ B[b].port = port}
FreeBindings(B) == {b \in Binding : ~B[b].in_use}

\* Faulty variant: a binding of the same port is not looked for.
udp_bind_always(B, port, handler) ==
  IF port = 0 \/ FreeBindings(B) = {} THEN B
  ELSE [B EXCEPT ![Lowest(FreeBindings(B))] = [in_use |-> TRUE, port |-> port, handler |-> handler]]

udp_bind(B, port, handler) ==
  IF port = 0 THEN B
  ELSE IF BoundTo(B, port) # {} THEN [B EXCEPT ![Lowest(BoundTo(B, port))].handler = handler]
  ELSE IF FreeBindings(B) = {} THEN B
  ELSE [B EXCEPT ![Lowest(FreeBindings(B))] = [in_use |-> TRUE, port |-> port, handler |-> handler]]

udp_unbind(B, port) ==
  IF BoundTo(B, port) = {} THEN B
  ELSE [B EXCEPT ![Lowest(BoundTo(B, port))] = [@ EXCEPT !.in_use = FALSE, !.handler = "none"]]

-----------------------------------------------------------------------------
(* socket.cpp.                                                             *)

Idle == connecting = None
IsStream(s) == g_sockets[s].in_use /\ g_sockets[s].type = "SOCK_STREAM"
IsDgram(s) == g_sockets[s].in_use /\ g_sockets[s].type = "SOCK_DGRAM"
FreeSockets == {s \in Sock : ~g_sockets[s].in_use}
Late == {{}} \cup {{seg} : seg \in Segment}

NoSocket ==
  [in_use |-> FALSE, type |-> "SOCK_STREAM", tcp_sock_id |-> None, local_port |-> FirstPort,
   listening |-> FALSE, rx |-> <<>>]

Opened(type, id) ==
  [in_use |-> TRUE, type |-> type, tcp_sock_id |-> id, local_port |-> g_next_ephemeral_port,
   listening |-> FALSE, rx |-> <<>>]

\* A stream socket is made even when there is no end point for it, and a
\* datagram socket even when its port cannot be bound.
Open(type) ==
  LET s == Lowest(FreeSockets)
      made == Created(g_tcp_sockets, g_next_local_port)
  IN  /\ FreeSockets # {}
      /\ g_next_ephemeral_port' = NextPort(g_next_ephemeral_port, LastPort)
      /\ \/ /\ type = "SOCK_STREAM"
            /\ g_sockets' = [g_sockets EXCEPT ![s] = Opened(type, made.id)]
            /\ g_tcp_sockets' = made.tab
            /\ g_next_local_port' = IF made.id = None THEN g_next_local_port
                                    ELSE NextPort(g_next_local_port, LastTcpPort)
            /\ UNCHANGED g_udp_bindings
         \/ /\ type = "SOCK_DGRAM"
            /\ g_sockets' = [g_sockets EXCEPT ![s] = Opened(type, None)]
            /\ g_udp_bindings' = udp_bind(g_udp_bindings, g_next_ephemeral_port, "socket")
            /\ UNCHANGED <<g_tcp_sockets, g_next_local_port>>

sock_create(type) == Idle /\ Open(type) /\ UNCHANGED connecting

sock_accept(s) ==
  /\ Idle /\ g_sockets[s].in_use /\ g_sockets[s].listening
  /\ Open(g_sockets[s].type)
  /\ UNCHANGED connecting

sock_listen(s) ==
  /\ Idle /\ IsStream(s)
  /\ g_sockets' = [g_sockets EXCEPT ![s].listening = TRUE]
  /\ UNCHANGED <<g_tcp_sockets, g_udp_bindings, g_next_ephemeral_port, g_next_local_port, connecting>>

\* The socket's former port stays bound.
sock_bind(s, port) ==
  /\ Idle /\ g_sockets[s].in_use
  /\ g_sockets' = [g_sockets EXCEPT ![s].local_port = port]
  /\ g_udp_bindings' = IF IsDgram(s) THEN udp_bind(g_udp_bindings, port, "socket") ELSE g_udp_bindings
  /\ UNCHANGED <<g_tcp_sockets, g_next_ephemeral_port, g_next_local_port, connecting>>

\* sock_connect and tcp_connect up to the wait, if the answer did not come while
\* the SYN waited for ARP.  ok: whether the SYN was sent.
sock_connect(s, port, ok, late) ==
  LET made == IF g_sockets[s].tcp_sock_id = None THEN Created(g_tcp_sockets, g_next_local_port)
              ELSE [tab |-> g_tcp_sockets, id |-> g_sockets[s].tcp_sock_id]
      e == made.id
      alive == e \in Tcp \ FreeTcp(made.tab)
      syn == [made.tab EXCEPT ![e].remote_port = port, ![e].state = "SYN_SENT"]
      there == Sent(syn, late)[e].state = "ESTABLISHED"
  IN  /\ Idle /\ IsStream(s)
      /\ late # {} => alive /\ Concerns(syn, late)
      /\ g_sockets' = [g_sockets EXCEPT ![s].tcp_sock_id = e]
      /\ g_next_local_port' = IF g_sockets[s].tcp_sock_id = e THEN g_next_local_port
                              ELSE NextPort(g_next_local_port, LastTcpPort)
      /\ \/ /\ ~alive
            /\ g_tcp_sockets' = made.tab /\ UNCHANGED connecting
         \/ /\ alive /\ ok
            /\ g_tcp_sockets' = Sent(syn, late) /\ connecting' = IF there THEN None ELSE s
         \/ /\ alive /\ ~ok
            /\ g_tcp_sockets' = [Sent(syn, late) EXCEPT ![e].state = "CLOSED"]
            /\ UNCHANGED connecting
      /\ UNCHANGED <<g_udp_bindings, g_next_ephemeral_port>>

\* tcp_connect returns true when the connection is there, or after 20000 polls.
connect_done(s) ==
  /\ connecting = s
  /\ connecting' = None
  /\ UNCHANGED <<g_sockets, g_tcp_sockets, g_udp_bindings, g_next_ephemeral_port, g_next_local_port>>

\* The time is looked at after a poll, which may just have let the answer in.
connect_timeout(s) ==
  LET e == g_sockets[s].tcp_sock_id
  IN  /\ connecting = s
      /\ g_tcp_sockets' = [g_tcp_sockets EXCEPT ![e].state = "CLOSED"]
      /\ connecting' = None
      /\ UNCHANGED <<g_sockets, g_udp_bindings, g_next_ephemeral_port, g_next_local_port>>

\* A send changes nothing but through the packet it lets in.  sock_sendto names
\* the receiver itself, so a datagram socket needs no peer.
sock_send(s, late) ==
  LET e == g_sockets[s].tcp_sock_id
  IN  /\ Idle
      /\ Concerns(g_tcp_sockets, late)
      /\ \/ IsStream(s) /\ e # None /\ g_tcp_sockets[e].in_use /\ g_tcp_sockets[e].state = "ESTABLISHED"
         \/ IsDgram(s)
      /\ g_tcp_sockets' = Sent(g_tcp_sockets, late)
      /\ UNCHANGED <<g_sockets, g_udp_bindings, g_next_ephemeral_port, g_next_local_port, connecting>>

\* A read of one byte; longer ones are several.
sock_recv(s) ==
  LET e == g_sockets[s].tcp_sock_id
  IN  /\ Idle
      /\ \/ /\ IsStream(s) /\ e # None /\ g_tcp_sockets[e].in_use /\ g_tcp_sockets[e].rx # <<>>
            /\ g_tcp_sockets' = [g_tcp_sockets EXCEPT ![e].rx = Tail(@)]
            /\ UNCHANGED g_sockets
         \/ /\ IsDgram(s) /\ g_sockets[s].rx # <<>>
            /\ g_sockets' = [g_sockets EXCEPT ![s].rx = Tail(@)]
            /\ UNCHANGED g_tcp_sockets
      /\ UNCHANGED <<g_udp_bindings, g_next_ephemeral_port, g_next_local_port, connecting>>

\* What the entry keeps of its other fields, nothing reads before sock_create
\* sets it again.
sock_close(s, late) ==
  LET e == g_sockets[s].tcp_sock_id
  IN  /\ Idle /\ g_sockets[s].in_use
      /\ late # {} => IsStream(s) /\ e # None /\ Concerns(g_tcp_sockets, late)
      /\ g_tcp_sockets' = IF IsStream(s) /\ e # None THEN tcp_close(g_tcp_sockets, e, late)
                          ELSE g_tcp_sockets
      /\ g_udp_bindings' = IF IsDgram(s) /\ g_sockets[s].local_port > 0
                           THEN udp_unbind(g_udp_bindings, g_sockets[s].local_port)
                           ELSE g_udp_bindings
      /\ g_sockets' = [g_sockets EXCEPT ![s] = NoSocket]
      /\ UNCHANGED <<g_next_ephemeral_port, g_next_local_port, connecting>>

\* net_poll, one packet.
poll_tcp(seg) ==
  /\ Concerns(g_tcp_sockets, {seg})
  /\ g_tcp_sockets' = tcp_handle_packet(g_tcp_sockets, seg)
  /\ UNCHANGED <<g_sockets, g_udp_bindings, g_next_ephemeral_port, g_next_local_port, connecting>>

\* udp_handle_packet and udp_socket_rx_callback: every datagram socket gets it.
poll_udp(src, dst) ==
  /\ BoundTo(g_udp_bindings, dst) # {}
  /\ g_udp_bindings[Lowest(BoundTo(g_udp_bindings, dst))].handler = "socket"
  /\ g_sockets' = [s \in Sock |->
       IF IsDgram(s) THEN [g_sockets[s] EXCEPT !.rx = Filled(@, [src |-> src, dst |-> dst])]
       ELSE g_sockets[s]]
  /\ UNCHANGED <<g_tcp_sockets, g_udp_bindings, g_next_ephemeral_port, g_next_local_port, connecting>>

-----------------------------------------------------------------------------
NoEndpoint ==
  [in_use |-> FALSE, state |-> "CLOSED", local_port |-> 0, remote_port |-> 0, rx |-> <<>>]
NoBinding == [in_use |-> FALSE, port |-> 0, handler |-> "none"]

\* net_init: DHCP and DNS bind their ports before there are sockets.
Init ==
  /\ g_sockets = [s \in Sock |-> NoSocket]
  /\ g_tcp_sockets = [e \in Tcp |-> NoEndpoint]
  /\ g_udp_bindings = [b \in Binding |->
       CASE b = 0 -> [in_use |-> TRUE, port |-> DhcpPort, handler |-> "dhcp"]
         [] b = 1 -> [in_use |-> TRUE, port |-> DnsPort, handler |-> "dns"]
         [] OTHER -> NoBinding]
  /\ g_next_ephemeral_port = FirstPort
  /\ g_next_local_port = FirstPort
  /\ connecting = None

Next ==
  \/ \E type \in Types : sock_create(type)
  \/ \E s \in Sock : sock_accept(s)
  \/ \E s \in Sock : sock_listen(s)
  \/ \E s \in Sock, port \in BindPort : sock_bind(s, port)
  \/ \E s \in Sock, port \in RemotePort, ok \in BOOLEAN, late \in Late : sock_connect(s, port, ok, late)
  \/ \E s \in Sock : connect_done(s)
  \/ \E s \in Sock : connect_timeout(s)
  \/ \E s \in Sock, late \in Late : sock_send(s, late)
  \/ \E s \in Sock : sock_recv(s)
  \/ \E s \in Sock, late \in Late : sock_close(s, late)
  \/ \E seg \in Segment : poll_tcp(seg)
  \/ \E src \in RemotePort, dst \in Port : poll_udp(src, dst)

Spec == Init /\ [][Next]_vars

-----------------------------------------------------------------------------
(* Properties.                                                             *)

\* Receive buffers never hold more than they have room for, ports stay in
\* their range when the counters start over, and end points are end points.
TypeOK ==
  /\ g_sockets \in [Sock -> SocketEntry]
  /\ g_tcp_sockets \in [Tcp -> TCPEndpoint]
  /\ g_udp_bindings \in [Binding -> UDPBinding]
  /\ g_next_ephemeral_port \in LocalPort /\ g_next_local_port \in LocalPort
  /\ connecting \in Sock \cup {None}

Owners(e) == {s \in Sock : IsStream(s) /\ g_sockets[s].tcp_sock_id = e}

\* Only tcp_close gives an end point back to the pool, and only a socket can
\* call it: an end point in use that no socket refers to is one whose FIN is
\* on its way.  Failed connects, resets and reuse leave no other behind.
NoLeak ==
  \A e \in Tcp : g_tcp_sockets[e].in_use /\ g_tcp_sockets[e].state # "FIN_WAIT_1" => Owners(e) # {}

\* The bytes a connection has unread were sent to its own port, whatever
\* connections used the end point before and whatever still arrives for them,
\* and no buffer, of an end point or of a datagram socket, is overrun.
OwnBytes ==
  /\ \A e \in Tcp :
       /\ Len(g_tcp_sockets[e].rx) <= RxCapacity
       /\ g_tcp_sockets[e].in_use =>
            \A i \in 1..Len(g_tcp_sockets[e].rx) :
              g_tcp_sockets[e].rx[i].dst = g_tcp_sockets[e].local_port
  /\ \A s \in Sock : Len(g_sockets[s].rx) <= RxCapacity

\* No two bindings are for one port: udp_handle_packet stops at the first.
BindingsUnique ==
  \A b, c \in Binding : g_udp_bindings[b].in_use /\ g_udp_bindings[c].in_use
    /\ g_udp_bindings[b].port = g_udp_bindings[c].port => b = c

OneToOne ==
  \A s \in Sock : IsStream(s) /\ g_sockets[s].tcp_sock_id # None =>
    LET e == g_sockets[s].tcp_sock_id
    IN  /\ Owners(e) = {s}
        /\ g_tcp_sockets[e].in_use /\ g_tcp_sockets[e].state # "FIN_WAIT_1"

\* The end point of a socket is its own, and alive, until a packet of the peer
\* ends the connection: only tcp_handle_packet frees an end point under a socket
\* that still refers to it.  No call gives a socket the end point of another.
OwnersKept ==
  [][OneToOne => \/ OneToOne'
                 \/ \E e \in Tcp : g_tcp_sockets[e].in_use /\ ~g_tcp_sockets'[e].in_use
                                  /\ Owners(e)' # {}]_vars

=============================================================================
