-------------------------------- MODULE Link --------------------------------
(***************************************************************************)
(* The address cache, sends that wait for it, and the address of the       *)
(* machine (kernel/net/arp.cpp, ipv4.cpp, ethernet.cpp, dhcp.cpp, net.cpp). *)
(*                                                                         *)
(* ipv4_send polls while it waits for the address of the next hop.  Packets *)
(* handled by this poll may be answered by further sends, which wait in    *)
(* turn, so sends nest (waits).  A send goes by the configuration it read  *)
(* first, while an acknowledgement handled meanwhile may change it.        *)
(*                                                                         *)
(* Hosts answer ARP truthfully.  A hardware address is named after its     *)
(* host, an address of this machine, like the other values of the          *)
(* configuration, after the server it comes from.  Packets that are neither *)
(* answered nor for ARP or DHCP do not show here.                          *)
(***************************************************************************)
EXTENDS Integers, Sequences, FiniteSets, FiniteSetsExt, SequencesExt

CONSTANTS
  Peer,            \* hosts on the local network
  Gateway,         \* the one that forwards
  Far,             \* hosts behind it
  Server,          \* DHCP servers
  Partial,         \* the servers that leave all options out
  ARP_CACHE_SIZE,
  Polls,           \* 50000: polls of a send that waits
  MaxPackets,      \* bound on packets that arrive
  Words            \* 16-bit words a header may hold

ASSUME HostsAssumption ==
  Gateway \in Peer /\ Peer \cap Far = {} /\ Partial \subseteq Server

ASSUME LinkAssumption ==
  ARP_CACHE_SIZE \in Nat \ {0} /\ Polls \in Nat \ {0} /\ MaxPackets \in Nat

Base == 65536     \* 2^16

ASSUME WordsAssumption == Words \subseteq 0..(Base - 1)

VARIABLES
  g_if_config,   \* ip, netmask, gateway and dns: who supplied them
  g_arp_cache,
  waits,         \* the sends that wait, the innermost last
  dhcp,          \* what the callback keeps, and where dhcp_discover is
  requested,     \* what the request has named
  late,          \* an acknowledgement without options came after the fallback
  sent,          \* the last IPv4 frame
  packets,
  header         \* the words of an IPv4 header but its checksum

linkVars == <<g_if_config, g_arp_cache, waits, dhcp, requested, late, sent, packets, header>>

None == "none"
Entry == 1..ARP_CACHE_SIZE
NoConfig == [ip |-> None, netmask |-> None, gateway |-> None, dns |-> None]
Supplied(s) == [ip |-> s, netmask |-> s, gateway |-> s, dns |-> s]
Fallback == Supplied("fallback")

----------------------------------------------------------------------------
(* The address cache.                                                      *)

Cached(cache, ip) == {e \in Entry : cache[e].ip = ip /\ ip # None}
FreeEntries(cache) == {e \in Entry : cache[e].ip = None}

\* Faulty variant: the entry that is replaced keeps its hardware address.
Replaced_ip(cache, ip, mac) == [cache EXCEPT ![1].ip = ip]

ReplacedEntry(cache, ip, mac) == [cache EXCEPT ![1] = [ip |-> ip, mac |-> mac]]

\* Addresses are only valid together with their entry: a free entry is at None.
arp_insert(cache, ip, mac) ==
  IF Cached(cache, ip) # {}
  THEN [cache EXCEPT ![Min(Cached(cache, ip))].mac = mac]
  ELSE IF FreeEntries(cache) # {}
       THEN [cache EXCEPT ![Min(FreeEntries(cache))] = [ip |-> ip, mac |-> mac]]
       ELSE ReplacedEntry(cache, ip, mac)

arp_lookup(ip) == LET hits == Cached(g_arp_cache, ip)
                  IN  IF hits = {} THEN None ELSE g_arp_cache[Min(hits)].mac

----------------------------------------------------------------------------
(* Sends.                                                                  *)

\* Without a netmask every host seems near.
NextHop(dst) ==
  IF g_if_config.netmask = None \/ dst \in Peer THEN dst
  ELSE IF g_if_config.gateway = None THEN None ELSE Gateway

Frame(dst, mac) == sent' = [dst |-> dst, mac |-> mac]

\* A command sends, or a handler answers.
ipv4_send(dst) ==
  LET hop == NextHop(dst)
  IN  IF arp_lookup(hop) # None
      THEN Frame(dst, arp_lookup(hop)) /\ UNCHANGED waits
      ELSE /\ waits' = Append(waits, [dst |-> dst, hop |-> hop, polls |-> 0])
           /\ UNCHANGED sent

command_sends(dst) ==
  /\ waits = <<>> /\ dhcp.stage = "done" /\ packets < MaxPackets
  /\ ipv4_send(dst)
  /\ packets' = packets + 1
  /\ UNCHANGED <<g_if_config, g_arp_cache, dhcp, requested, late, header>>

\* Faulty variant: polls that find nothing are not counted.
Polled_freely(w) == w

Polled(w) == [w EXCEPT !.polls = @ + 1]

\* The innermost send looks again after its poll: it goes on, polls again or
\* gives up.
ipv4_send_wait ==
  /\ waits # <<>>
  /\ LET w == Last(waits)
         mac == arp_lookup(w.hop)
     IN  \/ /\ mac # None
            /\ Frame(w.dst, mac)
            /\ waits' = Front(waits)
         \/ /\ mac = None /\ w.polls < Polls
            /\ waits' = Front(waits) \o <<Polled(w)>>
            /\ UNCHANGED sent
         \/ /\ mac = None /\ w.polls >= Polls
            /\ waits' = Front(waits)
            /\ UNCHANGED sent
  /\ UNCHANGED <<g_if_config, g_arp_cache, dhcp, requested, late, packets, header>>

----------------------------------------------------------------------------
(* Packets.  Any call polls, so they arrive at any time.                   *)

Arrival == packets < MaxPackets /\ packets' = packets + 1

\* An ARP packet, a reply or a request.  A request for this machine is answered
\* by a frame that needs no lookup.
arp_handle_packet(p) ==
  /\ Arrival
  /\ g_arp_cache' = arp_insert(g_arp_cache, p, p)
  /\ UNCHANGED <<g_if_config, waits, dhcp, requested, late, sent, header>>

\* An echo request or a segment: its handler answers with a send.
ipv4_handle_packet(src) ==
  /\ Arrival
  /\ ipv4_send(src)
  /\ UNCHANGED <<g_if_config, g_arp_cache, dhcp, requested, late, header>>

Offered(s) == [dhcp EXCEPT !.offered_ip = s, !.server_ip = s, !.offer_received = TRUE]

\* Every server offers once it has heard the request for offers, and may do so late.
dhcp_offer(s) ==
  /\ Arrival /\ dhcp.stage # "start"
  /\ dhcp' = Offered(s)
  /\ UNCHANGED <<g_if_config, g_arp_cache, waits, requested, late, sent, header>>

Configured(s) ==
  IF s \in Partial THEN [g_if_config EXCEPT !.ip = s] ELSE Supplied(s)

\* The server that was named acknowledges, perhaps late or twice.
dhcp_ack ==
  LET s == requested.server
  IN  /\ Arrival /\ s # None /\ requested.ip = s
      /\ g_if_config' = Configured(s)
      /\ dhcp' = [dhcp EXCEPT !.ack_received = TRUE, !.configured = TRUE]
      /\ late' = (late \/ (s \in Partial /\ g_if_config = Fallback))
      /\ UNCHANGED <<g_arp_cache, waits, requested, sent, header>>

----------------------------------------------------------------------------
(* dhcp_discover, at boot: broadcasts, which wait for nobody.              *)

dhcp_send_discover ==
  /\ dhcp.stage = "start"
  /\ dhcp' = [dhcp EXCEPT !.stage = "offer", !.offer_received = FALSE, !.ack_received = FALSE]
  /\ UNCHANGED <<g_if_config, g_arp_cache, waits, requested, late, sent, packets, header>>

dhcp_send_request ==
  /\ dhcp.stage = "offer" /\ dhcp.offer_received /\ waits = <<>>
  /\ dhcp' = [dhcp EXCEPT !.stage = "ack"]
  /\ requested' = [ip |-> dhcp.offered_ip, server |-> dhcp.server_ip]
  /\ UNCHANGED <<g_if_config, g_arp_cache, waits, late, sent, packets, header>>

Settled == IF dhcp.configured THEN g_if_config ELSE Fallback

\* An acknowledgement was heard, the time is up, or the polls are.
dhcp_discover_ends ==
  /\ waits = <<>>
  /\ dhcp.stage = "ack" \/ (dhcp.stage = "offer" /\ ~dhcp.offer_received)
  /\ g_if_config' = Settled
  /\ dhcp' = [dhcp EXCEPT !.stage = "done", !.configured = TRUE]
  /\ UNCHANGED <<g_arp_cache, waits, requested, late, sent, packets, header>>

----------------------------------------------------------------------------
(* The checksum of a header: the complement of the sum of its words, with  *)
(* the carries added in.                                                   *)

Folded[sum \in Nat] == IF sum < Base THEN sum ELSE Folded[(sum % Base) + (sum \div Base)]

FoldCarries(sum) == Folded[sum]

Total(words) ==
  LET sum[i \in 0..Len(words)] == IF i = 0 THEN 0 ELSE sum[i - 1] + words[i] IN sum[Len(words)]

ipv4_checksum(words) == (Base - 1) - (FoldCarries(Total(words)) % Base)

----------------------------------------------------------------------------
LinkInit ==
  /\ g_if_config = NoConfig
  /\ g_arp_cache = [e \in Entry |-> [ip |-> None, mac |-> None]]
  /\ waits = <<>>
  /\ dhcp = [stage |-> "start", offered_ip |-> None, server_ip |-> None,
             offer_received |-> FALSE, ack_received |-> FALSE, configured |-> FALSE]
  /\ requested = [ip |-> None, server |-> None]
  /\ late = FALSE /\ sent = [dst |-> None, mac |-> None] /\ packets = 0
  /\ header \in (Words \X Words \X Words)

LinkNext ==
  \/ \E h \in Peer \cup Far : command_sends(h) \/ ipv4_handle_packet(h)
  \/ ipv4_send_wait
  \/ \E p \in Peer : arp_handle_packet(p)
  \/ \E s \in Server : dhcp_offer(s)
  \/ dhcp_ack \/ dhcp_send_discover \/ dhcp_send_request \/ dhcp_discover_ends

LinkSpec == LinkInit /\ [][LinkNext]_linkVars /\ WF_linkVars(ipv4_send_wait)

----------------------------------------------------------------------------
(* Properties.                                                             *)

\* An IPv4 frame goes to the hardware address of its destination, or of the
\* gateway for a host behind it, even if the cache has overflowed and other
\* sends have come between.
FramesReach ==
  sent.dst # None => sent.mac = IF sent.dst \in Peer THEN sent.dst ELSE Gateway

\* Sends nest while they wait for ARP, to any depth, but as packets do not
\* arrive for ever all of them come to an end.
SendsEnd == waits # <<>> ~> waits = <<>>

\* dhcp_send_request names the server whose address it asks for, whatever offers
\* have arrived before and since.
RequestConsistent == requested.ip = requested.server

\* The configuration is not a mixture: what is set comes from the server whose
\* address is used, or all of it is the fallback, unless a server that gives no
\* options acknowledges after the fallback was taken.
ConfigWhole ==
  late \/ \A field \in DOMAIN g_if_config : g_if_config[field] \in {None, g_if_config.ip}

\* ipv4_handle_packet accepts a header as ipv4_send completes it, and rejects it
\* with any one word changed (0 and 65535 are the same to a checksum).
ChecksumGuards ==
  LET whole == Append(header, ipv4_checksum(Append(header, 0)))
  IN  /\ ipv4_checksum(whole) = 0
      /\ \A i \in DOMAIN header, w \in Words :
           (w - header[i]) % 65535 # 0 => ipv4_checksum([whole EXCEPT ![i] = w]) # 0

\* What is sent reaches the host it is for, under a configuration that is one
\* server's, with a header whose checksum tells (arp.cpp, dhcp.cpp, ipv4.cpp).
LinkSound == FramesReach /\ RequestConsistent /\ ConfigWhole /\ ChecksumGuards

=============================================================================
