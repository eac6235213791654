--------------------------- MODULE NetworkProofs ---------------------------
(***************************************************************************)
(* Proofs about the network below the sockets: answers reach the request   *)
(* they belong to (Queries), frames go where they should (Link), and the   *)
(* card's rings are queues (Nic).                                          *)
(***************************************************************************)
EXTENDS Queries, Link, Nic, SequenceTheorems, NaturalsInduction, WellFoundedInduction, TLAPS

----------------------------------------------------------------------------
(* Queries.  The number of a request is looked at only relative to the     *)
(* number of the newest one.                                               *)

\* The number that was given d requests before the number n.
Back(n, d) == IF d <= n THEN n - d ELSE n - d + Numbers

\* The newest number of each kind of request.
Newest == [k \in Kind |-> IF k = "dns" THEN g_dns_query_id ELSE g_ping_match_seq]

\* An answer is not older than MaxLate requests and bears the number of its own.
Dated(a) ==
  /\ a.request \in 1..asked[a.kind] /\ asked[a.kind] - a.request <= MaxLate
  /\ a.number = Back(Newest[a.kind], asked[a.kind] - a.request)

\* The call that waits has made the newest request of its kind, only its host
\* answers that, and what the handlers have noted is this answer.
CallCurrent ==
  /\ call.kind \in Kind => call.request = asked[call.kind]
  /\ \A a \in answers : a.kind = call.kind /\ a.request = call.request => a.from = call.host
  /\ Waiting("dns") /\ g_dns_resolved => g_dns_result_ip = call.host
  /\ Waiting("ping") /\ g_ping_received => heard = call.request

\* What is inductive for Queries.
QInv ==
  /\ TypeOK
  /\ seq_counter = NextNumber(g_ping_match_seq)
  /\ \A a \in answers : Dated(a)
  /\ CallCurrent
  /\ outcome.kind = "ping" /\ Waiting("idle") => outcome.request = asked["ping"]
  /\ ResolvesAsked /\ (~PollsRunOut => PingHonest)

\* dns_resolve and icmp_ping go from one number to the next, around the range.
LEMMA NextNumberWraps ==
  ASSUME NEW n \in 0..(Numbers - 1)
  PROVE  /\ NextNumber(n) = IF n + 1 = Numbers THEN 0 ELSE n + 1
         /\ NextNumber(n) \in 0..(Numbers - 1)
<1>1. Numbers \in Nat \ {0}
  BY QueriesAssumption
<1>2. CASE n + 1 = Numbers
  BY <1>1, <1>2 DEF NextNumber
<1>3. CASE n + 1 # Numbers
  BY <1>1, <1>3 DEF NextNumber
<1>. QED
  BY <1>2, <1>3

\* A number that was d back is d + 1 back of the next one; nothing but the newest
\* number itself is as new, and it is the number of no request that is late.
LEMMA BackNext ==
  ASSUME NEW n \in 0..(Numbers - 1), NEW d \in 0..MaxLate
  PROVE  /\ d + 1 <= MaxLate => Back(n, d) = Back(NextNumber(n), d + 1)
         /\ Back(n, 0) = n
         /\ Back(n, d) = n => d = 0
<1>1. Numbers \in Nat \ {0} /\ MaxLate \in Nat /\ MaxLate < Numbers
  BY QueriesAssumption
<1>. QED
  BY <1>1, NextNumberWraps DEF Back

\* An answer with the newest number is the answer to the newest request.
LEMMA NewestAnswered ==
  ASSUME QInv, NEW a \in answers, a.number = Newest[a.kind]
  PROVE  a.request = asked[a.kind]
<1>1. /\ a.kind \in Kind /\ a.request \in Nat /\ asked[a.kind] \in Nat
      /\ Newest[a.kind] \in 0..(Numbers - 1)
  BY DEF QInv, TypeOK, Answer, Newest, Kind
<1>2. Dated(a)
  BY DEF QInv
<1>. DEFINE d == asked[a.kind] - a.request
<1>3. d \in 0..MaxLate /\ Back(Newest[a.kind], d) = Newest[a.kind]
  BY <1>1, <1>2, QueriesAssumption DEF Dated
<1>4. d = 0
  <2>. HIDE DEF d
  <2>. QED
    BY <1>1, <1>3, BackNext
<1>. QED
  BY <1>1, <1>4

\* The call that stands for nobody waiting.
LEMMA IdleType == Idle \in Call /\ Idle.kind = "idle" /\ Idle.host \in Host
<1>1. (CHOOSE h \in Host : TRUE) \in Host
  BY QueriesAssumption
<1>. QED
  BY <1>1 DEF Idle, Call

\* A request makes its answer the newest of its kind and ages the others; that
\* of the other kind it leaves alone.
LEMMA RequestDated ==
  ASSUME QInv, NEW kind \in Kind, NEW h \in Host, NEW number,
         Request(kind, h, number), number = NextNumber(Newest[kind]),
         Newest' = [Newest EXCEPT ![kind] = number]
  PROVE  /\ call' \in Call /\ asked' \in [Kind -> Nat] /\ answers' \in SUBSET Answer
         /\ \A a \in answers' : Dated(a)'
         /\ call'.kind = kind /\ call'.host = h /\ call'.request = asked'[kind]
         /\ \A a \in answers' : a.kind = kind /\ a.request = asked'[kind] => a.from = h
<1>. DEFINE new == [kind |-> kind, number |-> number, from |-> h, request |-> asked[kind] + 1]
<1>1. /\ asked \in [Kind -> Nat] /\ answers \in SUBSET Answer
      /\ \A a \in answers : Dated(a)
      /\ \A k \in Kind : Newest[k] \in 0..(Numbers - 1)
  BY DEF QInv, TypeOK, Newest, Kind
<1>2. number \in 0..(Numbers - 1)
  BY <1>1, NextNumberWraps
<1>3. /\ asked' = [asked EXCEPT ![kind] = @ + 1]
      /\ call' = [kind |-> kind, host |-> h, request |-> asked[kind] + 1]
      /\ answers' = OnTheirWay(kind) \cup {new}
  BY DEF Request
<1>4. asked' \in [Kind -> Nat] /\ asked'[kind] = asked[kind] + 1 /\ asked[kind] \in Nat
  BY <1>1, <1>3
<1>5. new \in Answer /\ new.kind = kind /\ new.number = number /\ new.from = h
      /\ new.request = asked[kind] + 1
  BY <1>1, <1>2, <1>4 DEF Answer
<1>. HIDE DEF new
<1>6. /\ call' \in Call /\ call'.kind = kind /\ call'.host = h
      /\ call'.request = asked'[kind] /\ answers' \in SUBSET Answer
  <2>1. call' \in Call
    BY <1>3, <1>4 DEF Call
  <2>2. OnTheirWay(kind) \in SUBSET Answer
    BY <1>1 DEF OnTheirWay
  <2>. QED
    BY <1>3, <1>4, <1>5, <2>1, <2>2
<1>7. Newest'[kind] = number /\ \A k \in Kind \ {kind} : Newest'[k] = Newest[k]
  BY DEF Newest
<1>8. ASSUME NEW a \in answers'
      PROVE  Dated(a)' /\ (a.kind = kind /\ a.request = asked'[kind] => a.from = h)
  <2>1. CASE a = new
    <3>1. Back(number, 0) = number
      BY <1>2, BackNext, QueriesAssumption
    <3>2. asked'[kind] - new.request = 0 /\ new.request \in 1..asked'[kind] /\ 0 <= MaxLate
      BY <1>4, <1>5, QueriesAssumption
    <3>. QED
      BY <2>1, <3>1, <3>2, <1>5, <1>7 DEF Dated
  <2>2. CASE a \in OnTheirWay(kind)
    <3>1. /\ a \in answers /\ Dated(a) /\ a.kind \in Kind /\ a.request \in Nat
          /\ asked[a.kind] \in Nat
      BY <1>1, <2>2 DEF OnTheirWay, Answer
    <3>2. CASE a.kind # kind
      BY <1>3, <1>7, <3>1, <3>2, <1>1 DEF Dated
    <3>3. CASE a.kind = kind
      <4>. DEFINE d == asked[kind] - a.request
      <4>1. asked[kind] + 1 - a.request <= MaxLate
        BY <2>2, <3>3 DEF OnTheirWay
      <4>2. a.request \in 1..asked[kind] /\ a.number = Back(Newest[kind], d)
        BY <3>1, <3>3 DEF Dated
      <4>3. d \in 0..MaxLate /\ d + 1 <= MaxLate /\ asked'[kind] - a.request = d + 1
        BY <4>1, <4>2, <1>4, <3>1, QueriesAssumption
      <4>4. a.number = Back(number, d + 1)
        <5>. HIDE DEF d
        <5>. QED
          BY <4>2, <4>3, <1>1, BackNext
      <4>5. a.request \in 1..asked'[kind] /\ a.request # asked'[kind]
        BY <4>2, <1>4, <3>1
      <4>. QED
        BY <4>3, <4>4, <4>5, <3>3, <1>7 DEF Dated
    <3>. QED
      BY <3>2, <3>3
  <2>. QED
    BY <2>1, <2>2, <1>3
<1>. QED
  BY <1>4, <1>6, <1>8

\* The invariant holds when nothing has been asked.
LEMMA QueriesStart == Init => QInv
<1>. SUFFICES ASSUME Init PROVE QInv
  OBVIOUS
<1>. USE QueriesAssumption
<1>1. FirstQuery % Numbers \in 0..(Numbers - 1) /\ 1 % Numbers \in 0..(Numbers - 1)
      /\ 0 \in 0..(Numbers - 1)
  BY DEF FirstQuery
<1>2. outcome \in Outcome
  BY IdleType DEF Init, Outcome, Address
<1>3. TypeOK
  <2>1. asked \in [Kind -> Nat] /\ answers \in SUBSET Answer /\ call \in Call
    BY IdleType DEF Init
  <2>2. g_dns_result_ip \in Address /\ heard \in Nat
    BY DEF Init, Address
  <2>3. g_dns_resolved \in BOOLEAN /\ g_ping_received \in BOOLEAN
    BY Zenon DEF Init
  <2>. QED
    BY <1>1, <1>2, <2>1, <2>2, <2>3 DEF Init, TypeOK
<1>4. seq_counter = NextNumber(g_ping_match_seq)
  BY DEF Init, NextNumber
<1>. QED
  BY <1>3, <1>4, IdleType DEF Init, QInv, CallCurrent, Waiting, ResolvesAsked, PingHonest, Kind

\* Every step of a call, of the network and of a handler keeps it.
LEMMA QueriesStep == QInv /\ [Next]_vars => QInv'
<1>. SUFFICES ASSUME QInv, [Next]_vars PROVE QInv'
  OBVIOUS
<1>1. TypeOK
  BY DEF QInv
<1>2. ASSUME NEW h \in Host, dns_resolve(h) PROVE QInv'
  <2>1. /\ g_dns_query_id' = NextNumber(g_dns_query_id)
        /\ Request("dns", h, NextNumber(g_dns_query_id)) /\ Waiting("idle")
        /\ g_dns_resolved' = FALSE /\ g_dns_result_ip' = "none"
        /\ UNCHANGED <<pingVars, outcome>>
    BY <1>2 DEF dns_resolve, Request
  <2>2. Newest' = [Newest EXCEPT !["dns"] = NextNumber(g_dns_query_id)]
        /\ Newest["dns"] = g_dns_query_id
    BY <2>1 DEF Newest, Kind, pingVars
  <2>3. /\ call' \in Call /\ asked' \in [Kind -> Nat] /\ answers' \in SUBSET Answer
        /\ \A a \in answers' : Dated(a)'
        /\ call'.kind = "dns" /\ call'.host = h /\ call'.request = asked'["dns"]
        /\ \A a \in answers' : a.kind = "dns" /\ a.request = asked'["dns"] => a.from = h
    BY <2>1, <2>2, RequestDated DEF Kind
  <2>4. g_dns_query_id' \in 0..(Numbers - 1)
    BY <2>1, <1>1, NextNumberWraps DEF TypeOK
  <2>5. TypeOK'
    BY <1>1, <2>1, <2>3, <2>4 DEF TypeOK, pingVars, Address
  <2>6. CallCurrent'
    BY <2>1, <2>3 DEF CallCurrent, Waiting, Kind
  <2>7. ~Waiting("idle")' /\ ResolvesAsked' /\ (seq_counter = NextNumber(g_ping_match_seq))'
    BY <2>1, <2>3 DEF QInv, Waiting, ResolvesAsked, pingVars
  <2>. QED
    BY <2>3, <2>5, <2>6, <2>7 DEF QInv, PingHonest
<1>3. ASSUME NEW h \in Host, icmp_ping(h) PROVE QInv'
  <2>1. /\ seq_counter' = NextNumber(seq_counter) /\ g_ping_match_seq' = seq_counter
        /\ Request("ping", h, seq_counter) /\ Waiting("idle")
        /\ g_ping_received' = FALSE
        /\ UNCHANGED <<dnsVars, heard, outcome>>
    BY <1>3 DEF icmp_ping, Request
  <2>2. Newest' = [Newest EXCEPT !["ping"] = seq_counter]
        /\ Newest["ping"] = g_ping_match_seq /\ seq_counter = NextNumber(g_ping_match_seq)
    BY <2>1 DEF Newest, Kind, dnsVars, QInv
  <2>3. /\ call' \in Call /\ asked' \in [Kind -> Nat] /\ answers' \in SUBSET Answer
        /\ \A a \in answers' : Dated(a)'
        /\ call'.kind = "ping" /\ call'.host = h /\ call'.request = asked'["ping"]
        /\ \A a \in answers' : a.kind = "ping" /\ a.request = asked'["ping"] => a.from = h
    BY <2>1, <2>2, RequestDated DEF Kind
  <2>4. seq_counter' \in 0..(Numbers - 1)
    BY <2>1, <1>1, NextNumberWraps DEF TypeOK
  <2>5. TypeOK'
    BY <1>1, <2>1, <2>3, <2>4 DEF TypeOK, dnsVars
  <2>6. CallCurrent'
    BY <2>1, <2>3 DEF CallCurrent, Waiting, Kind
  <2>7. ~Waiting("idle")' /\ ResolvesAsked' /\ (seq_counter = NextNumber(g_ping_match_seq))'
    BY <2>1, <2>3 DEF QInv, Waiting, ResolvesAsked
  <2>. QED
    BY <2>3, <2>5, <2>6, <2>7 DEF QInv, PingHonest
<1>4. ASSUME dns_return PROVE QInv'
  <2>1. /\ call.kind = "dns" /\ call' = Idle
        /\ UNCHANGED <<dnsVars, pingVars, asked, answers>>
    BY <1>4 DEF dns_return, Waiting
  <2>2. g_dns_resolved => g_dns_result_ip = call.host
    BY <2>1 DEF QInv, CallCurrent, Waiting
  <2>3. /\ outcome' \in Outcome /\ outcome'.kind = "dns"
        /\ outcome'.ok => outcome'.address = outcome'.host
    <3>. DEFINE ok == g_dns_resolved \/ call.host \in BuiltIn
                ad == IF g_dns_resolved THEN g_dns_result_ip
                      ELSE IF ok THEN call.host ELSE "none"
    <3>1. outcome' = [kind |-> "dns", ok |-> ok, host |-> call.host, request |-> call.request,
                      address |-> ad, built_in |-> ok /\ ~g_dns_resolved]
      BY <1>4 DEF dns_return
    <3>2. /\ ok \in BOOLEAN /\ (ok /\ ~g_dns_resolved) \in BOOLEAN
          /\ call.host \in Host /\ call.request \in Nat
      BY <1>1 DEF TypeOK, Call
    <3>3. ad \in Address /\ (ok => ad = call.host)
      BY <2>2, <3>2, <1>1 DEF TypeOK, Address
    <3>. HIDE DEF ok, ad
    <3>. QED
      BY <3>1, <3>2, <3>3 DEF Outcome, Kind
  <2>4. TypeOK'
    BY <1>1, <2>1, <2>3, IdleType DEF TypeOK, dnsVars, pingVars
  <2>5. CallCurrent' /\ \A a \in answers' : Dated(a)'
    BY <2>1, <1>1, IdleType DEF QInv, CallCurrent, Waiting, Kind, Dated, Newest, dnsVars, pingVars,
       TypeOK, Answer
  <2>. QED
    BY <2>1, <2>3, <2>4, <2>5 DEF QInv, ResolvesAsked, PingHonest, pingVars
<1>5. ASSUME ping_failed \/ ping_return PROVE QInv'
  <2>1. /\ call.kind = "ping" /\ call' = Idle
        /\ UNCHANGED <<dnsVars, pingVars, asked, answers>>
    BY <1>5 DEF ping_failed, ping_return, Waiting
  <2>2. /\ outcome' \in Outcome /\ outcome'.kind = "ping" /\ outcome'.request = call.request
        /\ ~PollsRunOut /\ outcome'.ok => g_ping_received
    <3>1. call.host \in Host /\ call.request \in Nat
      BY <1>1 DEF TypeOK, Call
    <3>2. CASE ping_failed
      BY <3>1, <3>2 DEF ping_failed, Outcome, Address, Kind
    <3>3. CASE ping_return
      BY <3>1, <3>3 DEF ping_return, Outcome, Address, Kind
    <3>. QED
      BY <1>5, <3>2, <3>3
  <2>3. TypeOK'
    BY <1>1, <2>1, <2>2, IdleType DEF TypeOK, dnsVars, pingVars
  <2>4. CallCurrent' /\ \A a \in answers' : Dated(a)'
    BY <2>1, <1>1, IdleType DEF QInv, CallCurrent, Waiting, Kind, Dated, Newest, dnsVars, pingVars,
       TypeOK, Answer
  <2>5. /\ call.request = asked["ping"] /\ asked' = asked /\ heard' = heard
        /\ g_ping_received => heard = call.request
    BY <2>1 DEF QInv, CallCurrent, Waiting, Kind, pingVars
  <2>. QED
    BY <2>1, <2>2, <2>3, <2>4, <2>5 DEF QInv, ResolvesAsked, PingHonest, pingVars
<1>6. ASSUME NEW a \in answers, dns_udp_callback(a) PROVE QInv'
  <2>1. /\ a.kind = "dns" /\ a.number = g_dns_query_id
        /\ g_dns_result_ip' = a.from /\ g_dns_resolved' = TRUE
        /\ UNCHANGED <<g_dns_query_id, pingVars, call, asked, answers, outcome>>
    BY <1>6 DEF dns_udp_callback
  <2>2. a.request = asked["dns"]
    BY <2>1, NewestAnswered DEF Newest, Kind
  <2>3. Waiting("dns") => a.from = call.host
    BY <2>1, <2>2 DEF QInv, CallCurrent, Waiting, Kind
  <2>4. TypeOK'
    BY <1>1, <2>1 DEF TypeOK, pingVars, Answer, Address
  <2>5. CallCurrent'
    BY <2>1, <2>3 DEF QInv, CallCurrent, Waiting, pingVars
  <2>. QED
    BY <2>1, <2>4, <2>5 DEF QInv, Dated, Newest, pingVars, ResolvesAsked, PingHonest, Waiting
<1>7. ASSUME NEW a \in answers, icmp_handle_packet(a) PROVE QInv'
  <2>1. /\ a.kind = "ping" /\ a.number = g_ping_match_seq
        /\ g_ping_received' = TRUE /\ heard' = a.request
        /\ UNCHANGED <<dnsVars, g_ping_match_seq, seq_counter, call, asked, answers, outcome>>
    BY <1>7 DEF icmp_handle_packet
  <2>2. a.request = asked["ping"]
    BY <2>1, NewestAnswered DEF Newest, Kind
  <2>3. Waiting("ping") => a.request = call.request
    BY <2>2 DEF QInv, CallCurrent, Waiting, Kind
  <2>4. TypeOK'
    BY <1>1, <2>1 DEF TypeOK, dnsVars, Answer
  <2>5. CallCurrent'
    BY <2>1, <2>3 DEF QInv, CallCurrent, Waiting, dnsVars
  <2>6. PingHonest'
    BY <2>1, <2>2 DEF QInv, PingHonest, Waiting
  <2>. QED
    BY <2>1, <2>4, <2>5, <2>6 DEF QInv, Dated, Newest, dnsVars, ResolvesAsked, Waiting
<1>8. CASE UNCHANGED vars
  BY <1>8 DEF QInv, vars, dnsVars, pingVars, TypeOK, Dated, Newest, CallCurrent, Waiting,
     ResolvesAsked, PingHonest
<1>. QED
  BY <1>2, <1>3, <1>4, <1>5, <1>6, <1>7, <1>8 DEF Next

\* dns_resolve never reports the address of another name, for any range of request
\* numbers that is longer than answers are late, and however polls end.
THEOREM ResolvesAskedHolds == Spec => [](TypeOK /\ ResolvesAsked)
<1>1. QInv => TypeOK /\ ResolvesAsked
  BY DEF QInv
<1>. QED
  BY <1>1, QueriesStart, QueriesStep, PTL DEF Spec

\* Where icmp_ping's time is up before its polls are, it too reports only what the
\* host has answered to this very request.
THEOREM AnswersOwnHolds ==
  ASSUME ~PollsRunOut
  PROVE  Spec => []AnswersOwn
<1>1. QInv => AnswersOwn
  BY DEF QInv, AnswersOwn
<1>. QED
  BY <1>1, QueriesStart, QueriesStep, PTL DEF Spec

----------------------------------------------------------------------------
(* Link.                                                                   *)

\* Entries tell the truth, and a send waits for a hop on the way to its host.
CacheEntry == {c \in [ip : Peer \cup {None}, mac : Peer \cup {None}] : c.ip # None => c.mac = c.ip}
OnTheWay(dst, hop) == IF dst \in Peer THEN hop = dst ELSE hop \in Far \cup {None, Gateway}
Wait == {w \in [dst : Peer \cup Far, hop : Peer \cup Far \cup {None}, polls : Nat] :
           OnTheWay(w.dst, w.hop)}

SendInv == g_arp_cache \in [Entry -> CacheEntry] /\ waits \in Seq(Wait) /\ FramesReach

Dhcp == [stage : {"start", "offer", "ack", "done"}, offered_ip : Server \cup {None},
         server_ip : Server \cup {None}, offer_received : BOOLEAN, ack_received : BOOLEAN,
         configured : BOOLEAN]

\* One server is asked, once; until a late acknowledgement the configuration is
\* nobody's, the fallback, or what this server has given.
DhcpInv ==
  /\ dhcp \in Dhcp /\ dhcp.offered_ip = dhcp.server_ip
  /\ requested.ip = requested.server
  /\ dhcp.stage \in {"start", "offer"} => requested.server = None
  /\ late \in BOOLEAN
  /\ late => DOMAIN g_if_config = DOMAIN NoConfig
  /\ ~late => g_if_config \in {NoConfig, Fallback, Supplied(requested.server),
                               [NoConfig EXCEPT !.ip = requested.server]}

LInv == SendInv /\ DhcpInv

\* What the sends need to know about hosts and entries.
LEMMA Hosts ==
  Gateway \in Peer /\ Peer \cap Far = {} /\ Entry \subseteq Nat /\ 1 \in Entry
<1>1. Entry \subseteq Nat /\ 1 \in Entry
  BY LinkAssumption DEF Entry
<1>. QED
  BY <1>1, HostsAssumption, Zenon

\* A non-empty set of entries has a first one.
LEMMA MinIn ==
  ASSUME NEW S \in SUBSET Nat, S # {}
  PROVE  Min(S) \in S
<1>. DEFINE R == {ss \in Nat \X Nat : ss[1] < ss[2]}
<1>1. IsWellFoundedOn(R, Nat)
  BY NatLessThanWellFounded, Zenon DEF OpToRel
<1>2. PICK x \in S : \A y \in S : <<y, x>> \notin R
  <2>. HIDE DEF R
  <2>. QED
    BY <1>1, WFMin
<1>3. \A y \in S : x <= y
  <2>. TAKE y \in S
  <2>1. <<y, x>> \in Nat \X Nat /\ ~(y < x)
    BY <1>2
  <2>. QED
    BY <2>1
<1>. QED
  BY <1>3 DEF Min

\* arp_insert of what a host says of itself keeps every entry true.
LEMMA InsertTrue ==
  ASSUME NEW cache \in [Entry -> CacheEntry], NEW p \in Peer
  PROVE  arp_insert(cache, p, p) \in [Entry -> CacheEntry]
<1>1. Entry \subseteq Nat /\ 1 \in Entry
  BY Hosts
<1>2. [ip |-> p, mac |-> p] \in CacheEntry
  BY DEF CacheEntry
<1>3. CASE Cached(cache, p) # {}
  <2>. DEFINE e == Min(Cached(cache, p))
  <2>1. e \in Entry /\ cache[e].ip = p
    BY <1>1, <1>3, MinIn DEF Cached
  <2>. HIDE DEF e
  <2>2. [cache[e] EXCEPT !.mac = p] \in CacheEntry
    BY <2>1 DEF CacheEntry
  <2>3. arp_insert(cache, p, p) = [cache EXCEPT ![e].mac = p]
    BY <1>3 DEF arp_insert, e
  <2>. QED
    BY <2>1, <2>2, <2>3
<1>4. CASE Cached(cache, p) = {} /\ FreeEntries(cache) # {}
  <2>. DEFINE e == Min(FreeEntries(cache))
  <2>1. e \in Entry
    BY <1>1, <1>4, MinIn DEF FreeEntries
  <2>. HIDE DEF e
  <2>2. arp_insert(cache, p, p) = [cache EXCEPT ![e] = [ip |-> p, mac |-> p]]
    BY <1>4 DEF arp_insert, e
  <2>. QED
    BY <2>1, <2>2, <1>2
<1>5. CASE Cached(cache, p) = {} /\ FreeEntries(cache) = {}
  BY <1>1, <1>2, <1>5 DEF arp_insert, ReplacedEntry
<1>. QED
  BY <1>3, <1>4, <1>5

\* What arp_lookup finds is the hardware address of the host asked for.
LEMMA LookupTrue ==
  ASSUME SendInv, NEW ip, arp_lookup(ip) # None
  PROVE  ip \in Peer /\ arp_lookup(ip) = ip /\ ip # None
<1>1. Entry \subseteq Nat
  BY Hosts
<1>. DEFINE hits == Cached(g_arp_cache, ip)
            e == Min(hits)
<1>2. hits # {} /\ arp_lookup(ip) = g_arp_cache[e].mac
  BY DEF arp_lookup
<1>3. e \in hits
  BY <1>1, <1>2, MinIn DEF Cached
<1>. HIDE DEF e
<1>4. e \in Entry /\ g_arp_cache[e].ip = ip /\ ip # None
  BY <1>3 DEF Cached
<1>. QED
  BY <1>2, <1>4 DEF SendInv, CacheEntry

\* A frame that goes out over a hop on its way reaches its host.
LEMMA HopReaches ==
  ASSUME SendInv, NEW dst \in Peer \cup Far, NEW hop, OnTheWay(dst, hop),
         arp_lookup(hop) # None, Frame(dst, arp_lookup(hop))
  PROVE  FramesReach'
<1>1. hop \in Peer /\ arp_lookup(hop) = hop /\ hop # None
  BY LookupTrue
<1>2. sent' = [dst |-> dst, mac |-> hop]
  BY <1>1 DEF Frame
<1>3. hop = IF dst \in Peer THEN dst ELSE Gateway
  BY <1>1, Hosts DEF OnTheWay
<1>. QED
  BY <1>2, <1>3 DEF FramesReach

\* ipv4_send sends at once or waits for the hop it has chosen.
LEMMA SendKeeps ==
  ASSUME SendInv, NEW dst \in Peer \cup Far, ipv4_send(dst), UNCHANGED g_arp_cache
  PROVE  SendInv'
<1>. DEFINE hop == NextHop(dst)
<1>1. OnTheWay(dst, hop) /\ hop \in Peer \cup Far \cup {None}
  BY Hosts DEF OnTheWay, NextHop
<1>. HIDE DEF hop
<1>2. CASE arp_lookup(hop) # None
  <2>1. Frame(dst, arp_lookup(hop)) /\ UNCHANGED waits
    BY <1>2 DEF ipv4_send, hop
  <2>2. FramesReach'
    BY <1>1, <1>2, <2>1, HopReaches
  <2>. QED
    BY <2>1, <2>2 DEF SendInv
<1>3. CASE arp_lookup(hop) = None
  <2>1. waits' = Append(waits, [dst |-> dst, hop |-> hop, polls |-> 0]) /\ UNCHANGED sent
    BY <1>3 DEF ipv4_send, hop
  <2>2. [dst |-> dst, hop |-> hop, polls |-> 0] \in Wait
    BY <1>1 DEF Wait
  <2>3. waits' \in Seq(Wait)
    BY <2>1, <2>2 DEF SendInv
  <2>. QED
    BY <2>1, <2>3 DEF SendInv, FramesReach
<1>. QED
  BY <1>2, <1>3

\* The innermost send goes on, polls again or gives up.
LEMMA WaitKeeps ==
  ASSUME SendInv, ipv4_send_wait
  PROVE  SendInv'
<1>. DEFINE w == Last(waits)
            mac == arp_lookup(w.hop)
<1>1. waits \in Seq(Wait) /\ waits # <<>>
  BY DEF SendInv, ipv4_send_wait
<1>2. w \in Wait /\ Front(waits) \in Seq(Wait)
  <2>1. Len(waits) \in 1..Len(waits)
    BY <1>1
  <2>. QED
    BY <1>1, <2>1 DEF Last, Front
<1>3. /\ UNCHANGED g_arp_cache
      /\ \/ mac # None /\ Frame(w.dst, mac) /\ waits' = Front(waits)
         \/ waits' = Front(waits) \o <<Polled(w)>> /\ UNCHANGED sent
         \/ waits' = Front(waits) /\ UNCHANGED sent
  BY DEF ipv4_send_wait
<1>4. /\ w.dst \in Peer \cup Far /\ OnTheWay(w.dst, w.hop) /\ Polled(w) \in Wait
  <2>. HIDE DEF w
  <2>. QED
    BY <1>2 DEF Wait, Polled
<1>5. CASE mac # None /\ Frame(w.dst, mac) /\ waits' = Front(waits)
  <2>1. FramesReach'
    <3>. HIDE DEF w
    <3>. QED
      BY <1>4, <1>5, HopReaches
  <2>. QED
    BY <1>2, <1>3, <1>5, <2>1 DEF SendInv
<1>6. CASE UNCHANGED sent
  <2>1. waits' \in Seq(Wait)
    <3>. HIDE DEF w
    <3>1. <<Polled(w)>> \in Seq(Wait)
      BY <1>4
    <3>. QED
      BY <1>2, <1>3, <3>1, ConcatProperties
  <2>. QED
    BY <1>3, <1>6, <2>1 DEF SendInv, FramesReach
<1>. QED
  BY <1>3, <1>5, <1>6

\* Every step leaves the frames and the configuration in order.
LEMMA LinkStep == LInv /\ [LinkNext]_linkVars => LInv'
<1>. SUFFICES ASSUME LInv, [LinkNext]_linkVars PROVE LInv'
  OBVIOUS
<1>1. SendInv /\ DhcpInv
  BY DEF LInv
<1>2. ASSUME UNCHANGED <<g_if_config, dhcp, requested, late>> PROVE DhcpInv'
  BY <1>1, <1>2 DEF DhcpInv
<1>3. ASSUME UNCHANGED <<g_arp_cache, waits, sent>> PROVE SendInv'
  BY <1>1, <1>3 DEF SendInv, FramesReach
<1>4. ASSUME NEW h \in Peer \cup Far, command_sends(h) \/ ipv4_handle_packet(h) PROVE LInv'
  <2>1. /\ ipv4_send(h) /\ UNCHANGED <<g_if_config, g_arp_cache, dhcp, requested, late>>
    BY <1>4 DEF command_sends, ipv4_handle_packet
  <2>. QED
    BY <2>1, <1>1, <1>2, SendKeeps DEF LInv
<1>5. CASE ipv4_send_wait
  <2>1. UNCHANGED <<g_if_config, dhcp, requested, late>>
    BY <1>5 DEF ipv4_send_wait
  <2>. QED
    BY <2>1, <1>1, <1>2, <1>5, WaitKeeps DEF LInv
<1>6. ASSUME NEW p \in Peer, arp_handle_packet(p) PROVE LInv'
  <2>1. /\ g_arp_cache' = arp_insert(g_arp_cache, p, p)
        /\ UNCHANGED <<g_if_config, waits, dhcp, requested, late, sent>>
    BY <1>6 DEF arp_handle_packet
  <2>2. SendInv'
    BY <2>1, <1>1, InsertTrue DEF SendInv, FramesReach
  <2>. QED
    BY <2>1, <2>2, <1>2 DEF LInv
<1>7. ASSUME NEW srv \in Server, dhcp_offer(srv) PROVE LInv'
  <2>1. /\ dhcp' = Offered(srv)
        /\ UNCHANGED <<g_if_config, g_arp_cache, waits, requested, late, sent>>
    BY <1>7 DEF dhcp_offer
  <2>2. dhcp' \in Dhcp /\ dhcp'.offered_ip = dhcp'.server_ip /\ dhcp'.stage = dhcp.stage
    BY <2>1, <1>1 DEF Offered, DhcpInv, Dhcp
  <2>3. DhcpInv'
    BY <2>1, <2>2, <1>1 DEF DhcpInv
  <2>. QED
    BY <2>1, <2>3, <1>3 DEF LInv
<1>8. CASE dhcp_ack
  <2>. DEFINE srv == requested.server
  <2>1. /\ srv # None /\ g_if_config' = Configured(srv)
        /\ dhcp' = [dhcp EXCEPT !.ack_received = TRUE, !.configured = TRUE]
        /\ late' = (late \/ (srv \in Partial /\ g_if_config = Fallback))
        /\ UNCHANGED <<g_arp_cache, waits, requested, sent>>
    BY <1>8 DEF dhcp_ack
  <2>2. dhcp' \in Dhcp /\ dhcp'.offered_ip = dhcp'.server_ip /\ dhcp'.stage = dhcp.stage
    BY <2>1, <1>1 DEF DhcpInv, Dhcp
  <2>3. late' \in BOOLEAN /\ (late => late')
        /\ (late' => late \/ (srv \in Partial /\ g_if_config = Fallback))
        /\ (~late' => ~late /\ (srv \in Partial => g_if_config # Fallback))
    BY <2>1
  <2>4. ASSUME late' PROVE DOMAIN g_if_config' = DOMAIN NoConfig
    <3>1. DOMAIN g_if_config = DOMAIN NoConfig
      BY <2>3, <2>4, <1>1 DEF DhcpInv, Fallback, Supplied, NoConfig
    <3>. QED
      BY <3>1, <2>1 DEF Configured, Supplied, NoConfig
  <2>5. ASSUME ~late'
        PROVE  g_if_config' \in {Supplied(srv), [NoConfig EXCEPT !.ip = srv]}
    <3>1. CASE srv \notin Partial
      BY <3>1, <2>1 DEF Configured
    <3>2. CASE srv \in Partial
      <4>1. g_if_config \in {NoConfig, Supplied(srv), [NoConfig EXCEPT !.ip = srv]}
        BY <2>3, <2>5, <3>2, <1>1 DEF DhcpInv
      <4>2. g_if_config' = [g_if_config EXCEPT !.ip = srv]
        BY <2>1, <3>2 DEF Configured
      <4>. QED
        BY <4>1, <4>2 DEF NoConfig, Supplied
    <3>. QED
      BY <3>1, <3>2
  <2>6. DhcpInv'
    BY <2>1, <2>2, <2>3, <2>4, <2>5, <1>1 DEF DhcpInv
  <2>. QED
    BY <2>1, <2>6, <1>3 DEF LInv
<1>9. CASE dhcp_send_discover
  <2>1. /\ dhcp' = [dhcp EXCEPT !.stage = "offer", !.offer_received = FALSE, !.ack_received = FALSE]
        /\ dhcp.stage = "start"
        /\ UNCHANGED <<g_if_config, g_arp_cache, waits, requested, late, sent>>
    BY <1>9 DEF dhcp_send_discover
  <2>2. dhcp' \in Dhcp /\ dhcp'.offered_ip = dhcp'.server_ip
    BY <2>1, <1>1 DEF DhcpInv, Dhcp
  <2>3. DhcpInv'
    BY <2>1, <2>2, <1>1 DEF DhcpInv
  <2>. QED
    BY <2>1, <2>3, <1>3 DEF LInv
<1>10. CASE dhcp_send_request
  <2>1. /\ dhcp.stage = "offer" /\ dhcp' = [dhcp EXCEPT !.stage = "ack"]
        /\ requested' = [ip |-> dhcp.offered_ip, server |-> dhcp.server_ip]
        /\ UNCHANGED <<g_if_config, g_arp_cache, waits, late, sent>>
    BY <1>10 DEF dhcp_send_request
  <2>2. dhcp' \in Dhcp /\ dhcp'.offered_ip = dhcp'.server_ip /\ dhcp'.stage = "ack"
    BY <2>1, <1>1 DEF DhcpInv, Dhcp
  <2>3. requested'.ip = requested'.server
    BY <2>1, <1>1 DEF DhcpInv
  <2>4. ~late => g_if_config \in {NoConfig, Fallback}
    BY <2>1, <1>1 DEF DhcpInv, Supplied, NoConfig
  <2>5. DhcpInv'
    BY <2>1, <2>2, <2>3, <2>4, <1>1 DEF DhcpInv
  <2>. QED
    BY <2>1, <2>5, <1>3 DEF LInv
<1>11. CASE dhcp_discover_ends
  <2>1. /\ dhcp' = [dhcp EXCEPT !.stage = "done", !.configured = TRUE]
        /\ g_if_config' = Settled
        /\ UNCHANGED <<g_arp_cache, waits, requested, late, sent>>
    BY <1>11 DEF dhcp_discover_ends
  <2>2. dhcp' \in Dhcp /\ dhcp'.offered_ip = dhcp'.server_ip /\ dhcp'.stage = "done"
    BY <2>1, <1>1 DEF DhcpInv, Dhcp
  <2>3. g_if_config' = g_if_config \/ g_if_config' = Fallback
    BY <2>1 DEF Settled
  <2>4. DOMAIN Fallback = DOMAIN NoConfig
    BY DEF Fallback, Supplied, NoConfig
  <2>5. DhcpInv'
    BY <2>1, <2>2, <2>3, <2>4, <1>1 DEF DhcpInv
  <2>. QED
    BY <2>1, <2>5, <1>3 DEF LInv
<1>12. CASE UNCHANGED linkVars
  BY <1>12, <1>2, <1>3 DEF linkVars, LInv
<1>. QED
  BY <1>4, <1>5, <1>6, <1>7, <1>8, <1>9, <1>10, <1>11, <1>12 DEF LinkNext

\* The invariant holds at boot.
LEMMA LinkStart == LinkInit => LInv
<1>. SUFFICES ASSUME LinkInit PROVE LInv
  OBVIOUS
<1>1. SendInv
  <2>1. [ip |-> None, mac |-> None] \in CacheEntry
    BY DEF CacheEntry
  <2>. QED
    BY <2>1 DEF LinkInit, SendInv, FramesReach
<1>2. DhcpInv
  BY DEF LinkInit, DhcpInv, Dhcp
<1>. QED
  BY <1>1, <1>2 DEF LInv

-----------------------------------------------------------------------------
(* The checksum.  Folding the carries in leaves the remainder by 65535,    *)
(* except that 65535 stands for the remainder 0 of every sum but 0.        *)

Digit(n) == IF n = 0 THEN 0 ELSE ((n - 1) % 65535) + 1

\* A multiple of 65535 does not show.
LEMMA NinesOut ==
  ASSUME NEW a \in Nat, NEW q \in Nat
  PROVE  (a + 65535 * q) % 65535 = a % 65535
OBVIOUS

\* A sum that fits 16 bits is its own digit.
LEMMA DigitSmall ==
  ASSUME NEW n \in Nat, n < 65536
  PROVE  Digit(n) = n
BY DEF Digit

\* Adding the carry to the rest keeps the digit and makes the sum smaller.
LEMMA DigitFold ==
  ASSUME NEW n \in Nat, n >= 65536
  PROVE  /\ (n % 65536) + (n \div 65536) \in Nat /\ (n % 65536) + (n \div 65536) < n
         /\ Digit((n % 65536) + (n \div 65536)) = Digit(n)
<1>. DEFINE q == n \div 65536
            r == n % 65536
<1>1. q \in Nat /\ r \in Nat /\ q >= 1 /\ n = 65536 * q + r
  OBVIOUS
<1>. HIDE DEF q, r
<1>2. (r + q) - 1 \in Nat /\ n - 1 = ((r + q) - 1) + 65535 * q
  BY <1>1
<1>3. (n - 1) % 65535 = ((r + q) - 1) % 65535
  BY <1>1, <1>2, NinesOut
<1>4. r + q \in Nat /\ r + q < n /\ r + q # 0
  BY <1>1
<1>5. Digit(r + q) = Digit(n)
  BY <1>3, <1>4 DEF Digit
<1>. QED
  BY <1>4, <1>5 DEF q, r

IsFolded(f) == f = [sum \in Nat |-> IF sum < Base THEN sum ELSE f[(sum % Base) + (sum \div Base)]]

\* Folding is followed from each sum to the smaller one.
LEMMA FoldedIs == IsFolded(Folded)
<1>. DEFINE g == [n \in Nat |-> Digit(n)]
<1>1. ASSUME NEW n \in Nat
      PROVE  g[n] = IF n < Base THEN n ELSE g[(n % Base) + (n \div Base)]
  <2>1. CASE n < 65536
    BY <2>1, DigitSmall DEF Base
  <2>2. CASE ~(n < 65536)
    BY <2>2, DigitFold DEF Base
  <2>. QED
    BY <2>1, <2>2
<1>2. g = [n \in Nat |-> g[n]]
  OBVIOUS
<1>. HIDE DEF g
<1>3. IsFolded(g)
  BY <1>1, <1>2, Zenon DEF IsFolded
<1>4. \E f : IsFolded(f)
  BY <1>3
<1>. QED
  BY <1>4, Zenon DEF IsFolded, Folded

\* The loop of ipv4_checksum ends, with this.
LEMMA FoldCarriesIs ==
  ASSUME NEW n \in Nat
  PROVE  FoldCarries(n) = Digit(n)
<1>. DEFINE B == {k \in Nat : Folded[k] # Digit(k)}
<1>1. SUFFICES ASSUME B # {} PROVE FALSE
  BY DEF FoldCarries
<1>. DEFINE R == {ss \in Nat \X Nat : ss[1] < ss[2]}
<1>2. IsWellFoundedOn(R, Nat)
  BY NatLessThanWellFounded, Zenon DEF OpToRel
<1>3. PICK x \in B : \A y \in B : <<y, x>> \notin R
  <2>1. B \in SUBSET Nat
    OBVIOUS
  <2>. HIDE DEF R, B
  <2>. QED
    BY <1>1, <1>2, <2>1, WFMin
<1>4. x \in Nat /\ Folded[x] # Digit(x) /\ \A y \in Nat : y < x => Folded[y] = Digit(y)
  BY <1>3
<1>. HIDE DEF B, R
<1>5. \A k \in Nat : Folded[k] = IF k < 65536 THEN k ELSE Folded[(k % 65536) + (k \div 65536)]
  BY FoldedIs DEF IsFolded, Base
<1>6. CASE x < 65536
  BY <1>4, <1>5, <1>6, DigitSmall
<1>7. CASE ~(x < 65536)
  BY <1>4, <1>5, <1>7, DigitFold
<1>. QED
  BY <1>4, <1>6, <1>7

\* A header of the words a, b and c, and its checksum d.
FourWords(words, a, b, c, d) ==
  /\ a \in Nat /\ b \in Nat /\ c \in Nat /\ d \in Nat
  /\ words \in Seq(Nat) /\ Len(words) = 4
  /\ words[1] = a /\ words[2] = b /\ words[3] = c /\ words[4] = d

IsTotal(f, words) ==
  f = [i \in 0..Len(words) |-> IF i = 0 THEN 0 ELSE f[i - 1] + words[i]]

\* The words of a header are added up.
LEMMA TotalIs ==
  ASSUME NEW words, NEW a, NEW b, NEW c, NEW d, FourWords(words, a, b, c, d)
  PROVE  Total(words) = a + b + c + d
<1>. DEFINE g == [i \in 0..Len(words) |->
                    IF i = 0 THEN 0 ELSE IF i = 1 THEN a ELSE IF i = 2 THEN a + b
                    ELSE IF i = 3 THEN a + b + c ELSE a + b + c + d]
<1>. USE DEF FourWords
<1>1. ASSUME NEW i \in 0..Len(words) PROVE g[i] = IF i = 0 THEN 0 ELSE g[i - 1] + words[i]
  <2>1. Len(words) = 4 /\ i \in 0..4 /\ (i = 0 \/ i = 1 \/ i = 2 \/ i = 3 \/ i = 4)
    OBVIOUS
  <2>2. \A j \in 0..4 : g[j] = IF j = 0 THEN 0 ELSE IF j = 1 THEN a ELSE IF j = 2 THEN a + b
                               ELSE IF j = 3 THEN a + b + c ELSE a + b + c + d
    BY <2>1
  <2>. HIDE DEF g
  <2>3. g[0] = 0 /\ g[1] = a /\ g[2] = a + b /\ g[3] = a + b + c /\ g[4] = a + b + c + d
    BY <2>2
  <2>4. words[1] = a /\ words[2] = b /\ words[3] = c /\ words[4] = d
    OBVIOUS
  <2>5. CASE i = 0
    BY <2>3, <2>5
  <2>6. CASE i = 1
    BY <2>3, <2>4, <2>6
  <2>7. CASE i = 2
    BY <2>3, <2>4, <2>7
  <2>8. CASE i = 3
    BY <2>3, <2>4, <2>8
  <2>9. CASE i = 4
    BY <2>3, <2>4, <2>9
  <2>. QED
    BY <2>1, <2>5, <2>6, <2>7, <2>8, <2>9
<1>2. g = [i \in 0..Len(words) |-> g[i]]
  OBVIOUS
<1>. HIDE DEF g
<1>3. IsTotal(g, words)
  BY <1>1, <1>2, Zenon DEF IsTotal
<1>4. \E f : IsTotal(f, words)
  BY <1>3
<1>. DEFINE s == CHOOSE f : IsTotal(f, words)
<1>5. IsTotal(s, words)
  BY <1>4, Zenon
<1>6. Total(words) = s[Len(words)]
  BY Zenon DEF Total, IsTotal
<1>. HIDE DEF s
<1>7. \A i \in 0..4 : s[i] = IF i = 0 THEN 0 ELSE s[i - 1] + words[i]
  BY <1>5 DEF IsTotal
<1>8. s[0] = 0 /\ s[1] = s[0] + a /\ s[2] = s[1] + b /\ s[3] = s[2] + c /\ s[4] = s[3] + d
  BY <1>7
<1>. QED
  BY <1>6, <1>8

Sixteen(n) == n \in Nat /\ n < 65536

\* A word has 16 bits.
LEMMA WordsSixteen ==
  ASSUME NEW w \in Words
  PROVE  Sixteen(w)
<1>1. Base \in Nat
  BY DEF Base
<1>2. w \in Nat /\ w <= Base - 1
  BY <1>1, WordsAssumption
<1>. QED
  BY <1>2 DEF Base, Sixteen

\* So does a digit.
LEMMA DigitSixteen ==
  ASSUME NEW n \in Nat
  PROVE  Sixteen(Digit(n))
BY DEF Digit, Sixteen

\* The checksum of four words is what their digit lacks.
LEMMA ChecksumIs ==
  ASSUME NEW words, NEW a, NEW b, NEW c, NEW d, FourWords(words, a, b, c, d)
  PROVE  ipv4_checksum(words) = 65535 - Digit(a + b + c + d)
<1>. DEFINE n == a + b + c + d
            e == Digit(n)
<1>1. Total(words) = n
  BY TotalIs
<1>2. n \in Nat
  BY DEF FourWords
<1>. HIDE DEF n
<1>3. FoldCarries(Total(words)) = e /\ Sixteen(e)
  BY <1>1, <1>2, FoldCarriesIs, DigitSixteen
<1>. HIDE DEF e
<1>4. ipv4_checksum(words) = (65536 - 1) - (e % 65536)
  BY <1>3 DEF ipv4_checksum, Base
<1>5. e % 65536 = e
  BY <1>3 DEF Sixteen
<1>6. ipv4_checksum(words) = 65535 - e
  BY <1>3, <1>4, <1>5 DEF Sixteen
<1>. QED
  BY <1>6 DEF e, n

\* A sum is 65535 after folding if it is a multiple of 65535 and not 0.
LEMMA DigitFull ==
  ASSUME NEW n \in Nat
  PROVE  Digit(n) = 65535 <=> n # 0 /\ n % 65535 = 0
BY DEF Digit

\* The checksum makes the sum a multiple of 65535, and not 0.
LEMMA ChecksumFills ==
  ASSUME NEW n \in Nat, NEW d, d = 65535 - Digit(n)
  PROVE  Sixteen(d) /\ n + d # 0 /\ (n + d) % 65535 = 0
BY DEF Digit, Sixteen

\* A sum that was a multiple of 65535 and has a word changed is none.
LEMMA ChecksumTells ==
  ASSUME NEW n \in Nat, NEW m \in Nat, NEW h, Sixteen(h), NEW w, Sixteen(w),
         n % 65535 = 0, m = (n - h) + w, (w - h) % 65535 # 0
  PROVE  m % 65535 # 0
BY DEF Sixteen

\* The words of a header with its checksum, and with another word in one place.
LEMMA HeaderWords ==
  ASSUME NEW a \in Nat, NEW b \in Nat, NEW c \in Nat, NEW d \in Nat
  PROVE  FourWords(Append(<<a, b, c>>, d), a, b, c, d)
BY DEF FourWords

\* A header with one word changed is four words.
LEMMA HeaderChanged ==
  ASSUME NEW words, NEW a, NEW b, NEW c, NEW d, FourWords(words, a, b, c, d), NEW w \in Nat
  PROVE  /\ FourWords([words EXCEPT ![1] = w], w, b, c, d)
         /\ FourWords([words EXCEPT ![2] = w], a, w, c, d)
         /\ FourWords([words EXCEPT ![3] = w], a, b, w, d)
<1>1. /\ a \in Nat /\ b \in Nat /\ c \in Nat /\ d \in Nat
      /\ words \in Seq(Nat) /\ Len(words) = 4
      /\ words[1] = a /\ words[2] = b /\ words[3] = c /\ words[4] = d
  BY Zenon DEF FourWords
<1>2. ASSUME NEW i \in 1..3
      PROVE  /\ [words EXCEPT ![i] = w] \in Seq(Nat) /\ Len([words EXCEPT ![i] = w]) = 4
             /\ [words EXCEPT ![i] = w][i] = w
             /\ \A j \in 1..4 : j # i => [words EXCEPT ![i] = w][j] = words[j]
  <2>. DEFINE v == [words EXCEPT ![i] = w]
  <2>1. words \in [1..4 -> Nat] /\ i \in 1..4
    BY <1>1
  <2>2. v \in [1..4 -> Nat] /\ v[i] = w /\ \A j \in 1..4 : j # i => v[j] = words[j]
    BY <2>1
  <2>. HIDE DEF v
  <2>3. DOMAIN v = 1..4 /\ \A j \in 1..4 : v[j] \in Nat
    BY <2>2
  <2>4. v = [j \in 1..4 |-> v[j]]
    BY <2>2
  <2>5. v \in Seq(Nat)
    BY <2>3, <2>4
  <2>6. Len(v) = 4
    BY <2>3, <2>5
  <2>. QED
    BY <2>2, <2>5, <2>6 DEF v
<1>. QED
  BY <1>1, <1>2 DEF FourWords

\* Whatever the word h of a header becomes, the checksum then tells.
LEMMA ChangeTells ==
  ASSUME NEW n \in Nat, n % 65535 = 0, NEW h, Sixteen(h), NEW w, Sixteen(w),
         (w - h) % 65535 # 0, (n - h) \in Nat
  PROVE  65535 - Digit((n - h) + w) # 0
<1>. DEFINE m == (n - h) + w
<1>1. m \in Nat /\ m = (n - h) + w
  BY DEF Sixteen
<1>. HIDE DEF m
<1>2. m % 65535 # 0
  BY <1>1, ChecksumTells
<1>3. Digit(m) # 65535 /\ Sixteen(Digit(m))
  BY <1>1, <1>2, DigitFull, DigitSixteen
<1>4. 65535 - Digit(m) # 0
  BY <1>3 DEF Sixteen
<1>. QED
  BY <1>4 DEF m

\* A header is accepted as it was completed, and not with one word changed.
LEMMA ChecksumHolds ==
  ASSUME header \in Words \X Words \X Words
  PROVE  ChecksumGuards
<1>1. PICK a \in Words, b \in Words, c \in Words : header = <<a, b, c>>
  OBVIOUS
<1>2. Sixteen(a) /\ Sixteen(b) /\ Sixteen(c)
  BY WordsSixteen
<1>3. a \in Nat /\ b \in Nat /\ c \in Nat
  BY <1>2 DEF Sixteen
<1>. DEFINE n == a + b + c
            d == ipv4_checksum(Append(header, 0))
            whole == Append(header, d)
<1>4. n \in Nat /\ n + 0 = n
  BY <1>3
<1>5. d = 65535 - Digit(n)
  <2>1. FourWords(Append(header, 0), a, b, c, 0)
    BY <1>1, <1>3, HeaderWords
  <2>. QED
    BY <1>4, <2>1, ChecksumIs
<1>. HIDE DEF d, n
<1>6. Sixteen(d) /\ n + d # 0 /\ (n + d) % 65535 = 0
  BY <1>4, <1>5, ChecksumFills
<1>7. d \in Nat
  BY <1>6 DEF Sixteen
<1>8. FourWords(whole, a, b, c, d)
  BY <1>1, <1>3, <1>7, HeaderWords
<1>. HIDE DEF whole
<1>9. n + d \in Nat /\ n + d = a + b + c + d
  BY <1>3, <1>4, <1>7 DEF n
<1>10. ipv4_checksum(whole) = 0
  <2>1. ipv4_checksum(whole) = 65535 - Digit(n + d)
    BY <1>8, <1>9, ChecksumIs
  <2>2. Digit(n + d) = 65535
    BY <1>6, <1>9, DigitFull
  <2>. QED
    BY <2>1, <2>2
<1>11. ASSUME NEW i \in DOMAIN header, NEW w \in Words, (w - header[i]) % 65535 # 0
       PROVE  ipv4_checksum([whole EXCEPT ![i] = w]) # 0
  <2>1. Sixteen(w) /\ w \in Nat
    BY WordsSixteen DEF Sixteen
  <2>2. i = 1 \/ i = 2 \/ i = 3
    BY <1>1
  <2>3. CASE i = 1
    <3>1. FourWords([whole EXCEPT ![1] = w], w, b, c, d)
      BY <1>8, <2>1, HeaderChanged
    <3>2. ipv4_checksum([whole EXCEPT ![1] = w]) = 65535 - Digit(w + b + c + d)
      BY <3>1, ChecksumIs
    <3>3. (n + d) - a \in Nat /\ w + b + c + d = ((n + d) - a) + w
      BY <1>3, <1>7, <1>9, <2>1
    <3>4. (w - a) % 65535 # 0
      BY <1>1, <1>11, <2>3
    <3>5. 65535 - Digit(((n + d) - a) + w) # 0
      BY <1>2, <1>6, <1>9, <2>1, <3>3, <3>4, ChangeTells
    <3>. QED
      BY <2>3, <3>2, <3>3, <3>5
  <2>4. CASE i = 2
    <3>1. FourWords([whole EXCEPT ![2] = w], a, w, c, d)
      BY <1>8, <2>1, HeaderChanged
    <3>2. ipv4_checksum([whole EXCEPT ![2] = w]) = 65535 - Digit(a + w + c + d)
      BY <3>1, ChecksumIs
    <3>3. (n + d) - b \in Nat /\ a + w + c + d = ((n + d) - b) + w
      BY <1>3, <1>7, <1>9, <2>1
    <3>4. (w - b) % 65535 # 0
      BY <1>1, <1>11, <2>4
    <3>5. 65535 - Digit(((n + d) - b) + w) # 0
      BY <1>2, <1>6, <1>9, <2>1, <3>3, <3>4, ChangeTells
    <3>. QED
      BY <2>4, <3>2, <3>3, <3>5
  <2>5. CASE i = 3
    <3>1. FourWords([whole EXCEPT ![3] = w], a, b, w, d)
      BY <1>8, <2>1, HeaderChanged
    <3>2. ipv4_checksum([whole EXCEPT ![3] = w]) = 65535 - Digit(a + b + w + d)
      BY <3>1, ChecksumIs
    <3>3. (n + d) - c \in Nat /\ a + b + w + d = ((n + d) - c) + w
      BY <1>3, <1>7, <1>9, <2>1
    <3>4. (w - c) % 65535 # 0
      BY <1>1, <1>11, <2>5
    <3>5. 65535 - Digit(((n + d) - c) + w) # 0
      BY <1>2, <1>6, <1>9, <2>1, <3>3, <3>4, ChangeTells
    <3>. QED
      BY <2>5, <3>2, <3>3, <3>5
  <2>. QED
    BY <2>2, <2>3, <2>4, <2>5
<1>. DEFINE Same(i, w) == (w - header[i]) % 65535 = 0
<1>12. \A i \in DOMAIN header, w \in Words : ~Same(i, w) => ipv4_checksum([whole EXCEPT ![i] = w]) # 0
  BY <1>11
<1>13. ChecksumGuards <=>
         /\ ipv4_checksum(whole) = 0
         /\ \A i \in DOMAIN header, w \in Words :
              ~Same(i, w) => ipv4_checksum([whole EXCEPT ![i] = w]) # 0
  BY DEF ChecksumGuards, whole, d
<1>. QED
  BY <1>10, <1>12, <1>13

\* A frame goes to the hardware address of its destination or of the gateway, one
\* server is asked for what it has offered, the configuration is no mixture, and a
\* header passes the checksum as it was completed and not with a word changed: for
\* any number of hosts, servers and cache entries, and any words.
THEOREM LinkHolds == LinkSpec => []LinkSound
<1>1. LInv => FramesReach /\ RequestConsistent /\ ConfigWhole
  <2>. SUFFICES ASSUME LInv PROVE FramesReach /\ RequestConsistent /\ ConfigWhole
    OBVIOUS
  <2>1. FramesReach /\ RequestConsistent
    BY DEF LInv, SendInv, DhcpInv, RequestConsistent
  <2>2. ASSUME ~late PROVE \A f \in DOMAIN g_if_config : g_if_config[f] \in {None, g_if_config.ip}
    <3>1. g_if_config \in {NoConfig, Fallback, Supplied(requested.server),
                           [NoConfig EXCEPT !.ip = requested.server]}
      BY <2>2 DEF LInv, DhcpInv
    <3>. QED
      BY <3>1 DEF NoConfig, Fallback, Supplied
  <2>. QED
    BY <2>1, <2>2 DEF ConfigWhole
<1>. DEFINE H == header \in Words \X Words \X Words
<1>2. LinkInit => H
  BY DEF LinkInit
<1>3. H /\ [LinkNext]_linkVars => H'
  <2>1. ASSUME [LinkNext]_linkVars PROVE header' = header
    BY <2>1 DEF LinkNext, linkVars, command_sends, ipv4_handle_packet, ipv4_send_wait,
         arp_handle_packet, dhcp_offer, dhcp_ack, dhcp_send_discover, dhcp_send_request,
         dhcp_discover_ends
  <2>. QED
    BY <2>1
<1>4. H => ChecksumGuards
  BY ChecksumHolds
<1>5. LInv /\ H => LinkSound
  BY <1>1, <1>4 DEF LinkSound
<1>. HIDE DEF H
<1>. QED
  BY <1>2, <1>3, <1>5, LinkStart, LinkStep, PTL DEF LinkSpec

----------------------------------------------------------------------------
(* Nic.  Places in a ring are counted from the oldest frame it holds.      *)

\* A place less than twice around, and how far ahead of first place i is.
Around(n, size) == IF n >= size THEN n - size ELSE n
Ahead(i, first, size) == IF i >= first THEN i - first ELSE i - first + size

\* Frames are numbered as they come.
Numbered(s) == s \in Seq(Nat) /\ \A k \in 1..Len(s) : s[k] = k

Descriptor == [dd : BOOLEAN, frame : Nat]

\* The ring holds the frames after the given number, the oldest at first.
Holds(ring, size, first, number, count) ==
  \A i \in 0..(size - 1) :
    Ahead(i, first, size) < count => ring[i].frame = number + Ahead(i, first, size) + 1

InHand == IF receiving THEN 1 ELSE 0
RxFirst == Around(g_rx_cur + InHand, NUM_RX_DESC)
RxHeld == Len(arrived) - Len(handled)

\* The receive ring: the card is ahead of the driver by what is unread, the tail
\* is one behind g_rx_cur, and exactly the unread descriptors are done.
RxInv ==
  /\ receiving \in BOOLEAN
  /\ g_rx_cur \in 0..(NUM_RX_DESC - 1)
  /\ g_rx_ring \in [0..(NUM_RX_DESC - 1) -> Descriptor]
  /\ Numbered(arrived) /\ Numbered(handled)
  /\ RxHeld >= 0 /\ RxHeld + InHand <= NUM_RX_DESC - 1
  /\ RDH = Around(g_rx_cur + InHand + RxHeld, NUM_RX_DESC)
  /\ RDT = Around(g_rx_cur + NUM_RX_DESC - 1, NUM_RX_DESC)
  /\ \A i \in 0..(NUM_RX_DESC - 1) :
       g_rx_ring[i].dd => Ahead(i, RxFirst, NUM_RX_DESC) < RxHeld
  /\ Holds(g_rx_ring, NUM_RX_DESC, RxFirst, Len(handled), RxHeld)

TxHeld == Ahead(g_tx_cur, TDH, NUM_TX_DESC)

\* The transmit ring: until it has overrun, the driver is ahead of the card by
\* what is not yet sent, and the tail is at most one behind the driver.
TxInv ==
  /\ sending \in BOOLEAN /\ overrun \in BOOLEAN
  /\ g_tx_cur \in 0..(NUM_TX_DESC - 1) /\ TDH \in 0..(NUM_TX_DESC - 1)
  /\ TDT \in 0..(NUM_TX_DESC - 1)
  /\ g_tx_ring \in [0..(NUM_TX_DESC - 1) -> Descriptor]
  /\ Numbered(queued) /\ onwire \in Seq(Nat)
  /\ ~overrun =>
       /\ Numbered(onwire)
       /\ Len(queued) = Len(onwire) + TxHeld
       /\ IF sending THEN TxHeld >= 1 /\ TDT = Around(g_tx_cur + NUM_TX_DESC - 1, NUM_TX_DESC)
          ELSE TDT = g_tx_cur
       /\ Holds(g_tx_ring, NUM_TX_DESC, TDH, Len(onwire), TxHeld)

\* What % does to the places that occur.
LEMMA PlaceMod ==
  ASSUME NEW size \in Nat \ {0}, NEW i \in 0..(size - 1), NEW j \in 0..(size - 1)
  PROVE  /\ (i + j) % size = Around(i + j, size)
         /\ (i - j) % size = Ahead(i, j, size)
<1>1. (i + j) % size = Around(i + j, size)
  <2>1. CASE i + j < size
    BY <2>1 DEF Around
  <2>2. CASE i + j >= size
    BY <2>2 DEF Around
  <2>. QED
    BY <2>1, <2>2
<1>2. (i - j) % size = Ahead(i, j, size)
  <2>1. CASE i >= j
    BY <2>1 DEF Ahead
  <2>2. CASE i < j
    BY <2>2 DEF Ahead
  <2>. QED
    BY <2>1, <2>2
<1>. QED
  BY <1>1, <1>2

\* The place after i.
LEMMA NextPlace ==
  ASSUME NEW size \in Nat \ {0, 1}, NEW i \in 0..(size - 1)
  PROVE  (i + 1) % size = Around(i + 1, size)
<1>1. size \in Nat \ {0} /\ 1 \in 0..(size - 1)
  OBVIOUS
<1>. QED
  BY <1>1, PlaceMod

\* Around and Ahead undo each other.
LEMMA AroundAhead ==
  ASSUME NEW size \in Nat \ {0}, NEW f \in 0..(size - 1), NEW d \in 0..(size - 1)
  PROVE  /\ Around(f + d, size) \in 0..(size - 1)
         /\ Ahead(Around(f + d, size), f, size) = d
         /\ \A i \in 0..(size - 1) :
              /\ Ahead(i, f, size) \in 0..(size - 1)
              /\ Ahead(i, f, size) = d => i = Around(f + d, size)
  BY DEF Around, Ahead

\* With the oldest frame gone, every other place is one nearer.
LEMMA AheadNext ==
  ASSUME NEW size \in Nat \ {0, 1}, NEW f \in 0..(size - 1), NEW i \in 0..(size - 1)
  PROVE  /\ Around(f + 1, size) \in 0..(size - 1)
         /\ Ahead(i, Around(f + 1, size), size) =
              IF i = f THEN size - 1 ELSE Ahead(i, f, size) - 1
  BY DEF Around, Ahead

\* One more frame keeps the numbering.
LEMMA NumberedAppend ==
  ASSUME NEW s, Numbered(s)
  PROVE  Numbered(Append(s, Len(s) + 1)) /\ Len(Append(s, Len(s) + 1)) = Len(s) + 1
  BY DEF Numbered

\* The frames that have gone on and those the ring holds are all that came.
LEMMA HeldFollows ==
  ASSUME NEW size \in Nat \ {0, 1}, NEW first \in 0..(size - 1), NEW last \in 0..(size - 1),
         NEW ring, NEW gone, NEW all, Numbered(gone), Numbered(all),
         Len(all) = Len(gone) + Ahead(last, first, size),
         Holds(ring, size, first, Len(gone), Ahead(last, first, size))
  PROVE  /\ gone \o Held(ring, size, first, last) = all
         /\ Len(Held(ring, size, first, last)) = Ahead(last, first, size)
<1>. DEFINE n == Ahead(last, first, size)
            held == Held(ring, size, first, last)
<1>1. n \in 0..(size - 1) /\ (last - first) % size = n /\ Len(gone) \in Nat
  <2>1. size \in Nat \ {0}
    OBVIOUS
  <2>2. (last - first) % size = n
    BY <2>1, PlaceMod
  <2>. QED
    BY <2>2 DEF Ahead, Numbered
<1>2. ASSUME NEW k \in 1..n PROVE ring[(first + k - 1) % size].frame = Len(gone) + k
  <2>. DEFINE d == k - 1
  <2>1. d \in 0..(size - 1) /\ d < n /\ k = d + 1
    BY <1>1
  <2>. HIDE DEF d, n
  <2>2. (first + d) % size = Around(first + d, size)
    BY <2>1, PlaceMod
  <2>3. Around(first + d, size) \in 0..(size - 1) /\ Ahead(Around(first + d, size), first, size) = d
    BY <2>1, AroundAhead
  <2>4. ring[Around(first + d, size)].frame = Len(gone) + d + 1
    BY <2>1, <2>3 DEF Holds, n
  <2>5. first + k - 1 = first + d
    BY <2>1
  <2>. QED
    BY <2>1, <2>2, <2>4, <2>5, <1>1
<1>. HIDE DEF n
<1>3. held = [k \in 1..n |-> Len(gone) + k]
  BY <1>1, <1>2 DEF Held
<1>4. held \in Seq(Nat) /\ Len(held) = n /\ \A k \in 1..n : held[k] = Len(gone) + k
  <2>1. held \in [1..n -> Nat]
    BY <1>1, <1>3
  <2>. QED
    BY <2>1, <1>1, <1>3
<1>. HIDE DEF held
<1>5. /\ gone \o held \in Seq(Nat) /\ Len(gone \o held) = Len(gone) + n
      /\ \A k \in 1..(Len(gone) + n) :
           (gone \o held)[k] = IF k <= Len(gone) THEN gone[k] ELSE held[k - Len(gone)]
  <2>1. gone \in Seq(Nat)
    BY DEF Numbered
  <2>2. gone \o held \in Seq(Nat) /\ Len(gone \o held) = Len(gone) + n
    BY <2>1, <1>4, ConcatProperties
  <2>. QED
    BY <2>1, <2>2, <1>1, <1>4
<1>6. \A k \in 1..Len(all) : (gone \o held)[k] = all[k]
  <2>. TAKE k \in 1..Len(all)
  <2>1. Len(all) = Len(gone) + n /\ all[k] = k /\ k \in Nat
    BY DEF n, Numbered
  <2>2. CASE k <= Len(gone)
    <3>1. k \in 1..Len(gone) /\ k \in 1..(Len(gone) + n)
      BY <2>1, <2>2, <1>1
    <3>2. gone[k] = k
      BY <3>1 DEF Numbered
    <3>. QED
      BY <3>1, <3>2, <2>1, <2>2, <1>5
  <2>3. CASE k > Len(gone)
    <3>1. k - Len(gone) \in 1..n /\ k \in 1..(Len(gone) + n) /\ ~(k <= Len(gone))
      BY <2>1, <2>3, <1>1
    <3>2. held[k - Len(gone)] = Len(gone) + (k - Len(gone))
      BY <3>1, <1>4
    <3>3. (gone \o held)[k] = held[k - Len(gone)]
      BY <3>1, <1>5
    <3>. QED
      BY <3>2, <3>3, <2>1, <1>1
  <2>4. k <= Len(gone) \/ k > Len(gone)
    BY <2>1, <1>1
  <2>. QED
    BY <2>2, <2>3, <2>4, Zenon
<1>7. gone \o held = all
  <2>1. all \in Seq(Nat) /\ Len(all) = Len(gone \o held)
    BY <1>5 DEF Numbered, n
  <2>. QED
    BY <2>1, <1>5, <1>6, SeqEqual
<1>. QED
  BY <1>7, <1>4 DEF n, held

\* The invariants hold when the rings have been set up.
LEMMA NicStart == NicInit => RxInv /\ TxInv
<1>. SUFFICES ASSUME NicInit PROVE RxInv /\ TxInv
  OBVIOUS
<1>1. NUM_RX_DESC \in Nat \ {0, 1} /\ NUM_TX_DESC \in Nat \ {0, 1}
  BY NicAssumption
<1>2. Numbered(<<>>) /\ Len(<<>>) = 0 /\ <<>> \in Seq(Nat)
  BY DEF Numbered
<1>3. RxInv
  <2>1. RxHeld = 0 /\ InHand = 0 /\ g_rx_cur = 0
    BY <1>2 DEF NicInit, RxHeld, InHand
  <2>2. g_rx_ring \in [0..(NUM_RX_DESC - 1) -> Descriptor]
    BY DEF NicInit, Descriptor
  <2>3. RxFirst = 0
    BY <1>1, <2>1 DEF RxFirst, Around
  <2>4. Holds(g_rx_ring, NUM_RX_DESC, RxFirst, Len(handled), RxHeld)
    BY <1>1, <2>1, <2>3 DEF Holds, Ahead
  <2>5. \A i \in 0..(NUM_RX_DESC - 1) : ~g_rx_ring[i].dd
    BY DEF NicInit
  <2>6. RDH = Around(g_rx_cur + InHand + RxHeld, NUM_RX_DESC)
        /\ RDT = Around(g_rx_cur + NUM_RX_DESC - 1, NUM_RX_DESC)
    BY <1>1, <2>1 DEF NicInit, Around
  <2>7. Numbered(arrived) /\ Numbered(handled) /\ receiving \in BOOLEAN
    BY <1>2 DEF NicInit
  <2>8. g_rx_cur \in 0..(NUM_RX_DESC - 1) /\ RxHeld >= 0 /\ RxHeld + InHand <= NUM_RX_DESC - 1
    BY <1>1, <2>1
  <2>. QED
    BY <2>2, <2>4, <2>5, <2>6, <2>7, <2>8 DEF RxInv
<1>4. TxInv
  <2>1. TxHeld = 0
    BY <1>1 DEF NicInit, TxHeld, Ahead
  <2>2. g_tx_ring \in [0..(NUM_TX_DESC - 1) -> Descriptor]
    BY DEF NicInit, Descriptor
  <2>3. Holds(g_tx_ring, NUM_TX_DESC, TDH, Len(onwire), TxHeld)
    BY <1>1, <2>1 DEF Holds, Ahead, NicInit
  <2>4. /\ g_tx_cur \in 0..(NUM_TX_DESC - 1) /\ TDH \in 0..(NUM_TX_DESC - 1)
        /\ TDT \in 0..(NUM_TX_DESC - 1) /\ TDT = g_tx_cur
    BY <1>1 DEF NicInit
  <2>5. /\ Numbered(queued) /\ Numbered(onwire) /\ onwire \in Seq(Nat)
        /\ Len(queued) = Len(onwire) + TxHeld
    BY <1>2, <2>1 DEF NicInit
  <2>6. sending = FALSE /\ overrun = FALSE
    BY DEF NicInit
  <2>. QED
    BY <2>2, <2>3, <2>4, <2>5, <2>6 DEF TxInv
<1>. QED
  BY <1>3, <1>4

\* The card and e1000_receive_packet keep the receive ring.
LEMMA RxStep == RxInv /\ (NicReceives \/ UNCHANGED rxVars) => RxInv'
<1>. DEFINE N == NUM_RX_DESC
<1>. SUFFICES ASSUME RxInv, NicReceives \/ UNCHANGED rxVars PROVE RxInv'
  OBVIOUS
<1>1. N \in Nat \ {0, 1}
  BY NicAssumption
<1>2. /\ Len(arrived) \in Nat /\ Len(handled) \in Nat /\ InHand \in {0, 1}
      /\ RxHeld \in 0..(N - 1) /\ RxFirst \in 0..(N - 1) /\ g_rx_cur \in 0..(N - 1)
  BY <1>1 DEF RxInv, Numbered, RxHeld, InHand, RxFirst, Around
<1>3. \A i \in 0..(N - 1) : g_rx_ring[i].dd => Ahead(i, RxFirst, N) < RxHeld
  BY DEF RxInv
<1>4. CASE card_receives
  <2>1. /\ RDH # RDT /\ arrived' = Append(arrived, Len(arrived) + 1)
        /\ g_rx_ring' = [g_rx_ring EXCEPT ![RDH] = [dd |-> TRUE, frame |-> Len(arrived) + 1]]
        /\ RDH' = RxNext(RDH)
        /\ UNCHANGED <<g_rx_cur, RDT, receiving, handled>>
    BY <1>4 DEF card_receives
  <2>2. /\ Numbered(arrived)' /\ Len(arrived') = Len(arrived) + 1
        /\ RxHeld' = RxHeld + 1 /\ InHand' = InHand /\ RxFirst' = RxFirst
    BY <2>1, <1>2, NumberedAppend DEF RxInv, RxHeld, InHand, RxFirst
  <2>3. RxHeld + InHand < N - 1
    BY <2>1, <1>1, <1>2 DEF RxInv, Around
  <2>4. RDH = Around(RxFirst + RxHeld, N) /\ RDH \in 0..(N - 1)
    BY <2>3, <1>1, <1>2 DEF RxInv, Around, RxFirst
  <2>5. RDH' = Around(g_rx_cur + InHand + (RxHeld + 1), N)
    <3>1. RDH' = Around(RDH + 1, N)
      BY <2>1, <2>4, <1>1, NextPlace DEF RxNext
    <3>. QED
      BY <3>1, <2>3, <1>1, <1>2 DEF RxInv, Around
  <2>6. /\ Ahead(RDH, RxFirst, N) = RxHeld
        /\ \A i \in 0..(N - 1) : /\ Ahead(i, RxFirst, N) \in 0..(N - 1)
                                 /\ Ahead(i, RxFirst, N) = RxHeld => i = RDH
    BY <2>4, <1>1, <1>2, AroundAhead
  <2>7. \A i \in 0..(N - 1) :
          g_rx_ring'[i] = IF i = RDH THEN [dd |-> TRUE, frame |-> Len(arrived) + 1]
                          ELSE g_rx_ring[i]
    BY <2>1, <2>4 DEF RxInv
  <2>8. g_rx_ring' \in [0..(N - 1) -> Descriptor]
    <3>1. [dd |-> TRUE, frame |-> Len(arrived) + 1] \in Descriptor
      BY <1>2 DEF Descriptor
    <3>. QED
      BY <3>1, <2>1 DEF RxInv
  <2>9. ASSUME NEW i \in 0..(N - 1), g_rx_ring'[i].dd
        PROVE  Ahead(i, RxFirst, N) < RxHeld + 1
    <3>1. CASE i = RDH
      BY <3>1, <2>6, <1>2
    <3>2. CASE i # RDH
      <4>1. g_rx_ring[i].dd
        BY <2>7, <2>9, <3>2
      <4>2. Ahead(i, RxFirst, N) < RxHeld /\ Ahead(i, RxFirst, N) \in 0..(N - 1)
        BY <4>1, <2>6, <1>3
      <4>. QED
        BY <4>2, <1>2
    <3>. QED
      BY <3>1, <3>2
  <2>10. ASSUME NEW i \in 0..(N - 1), Ahead(i, RxFirst, N) < RxHeld + 1
         PROVE  g_rx_ring'[i].frame = Len(handled) + Ahead(i, RxFirst, N) + 1
    <3>1. CASE i = RDH
      <4>1. g_rx_ring'[i].frame = Len(arrived) + 1
        BY <3>1, <2>7
      <4>. QED
        BY <4>1, <3>1, <2>6, <1>2 DEF RxHeld
    <3>2. CASE i # RDH
      <4>1. Ahead(i, RxFirst, N) < RxHeld
        BY <3>2, <2>6, <2>10, <1>2
      <4>. QED
        BY <4>1, <3>2, <2>7 DEF RxInv, Holds
    <3>. QED
      BY <3>1, <3>2
  <2>11. Holds(g_rx_ring, N, RxFirst, Len(handled), RxHeld)'
    BY <2>1, <2>2, <2>10 DEF Holds
  <2>12. RxHeld' >= 0 /\ RxHeld' + InHand' <= N - 1
    BY <2>2, <2>3, <1>1, <1>2
  <2>. QED
    BY <2>1, <2>2, <2>5, <2>8, <2>9, <2>11, <2>12 DEF RxInv
<1>5. CASE receive_copy
  <2>1. /\ receiving = FALSE /\ receiving' = TRUE /\ g_rx_ring[g_rx_cur].dd
        /\ handled' = Append(handled, g_rx_ring[g_rx_cur].frame)
        /\ g_rx_ring' = [g_rx_ring EXCEPT ![g_rx_cur].dd = FALSE]
        /\ UNCHANGED <<g_rx_cur, RDH, RDT, arrived>>
    BY <1>5 DEF receive_copy, HasFrame, RxInv
  <2>2. InHand = 0 /\ InHand' = 1 /\ RxFirst = g_rx_cur /\ RxFirst' = Around(g_rx_cur + 1, N)
    BY <2>1, <1>1, <1>2 DEF InHand, RxFirst, Around
  <2>3. Ahead(g_rx_cur, RxFirst, N) = 0 /\ 0 < RxHeld
    <3>1. Ahead(g_rx_cur, RxFirst, N) = 0
      BY <2>2, <1>2 DEF Ahead
    <3>2. Ahead(g_rx_cur, RxFirst, N) < RxHeld
      BY <2>1, <1>2, <1>3
    <3>. QED
      BY <3>1, <3>2
  <2>4. g_rx_ring[g_rx_cur].frame = Len(handled) + 1
    BY <2>3, <1>2 DEF RxInv, Holds
  <2>5. Numbered(handled)' /\ Len(handled') = Len(handled) + 1 /\ RxHeld' = RxHeld - 1
    BY <2>1, <2>4, <1>2, NumberedAppend DEF RxInv, RxHeld
  <2>6. \A i \in 0..(N - 1) :
          /\ Ahead(i, RxFirst, N) \in 0..(N - 1)
          /\ Ahead(i, RxFirst', N) = IF i = g_rx_cur THEN N - 1 ELSE Ahead(i, RxFirst, N) - 1
    BY <2>2, <1>1, <1>2, AheadNext DEF Ahead
  <2>7. /\ g_rx_ring' \in [0..(N - 1) -> Descriptor] /\ g_rx_ring'[g_rx_cur].dd = FALSE
        /\ \A i \in 0..(N - 1) : i # g_rx_cur => g_rx_ring'[i] = g_rx_ring[i]
    BY <2>1, <1>2 DEF RxInv, Descriptor
  <2>8. ASSUME NEW i \in 0..(N - 1), g_rx_ring'[i].dd
        PROVE  Ahead(i, RxFirst', N) < RxHeld'
    <3>1. i # g_rx_cur /\ g_rx_ring[i].dd
      BY <2>7, <2>8
    <3>2. Ahead(i, RxFirst, N) < RxHeld
      BY <3>1, <1>3
    <3>. QED
      BY <3>1, <3>2, <2>5, <2>6, <1>1, <1>2
  <2>9. ASSUME NEW i \in 0..(N - 1), Ahead(i, RxFirst', N) < RxHeld'
        PROVE  g_rx_ring'[i].frame = Len(handled') + Ahead(i, RxFirst', N) + 1
    <3>1. i # g_rx_cur
      BY <2>5, <2>6, <2>9, <1>1, <1>2
    <3>2. Ahead(i, RxFirst, N) < RxHeld
      BY <3>1, <2>5, <2>6, <2>9, <1>2
    <3>3. g_rx_ring'[i].frame = Len(handled) + Ahead(i, RxFirst, N) + 1
      BY <3>1, <3>2, <2>7 DEF RxInv, Holds
    <3>4. Ahead(i, RxFirst', N) = Ahead(i, RxFirst, N) - 1 /\ Ahead(i, RxFirst, N) \in Int
      BY <3>1, <2>6, <1>1
    <3>. QED
      BY <3>3, <3>4, <2>5, <1>2
  <2>10. Holds(g_rx_ring, N, RxFirst, Len(handled), RxHeld)'
    BY <2>9 DEF Holds
  <2>11. /\ RxHeld' >= 0 /\ RxHeld' + InHand' <= N - 1
         /\ RDH' = Around(g_rx_cur + InHand' + RxHeld', N)
    <3>1. g_rx_cur + InHand' + RxHeld' = g_rx_cur + InHand + RxHeld
      BY <2>2, <2>5, <1>2
    <3>. QED
      BY <3>1, <2>1, <2>2, <2>3, <2>5, <1>2 DEF RxInv
  <2>12. receiving' \in BOOLEAN /\ Numbered(arrived)' /\ g_rx_cur' \in 0..(N - 1)
    BY <2>1 DEF RxInv
  <2>. QED
    BY <2>1, <2>5, <2>7, <2>8, <2>10, <2>11, <2>12 DEF RxInv
<1>6. CASE receive_return
  <2>1. /\ receiving /\ receiving' = FALSE /\ RDT' = g_rx_cur /\ g_rx_cur' = RxNext(g_rx_cur)
        /\ UNCHANGED <<g_rx_ring, RDH, arrived, handled>>
    BY <1>6 DEF receive_return
  <2>2. g_rx_cur' = Around(g_rx_cur + 1, N)
    BY <2>1, <1>1, <1>2, NextPlace DEF RxNext
  <2>3. InHand = 1 /\ InHand' = 0 /\ RxHeld' = RxHeld
    BY <2>1 DEF InHand, RxHeld
  <2>4. RxFirst' = RxFirst /\ g_rx_cur' \in 0..(N - 1)
    BY <2>2, <2>3, <1>1, <1>2 DEF RxFirst, Around
  <2>5. RDH' = Around(g_rx_cur' + InHand' + RxHeld', N)
    BY <2>1, <2>2, <2>3, <1>1, <1>2 DEF RxInv, Around
  <2>6. RDT' = Around(g_rx_cur' + N - 1, N)
    BY <2>1, <2>2, <1>1, <1>2 DEF Around
  <2>7. RxHeld' >= 0 /\ RxHeld' + InHand' <= N - 1
    BY <2>3, <1>1, <1>2
  <2>8. /\ receiving' \in BOOLEAN /\ g_rx_ring' \in [0..(N - 1) -> Descriptor]
        /\ Numbered(arrived)' /\ Numbered(handled)'
    BY <2>1 DEF RxInv
  <2>9. Holds(g_rx_ring, N, RxFirst, Len(handled), RxHeld)'
    BY <2>1, <2>3, <2>4 DEF RxInv, Holds
  <2>10. \A i \in 0..(N - 1) : g_rx_ring'[i].dd => Ahead(i, RxFirst', N) < RxHeld'
    BY <2>1, <2>3, <2>4, <1>3
  <2>. QED
    BY <2>4, <2>5, <2>6, <2>7, <2>8, <2>9, <2>10 DEF RxInv
<1>7. CASE card_drops \/ UNCHANGED rxVars
  <2>1. UNCHANGED <<g_rx_ring, g_rx_cur, RDH, RDT, receiving, arrived, handled>>
    BY <1>7 DEF card_drops, rxVars
  <2>2. RxHeld' = RxHeld /\ InHand' = InHand /\ RxFirst' = RxFirst
    BY <2>1 DEF RxHeld, InHand, RxFirst
  <2>3. Holds(g_rx_ring, N, RxFirst, Len(handled), RxHeld)'
    BY <2>1, <2>2 DEF RxInv, Holds
  <2>4. \A i \in 0..(N - 1) : g_rx_ring'[i].dd => Ahead(i, RxFirst', N) < RxHeld'
    BY <2>1, <2>2, <1>3
  <2>. QED
    BY <2>1, <2>2, <2>3, <2>4 DEF RxInv
<1>. QED
  BY <1>4, <1>5, <1>6, <1>7 DEF NicReceives

\* e1000_send_packet and the card keep the transmit ring.
LEMMA TxStep == TxInv /\ (NicSends \/ UNCHANGED txVars) => TxInv'
<1>. DEFINE N == NUM_TX_DESC
<1>. SUFFICES ASSUME TxInv, NicSends \/ UNCHANGED txVars PROVE TxInv'
  OBVIOUS
<1>1. N \in Nat \ {0, 1} /\ N \in Nat \ {0}
  BY NicAssumption
<1>2. /\ g_tx_cur \in 0..(N - 1) /\ TDH \in 0..(N - 1) /\ TDT \in 0..(N - 1)
      /\ Len(queued) \in Nat /\ Len(onwire) \in Nat /\ TxHeld \in 0..(N - 1)
      /\ g_tx_ring \in [0..(N - 1) -> Descriptor]
  BY <1>1 DEF TxInv, Numbered, TxHeld, Ahead
<1>3. CASE send_fill
  <2>. DEFINE new == [dd |-> FALSE, frame |-> Len(queued) + 1]
  <2>1. /\ g_tx_ring' = [g_tx_ring EXCEPT ![g_tx_cur] = new] /\ ~sending
        /\ g_tx_cur' = TxNext(g_tx_cur) /\ queued' = Append(queued, Len(queued) + 1)
        /\ sending' = TRUE /\ UNCHANGED <<TDH, TDT, onwire>>
        /\ overrun' \in BOOLEAN /\ (~overrun' => ~overrun /\ Outstanding # N - 1)
    BY <1>3 DEF send_fill
  <2>2. new \in Descriptor /\ new.frame = Len(queued) + 1
    BY <1>2 DEF Descriptor
  <2>. HIDE DEF new
  <2>3. /\ g_tx_ring' \in [0..(N - 1) -> Descriptor] /\ g_tx_ring'[g_tx_cur] = new
        /\ \A i \in 0..(N - 1) : i # g_tx_cur => g_tx_ring'[i] = g_tx_ring[i]
    BY <2>1, <2>2, <1>2
  <2>4. Numbered(queued)' /\ Len(queued') = Len(queued) + 1
    BY <2>1, NumberedAppend DEF TxInv
  <2>5. g_tx_cur' = Around(g_tx_cur + 1, N) /\ g_tx_cur' \in 0..(N - 1)
    BY <2>1, <1>1, <1>2, NextPlace, AheadNext DEF TxNext
  <2>6. ASSUME ~overrun'
        PROVE  /\ Numbered(onwire)' /\ Len(queued') = Len(onwire') + TxHeld' /\ TxHeld' >= 1
               /\ TDT' = Around(g_tx_cur' + N - 1, N)
               /\ Holds(g_tx_ring, N, TDH, Len(onwire), TxHeld)'
    <3>1. /\ ~overrun /\ Outstanding # N - 1 /\ Numbered(onwire) /\ TDT = g_tx_cur
          /\ Len(queued) = Len(onwire) + TxHeld
          /\ Holds(g_tx_ring, N, TDH, Len(onwire), TxHeld)
      BY <2>1, <2>6 DEF TxInv
    <3>2. TxHeld < N - 1
      <4>1. Outstanding = TxHeld
        BY <1>1, <1>2, PlaceMod DEF Outstanding, TxHeld
      <4>. QED
        BY <4>1, <3>1, <1>1, <1>2
    <3>3. TxHeld' = TxHeld + 1
      BY <3>2, <2>1, <2>5, <1>1, <1>2 DEF TxHeld, Ahead, Around
    <3>4. TDT' = Around(g_tx_cur' + N - 1, N)
      BY <3>1, <2>1, <2>5, <1>1, <1>2 DEF Around
    <3>5. ASSUME NEW i \in 0..(N - 1), Ahead(i, TDH, N) < TxHeld + 1
          PROVE  g_tx_ring'[i].frame = Len(onwire) + Ahead(i, TDH, N) + 1
      <4>1. CASE i = g_tx_cur
        BY <4>1, <3>1, <2>2, <2>3 DEF TxHeld
      <4>2. CASE i # g_tx_cur
        <5>1. Ahead(i, TDH, N) < TxHeld
          BY <4>2, <3>5, <1>1, <1>2 DEF TxHeld, Ahead
        <5>. QED
          BY <5>1, <4>2, <3>1, <2>3 DEF Holds
      <4>. QED
        BY <4>1, <4>2
    <3>6. Holds(g_tx_ring, N, TDH, Len(onwire), TxHeld)'
      BY <3>3, <3>5, <2>1 DEF Holds
    <3>. QED
      BY <3>1, <3>3, <3>4, <3>6, <2>1, <2>4, <1>2
  <2>. QED
    BY <2>1, <2>3, <2>4, <2>5, <2>6, <1>2 DEF TxInv
<1>4. CASE send_tail
  <2>1. /\ sending /\ TDT' = g_tx_cur /\ sending' = FALSE
        /\ UNCHANGED <<g_tx_ring, g_tx_cur, TDH, queued, onwire, overrun>>
    BY <1>4 DEF send_tail, TxTail
  <2>2. TxHeld' = TxHeld
    BY <2>1 DEF TxHeld
  <2>3. ~overrun => Holds(g_tx_ring, N, TDH, Len(onwire), TxHeld)'
    BY <2>1, <2>2 DEF TxInv, Holds
  <2>. QED
    BY <2>1, <2>2, <2>3, <1>2 DEF TxInv
<1>5. CASE card_sends
  <2>1. /\ TDH # TDT /\ onwire' = Append(onwire, g_tx_ring[TDH].frame)
        /\ g_tx_ring' = [g_tx_ring EXCEPT ![TDH].dd = TRUE] /\ TDH' = TxNext(TDH)
        /\ UNCHANGED <<g_tx_cur, TDT, sending, queued, overrun>>
    BY <1>5 DEF card_sends
  <2>2. /\ g_tx_ring' \in [0..(N - 1) -> Descriptor]
        /\ \A i \in 0..(N - 1) : g_tx_ring'[i].frame = g_tx_ring[i].frame
        /\ g_tx_ring[TDH].frame \in Nat
    BY <2>1, <1>2 DEF Descriptor
  <2>3. TDH' = Around(TDH + 1, N) /\ TDH' \in 0..(N - 1)
    BY <2>1, <1>1, <1>2, NextPlace, AheadNext DEF TxNext
  <2>4. onwire' \in Seq(Nat) /\ Len(onwire') = Len(onwire) + 1
    BY <2>1, <2>2 DEF TxInv
  <2>5. ASSUME ~overrun
        PROVE  /\ Numbered(onwire)' /\ Len(queued) = Len(onwire') + TxHeld'
               /\ sending => TxHeld' >= 1
               /\ Holds(g_tx_ring, N, TDH, Len(onwire), TxHeld)'
    <3>1. /\ Numbered(onwire) /\ Len(queued) = Len(onwire) + TxHeld
          /\ sending => TxHeld >= 1 /\ TDT = Around(g_tx_cur + N - 1, N)
          /\ ~sending => TDT = g_tx_cur
          /\ Holds(g_tx_ring, N, TDH, Len(onwire), TxHeld)
      BY <2>5 DEF TxInv
    <3>2. TxHeld >= 1 /\ (sending => TxHeld >= 2)
      BY <3>1, <2>1, <1>1, <1>2, SMTT(30) DEF TxHeld, Ahead, Around
    <3>3. TxHeld' = TxHeld - 1
      <4>1. g_tx_cur # TDH
        BY <3>2, <1>2 DEF TxHeld, Ahead
      <4>2. TxHeld' = Ahead(g_tx_cur, Around(TDH + 1, N), N)
        BY <2>1, <2>3 DEF TxHeld
      <4>. QED
        BY <4>1, <4>2, <1>1, <1>2, AheadNext DEF TxHeld
    <3>4. Ahead(TDH, TDH, N) = 0
      BY <1>2 DEF Ahead
    <3>5. g_tx_ring[TDH].frame = Len(onwire) + 1
      BY <3>1, <3>2, <3>4, <1>2 DEF Holds
    <3>6. Numbered(onwire)'
      BY <3>1, <3>5, <2>1, NumberedAppend
    <3>7. ASSUME NEW i \in 0..(N - 1), Ahead(i, TDH', N) < TxHeld'
          PROVE  g_tx_ring'[i].frame = Len(onwire') + Ahead(i, TDH', N) + 1
      <4>1. Ahead(i, TDH', N) = IF i = TDH THEN N - 1 ELSE Ahead(i, TDH, N) - 1
        BY <2>3, <1>1, <1>2, AheadNext
      <4>2. i # TDH
        BY <4>1, <3>3, <3>7, <1>1, <1>2
      <4>3. Ahead(i, TDH', N) = Ahead(i, TDH, N) - 1 /\ Ahead(i, TDH, N) \in Int
        BY <4>1, <4>2, <1>1, <1>2 DEF Ahead
      <4>4. Ahead(i, TDH, N) < TxHeld
        BY <4>3, <3>3, <3>7, <1>2
      <4>5. g_tx_ring[i].frame = Len(onwire) + Ahead(i, TDH, N) + 1
        BY <4>4, <3>1 DEF Holds
      <4>. QED
        BY <4>3, <4>5, <2>2, <2>4, <1>2
    <3>8. Holds(g_tx_ring, N, TDH, Len(onwire), TxHeld)'
      BY <3>7 DEF Holds
    <3>. QED
      BY <3>1, <3>2, <3>3, <3>6, <3>8, <2>4, <1>2
  <2>. QED
    BY <2>1, <2>2, <2>3, <2>4, <2>5, <1>2 DEF TxInv
<1>6. CASE UNCHANGED txVars
  <2>1. /\ UNCHANGED <<g_tx_ring, g_tx_cur, TDH, TDT, sending, queued, onwire, overrun>>
        /\ TxHeld' = TxHeld
    BY <1>6 DEF txVars, TxHeld
  <2>2. ~overrun => Holds(g_tx_ring, N, TDH, Len(onwire), TxHeld)'
    BY <2>1 DEF TxInv, Holds
  <2>. QED
    BY <2>1, <2>2 DEF TxInv
<1>. QED
  BY <1>3, <1>4, <1>5, <1>6 DEF NicSends

\* Both rings are queues: the invariants say where each frame is.
LEMMA RingsFollow == RxInv /\ TxInv => RingsFaithful
<1>. SUFFICES ASSUME RxInv, TxInv PROVE RingsFaithful
  OBVIOUS
<1>1. NUM_RX_DESC \in Nat \ {0, 1} /\ NUM_TX_DESC \in Nat \ {0, 1}
  BY NicAssumption
<1>2. FramesInOrder /\ Len(Unread) = RxHeld
  <2>. DEFINE N == NUM_RX_DESC
  <2>1. /\ Len(arrived) \in Nat /\ Len(handled) \in Nat /\ InHand \in {0, 1}
        /\ RxHeld \in 0..(N - 1) /\ g_rx_cur \in 0..(N - 1)
    BY <1>1 DEF RxInv, Numbered, RxHeld, InHand
  <2>2. RxFirst \in 0..(N - 1) /\ RDH \in 0..(N - 1) /\ Ahead(RDH, RxFirst, N) = RxHeld
    BY <2>1, <1>1 DEF RxInv, RxFirst, Around, Ahead
  <2>3. (IF receiving THEN RxNext(g_rx_cur) ELSE g_rx_cur) = RxFirst
    <3>1. RxNext(g_rx_cur) = Around(g_rx_cur + 1, N)
      BY <2>1, <1>1, NextPlace DEF RxNext
    <3>. QED
      BY <3>1, <2>1, <1>1 DEF RxFirst, InHand, Around
  <2>4. Unread = Held(g_rx_ring, N, RxFirst, RDH)
    BY <2>3 DEF Unread
  <2>5. Len(arrived) = Len(handled) + RxHeld
    BY <2>1 DEF RxHeld
  <2>. QED
    <3>1. /\ Numbered(handled) /\ Numbered(arrived)
          /\ Len(arrived) = Len(handled) + Ahead(RDH, RxFirst, N)
          /\ Holds(g_rx_ring, N, RxFirst, Len(handled), Ahead(RDH, RxFirst, N))
      BY <2>2, <2>5 DEF RxInv
    <3>. QED
      BY <3>1, <2>2, <2>4, <1>1, HeldFollows DEF FramesInOrder
<1>3. RoomUsed
  <2>1. /\ Len(arrived) \in Nat /\ Len(handled) \in Nat /\ g_rx_cur \in 0..(NUM_RX_DESC - 1)
        /\ RxHeld \in Int /\ InHand = IF receiving THEN 1 ELSE 0
    BY <1>1 DEF RxInv, Numbered, RxHeld, InHand
  <2>2. RDH = RDT => RxHeld + InHand = NUM_RX_DESC - 1
    BY <2>1, <1>1 DEF RxInv, Around
  <2>. QED
    BY <2>1, <2>2, <1>1, <1>2 DEF RoomUsed
<1>4. SentInOrder
  <2>. DEFINE N == NUM_TX_DESC
  <2>. SUFFICES ASSUME ~overrun, ~sending
                PROVE  onwire \o Held(g_tx_ring, N, TDH, TDT) = queued
    BY DEF SentInOrder
  <2>1. /\ TDH \in 0..(N - 1) /\ TDT \in 0..(N - 1) /\ Ahead(TDT, TDH, N) = TxHeld
        /\ Numbered(onwire) /\ Numbered(queued) /\ Len(queued) = Len(onwire) + TxHeld
        /\ Holds(g_tx_ring, N, TDH, Len(onwire), TxHeld)
    BY DEF TxInv, TxHeld
  <2>. QED
    BY <2>1, <1>1, HeldFollows
<1>. QED
  BY <1>2, <1>3, <1>4 DEF RingsFaithful

\* The rings of the card are queues, for any number of descriptors from 2 on and
\* however often head, tail and the driver's index have gone around.
THEOREM RingsFaithfulHolds == NicSpec => []RingsFaithful
<1>1. RxInv /\ TxInv /\ [NicReceives \/ NicSends]_nicVars => RxInv' /\ TxInv'
  <2>. SUFFICES ASSUME RxInv, TxInv, [NicReceives \/ NicSends]_nicVars PROVE RxInv' /\ TxInv'
    OBVIOUS
  <2>1. CASE NicReceives
    <3>1. UNCHANGED txVars
      BY <2>1 DEF NicReceives, card_receives, card_drops, receive_copy, receive_return
    <3>. QED
      BY <2>1, <3>1, RxStep, TxStep
  <2>2. CASE NicSends
    <3>1. UNCHANGED rxVars
      BY <2>2 DEF NicSends, send_fill, send_tail, card_sends
    <3>. QED
      BY <2>2, <3>1, RxStep, TxStep
  <2>3. CASE UNCHANGED nicVars
    BY <2>3, RxStep, TxStep DEF nicVars
  <2>. QED
    BY <2>1, <2>2, <2>3
<1>. QED
  BY <1>1, NicStart, RingsFollow, PTL DEF NicSpec

=============================================================================
