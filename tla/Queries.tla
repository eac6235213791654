------------------------------ MODULE Queries ------------------------------
(***************************************************************************)
(* Questions to the network and their late answers: dns_resolve            *)
(* (kernel/net/dns.cpp) and icmp_ping (icmp.cpp).                          *)
(*                                                                         *)
(* Both send a request, poll until a flag is set by the handler of the     *)
(* answer, and give up after some time or some number of polls.  Answers   *)
(* are told apart by a 16-bit number only.  The network may lose, delay,   *)
(* repeat and reorder answers, but not keep one for ever: after MaxLate    *)
(* further requests it is gone.  Any call may poll, so answers also arrive *)
(* when nobody waits.  Numeric addresses, which ask nobody, answers without *)
(* an address, which change nothing, and requests of others, which are     *)
(* answered without a trace, are left out.                                 *)
(***************************************************************************)
EXTENDS Integers

CONSTANTS
  Host,         \* names that are resolved and hosts that are pinged
  BuiltIn,      \* names with an address of last resort
  Numbers,      \* 65536: how many request numbers there are
  MaxLate,      \* requests after which an answer is no longer on its way
  PollsRunOut,  \* whether 20000 polls may end before the time is up
  MaxRequests   \* bound on requests

ASSUME QueriesAssumption ==
  /\ Host # {} /\ Numbers \in Nat \ {0} /\ MaxLate \in Nat /\ MaxLate < Numbers
  /\ PollsRunOut \in BOOLEAN /\ MaxRequests \in Nat /\ BuiltIn \subseteq Host

VARIABLES
  g_dns_resolved, g_dns_result_ip, g_dns_query_id,
  g_ping_received, g_ping_match_seq, seq_counter,
  heard,    \* the request whose answer set g_ping_received
  call,     \* the call that waits, with the number of its request
  asked,    \* requests of each kind made so far
  answers,  \* answers on their way
  outcome   \* what the call that ended last has reported

dnsVars == <<g_dns_resolved, g_dns_result_ip, g_dns_query_id>>
pingVars == <<g_ping_received, g_ping_match_seq, seq_counter, heard>>
vars == <<dnsVars, pingVars, call, asked, answers, outcome>>

\* An address is named after its host; "none" is address 0.
Address == Host \cup {"none"}
Kind == {"dns", "ping"}
Answer == [kind : Kind, number : 0..(Numbers - 1), from : Host, request : Nat]
Call == [kind : Kind \cup {"idle"}, host : Host, request : Nat]
Outcome == [kind : Kind \cup {"idle"}, ok : BOOLEAN, host : Host, address : Address,
            request : Nat, built_in : BOOLEAN]

Idle == [kind |-> "idle", host |-> CHOOSE h \in Host : TRUE, request |-> 0]
Waiting(kind) == call.kind = kind

OnTheirWay(kind) ==
  {a \in answers : a.kind = kind => asked[kind] + 1 - a.request <= MaxLate}

Request(kind, h, number) ==
  /\ Waiting("idle") /\ asked[kind] < MaxRequests
  /\ asked' = [asked EXCEPT ![kind] = @ + 1]
  /\ call' = [kind |-> kind, host |-> h, request |-> asked[kind] + 1]
  /\ answers' = OnTheirWay(kind)
       \cup {[kind |-> kind, number |-> number, from |-> h, request |-> asked[kind] + 1]}

NextNumber(n) == (n + 1) % Numbers

\* Faulty variant: the flag of the last query stays.
dns_resolve_stale(h) ==
  /\ g_dns_query_id' = NextNumber(g_dns_query_id)
  /\ Request("dns", h, g_dns_query_id')
  /\ UNCHANGED <<g_dns_resolved, g_dns_result_ip, pingVars, outcome>>

dns_resolve(h) ==
  /\ g_dns_resolved' = FALSE
  /\ g_dns_result_ip' = "none"
  /\ g_dns_query_id' = NextNumber(g_dns_query_id)
  /\ Request("dns", h, g_dns_query_id')
  /\ UNCHANGED <<pingVars, outcome>>

\* Found, or given up; then some names have an address all the same.
dns_return ==
  LET h == call.host
      ok == g_dns_resolved \/ h \in BuiltIn
  IN  /\ Waiting("dns")
      /\ outcome' = [kind |-> "dns", ok |-> ok, host |-> h, request |-> call.request,
                     address |-> IF g_dns_resolved THEN g_dns_result_ip
                                 ELSE IF ok THEN h ELSE "none",
                     built_in |-> ok /\ ~g_dns_resolved]
      /\ call' = Idle
      /\ UNCHANGED <<dnsVars, pingVars, asked, answers>>

\* icmp_ping takes the counter before it adds 1 to it.
icmp_ping(h) ==
  /\ g_ping_received' = FALSE
  /\ g_ping_match_seq' = seq_counter
  /\ seq_counter' = NextNumber(seq_counter)
  /\ Request("ping", h, seq_counter)
  /\ UNCHANGED <<dnsVars, heard, outcome>>

\* The request could not be sent, or the time is up.
ping_failed ==
  /\ Waiting("ping")
  /\ outcome' = [kind |-> "ping", ok |-> FALSE, host |-> call.host, address |-> "none",
                 request |-> call.request, built_in |-> FALSE]
  /\ call' = Idle
  /\ UNCHANGED <<dnsVars, pingVars, asked, answers>>

\* The loop has ended, for either reason.
ping_return ==
  /\ Waiting("ping") /\ (g_ping_received \/ PollsRunOut)
  /\ outcome' = [kind |-> "ping", ok |-> TRUE, host |-> call.host, address |-> call.host,
                 request |-> call.request, built_in |-> FALSE]
  /\ call' = Idle
  /\ UNCHANGED <<dnsVars, pingVars, asked, answers>>

dns_udp_callback(a) ==
  /\ a.kind = "dns" /\ a.number = g_dns_query_id
  /\ g_dns_result_ip' = a.from
  /\ g_dns_resolved' = TRUE
  /\ UNCHANGED <<g_dns_query_id, pingVars, call, asked, answers, outcome>>

icmp_handle_packet(a) ==
  /\ a.kind = "ping" /\ a.number = g_ping_match_seq
  /\ g_ping_received' = TRUE
  /\ heard' = a.request
  /\ UNCHANGED <<dnsVars, g_ping_match_seq, seq_counter, call, asked, answers, outcome>>

\* 0x1234
FirstQuery == 4660

Init ==
  /\ g_dns_resolved = FALSE /\ g_dns_result_ip = "none"
  /\ g_dns_query_id = FirstQuery % Numbers
  /\ g_ping_received = FALSE /\ g_ping_match_seq = 0 /\ seq_counter = 1 % Numbers
  /\ heard = 0
  /\ call = Idle
  /\ asked = [k \in Kind |-> 0]
  /\ answers = {}
  /\ outcome = [kind |-> "idle", ok |-> FALSE, host |-> Idle.host, address |-> "none",
                request |-> 0, built_in |-> FALSE]

Next ==
  \/ \E h \in Host : dns_resolve(h)
  \/ \E h \in Host : icmp_ping(h)
  \/ dns_return
  \/ ping_failed
  \/ ping_return
  \/ \E a \in answers : dns_udp_callback(a)
  \/ \E a \in answers : icmp_handle_packet(a)

Spec == Init /\ [][Next]_vars

-----------------------------------------------------------------------------
(* Properties.                                                             *)

\* Request numbers stay in their range when they start over.
TypeOK ==
  /\ g_dns_resolved \in BOOLEAN /\ g_ping_received \in BOOLEAN
  /\ g_dns_result_ip \in Address
  /\ g_dns_query_id \in 0..(Numbers - 1)
  /\ g_ping_match_seq \in 0..(Numbers - 1) /\ seq_counter \in 0..(Numbers - 1)
  /\ heard \in Nat
  /\ call \in Call
  /\ asked \in [Kind -> Nat]
  /\ answers \in SUBSET Answer
  /\ outcome \in Outcome

\* dns_resolve never reports the address of another name: neither a late answer
\* to an earlier query nor one that arrived between two queries is taken for it.
ResolvesAsked ==
  outcome.kind = "dns" /\ outcome.ok => outcome.address = outcome.host

\* "64 bytes from %s: icmp_seq=%u" (shell/commands.cpp 753): the ping command says
\* this when icmp_ping returns true.  It does so only if the host has answered
\* this very request.
PingHonest ==
  outcome.kind = "ping" /\ outcome.ok /\ Waiting("idle") => heard = outcome.request

\* A result is the one of the request that was made, however late answers to
\* others come and however often numbers start over (dns_resolve, icmp_ping).
AnswersOwn == TypeOK /\ ResolvesAsked /\ PingHonest

=============================================================================
