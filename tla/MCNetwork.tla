----------------------------- MODULE MCNetwork -----------------------------
(* Queries, sends with their address cache, and the card's rings for TLC:  *)
(* one of them moves in each behaviour.                                    *)
EXTENDS Queries, Link, Nic

VARIABLE part

networkVars == <<part, vars, linkVars, nicVars>>

MCInit ==
  /\ part \in {"queries", "link", "receiving", "sending", "header"}
  /\ Init /\ LinkInit /\ NicInit
  /\ part # "header" => header = <<0, 0, 0>>

MCNext ==
  \/ part = "queries" /\ Next /\ UNCHANGED <<part, linkVars, nicVars>>
  \/ part = "link" /\ LinkNext /\ UNCHANGED <<part, vars, nicVars>>
  \/ part = "receiving" /\ NicReceives /\ UNCHANGED <<part, vars, linkVars>>
  \/ part = "sending" /\ NicSends /\ UNCHANGED <<part, vars, linkVars>>

MCSpec == MCInit /\ [][MCNext]_networkVars /\ WF_linkVars(part = "link" /\ ipv4_send_wait)

============================================================================
