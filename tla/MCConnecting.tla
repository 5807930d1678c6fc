----------------------------- MODULE MCConnecting -----------------------------
(***************************************************************************)
(* How peers reach each other, directly or over a relay: the rendezvous of *)
(* two initiators and a responder, and the TURN client (on IPv4, with a    *)
(* peer on IPv6) that a relayed path rests on.  The two share no state;    *)
(* part says which of them moves.                                          *)
(***************************************************************************)
EXTENDS Rendezvous, TurnClient

VARIABLE part

V4 == [ip |-> <<192, 0, 2, 7>>, port |-> 40000]
V6 == [ip |-> <<32, 1, 13, 184, 0, 0, 0, 0, 0, 0, 0, 0, 0, 0, 1, 255>>, port |-> 443]
MCPeers == {V6}
MCRelayed == V4

InitiatorSymmetry == Permutations(Initiators)

ConnectingInit == part \in {"rendezvous", "turn"} /\ Init /\ TurnInit

ConnectingNext ==
    /\ UNCHANGED part
    /\ \/ part = "rendezvous" /\ Next /\ UNCHANGED turn_vars
       \/ part = "turn" /\ TurnNext /\ UNCHANGED vars

ConnectingSpec == ConnectingInit /\ [][ConnectingNext]_<<part, vars, turn_vars>>
===============================================================================
