------------------------------ MODULE MCSession ------------------------------
(* Instances of Session for TLC. *)
EXTENDS Session

\* Peer 1 writes once; peer 2 writes twice, so that its frames may arrive out
\* of order or not fit one message.
OnceAndTwice == [p \in Peer |-> IF p = 1 THEN 1 ELSE 2]
==============================================================================
