------------------------------- MODULE MCStream ------------------------------
(* Stream by itself, for TLC. *)
EXTENDS Stream
==============================================================================
