----------------------------- MODULE MCScopeSync -----------------------------
(* Opening and following a scope, on small instances. *)
EXTENDS ScopeSync, TLC

=============================================================================
