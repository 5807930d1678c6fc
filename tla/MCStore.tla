------------------------------- MODULE MCStore -------------------------------
(* Store, for model checking.  The callers are interchangeable. *)
EXTENDS Store

CallerSymmetry == Permutations(Callers)
==============================================================================
