----------------------------- MODULE MCCliRegistry -----------------------------
(***************************************************************************)
(* CliRegistry for TLC: the tasks are alike, and so are the names, all of   *)
(* which are typed; no property is about one of them or about liveness.     *)
(***************************************************************************)
EXTENDS CliRegistry, TLC

Symmetry == Permutations(Tasks) \cup Permutations(Names)
=============================================================================
