-------------------------- MODULE MCConsentNotify --------------------------
(* Model-checking instance of ConsentNotify. *)
EXTENDS ConsentNotify, TLC

Symmetry == Permutations(Procs)
=============================================================================
