-------------------------- MODULE MCConsentStreams -------------------------
(* Model-checking instance of ConsentStreams. *)
EXTENDS ConsentStreams, TLC

Symmetry == Permutations(Clients) \cup Permutations(Streams)
=============================================================================
