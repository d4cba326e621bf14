------------------------- MODULE MCLocationSharing --------------------------
(* Model-checking instance of LocationSharing. *)
EXTENDS LocationSharing, TLC

Symmetry == Permutations(Recipients) \cup Permutations(Shares)
            \cup Permutations(Requests) \cup Permutations(Handlers)
=============================================================================
