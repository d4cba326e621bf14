----------------------- MODULE MCAdvisorRelationship ------------------------
(* Model-checking instance of AdvisorRelationship. *)
EXTENDS AdvisorRelationship, TLC

Symmetry == Permutations(Requests) \cup Permutations(Scopes)
            \cup Permutations(Investors) \cup Permutations(Handlers)
=============================================================================
