------------------------- MODULE MCConsentRequests -------------------------
(* Model-checking instance of ConsentRequests.  Terms either differ in     *)
(* their connector key (OwnExport) or only in their wording (OneExport).   *)
EXTENDS ConsentRequests, TLC

OwnExport == {<<t, t>> : t \in Terms}
OneExport == Terms \X Terms

Symmetry == Permutations(Requests) \cup Permutations(Askers)
            \cup Permutations(Deciders) \cup Permutations(Workers)
=============================================================================
