-------------------------- MODULE MCConsentTokens --------------------------
(* Model-checking instance of ConsentTokens: the processes and the tokens  *)
(* are interchangeable; the owner's scope matches every scope.             *)
EXTENDS ConsentTokens, TLC

CONSTANTS Broad, Narrow

MCLanes == {OwnerLane, Broad, Narrow}

MCCovers == {<<l, l>> : l \in MCLanes} \cup {<<Broad, Narrow>>}
            \cup ({OwnerLane} \X MCLanes)

Symmetry == Permutations(Instances) \cup Permutations(Tokens)
=============================================================================
