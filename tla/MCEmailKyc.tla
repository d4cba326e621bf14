------------------------------ MODULE MCEmailKyc ------------------------------
(* The email-KYC workflow under two concurrent calls, which are alike.  Once    *)
(* blurred is set every property but the type is vacuous, so the search stops.  *)
EXTENDS EmailKyc, TLC

Symmetry == Permutations(Handlers)

Clear == ~blurred

\* Updates that lose another one are not even generated.
NoLostUpdate == blurred' => wf' = wf
=============================================================================
