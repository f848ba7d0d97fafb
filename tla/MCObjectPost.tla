----------------------------- MODULE MCObjectPost -----------------------------
(* Model values and symmetry for checking ObjectPost. *)
EXTENDS ObjectPost, TLC

CONSTANTS redis, file, till

\* Nothing in the endpoint tells providers apart.
Symmetry == Permutations(Providers)
=============================================================================
