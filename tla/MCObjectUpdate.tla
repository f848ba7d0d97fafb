---------------------------- MODULE MCObjectUpdate ----------------------------
(* Model values and symmetry for checking ObjectUpdate. *)
EXTENDS ObjectUpdate, TLC

CONSTANTS redis, file, disk

\* Nothing in the endpoint tells providers apart.
Symmetry == Permutations(Providers)
=============================================================================
