----------------------------- MODULE MCObjectGet -----------------------------
(* Model values and symmetry for checking ObjectGet. *)
EXTENDS ObjectGet, TLC

CONSTANTS redis, file, s3

\* Nothing in the endpoint tells providers apart.
Symmetry == Permutations(Providers)
=============================================================================
