---------------------------- MODULE MCFileProvider ----------------------------
(* Model values and symmetry for checking FileProvider. *)
EXTENDS FileProvider

CONSTANTS logo, song, clip, c1, c2, c3

\* One upload is as large as the others together.
UnevenSize == [c \in Calls |-> IF c = c1 THEN 3 ELSE 1]

\* Every upload has the same size.
MCSize == [c \in Calls |-> 1]

\* Keys and calls are interchangeable when every body has the same size.
Symmetry == Permutations(Keys) \cup Permutations(Calls)
=============================================================================
