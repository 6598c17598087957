--------------------------- MODULE MCLineageStore ---------------------------
(* Instances of LineageStore for TLC. *)
EXTENDS LineageStore, TLC
CONSTANTS s1, s2, s3

Symmetry == Permutations(Sessions)
=============================================================================
