--------------------------- MODULE MCWriteBehind ---------------------------
(* Instances of WriteBehind for TLC.                                       *)
EXTENDS WriteBehindRefinement, TLC

\* The goroutines are interchangeable.
Symmetry == Permutations(Goroutines)
=============================================================================
