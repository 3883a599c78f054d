-------------------------- MODULE MCEntityTracking --------------------------
(* An instance of EntityTracking. *)
EXTENDS EntityTracking, TLC

CONSTANTS k1, k2

Symmetry == Permutations({k1, k2})
=============================================================================
