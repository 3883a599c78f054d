--------------------------- MODULE MCAccountLogins --------------------------
(***************************************************************************)
(* Two names, two passwords and four requests, each interchangeable.       *)
(***************************************************************************)
EXTENDS AccountLogins, TLC

CONSTANTS r1, r2, r3, r4, n1, n2, a, b

MCSymmetry == Permutations(Requests) \cup Permutations(Names) \cup Permutations(Passwords)
=============================================================================
