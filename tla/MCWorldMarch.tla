--------------------------- MODULE MCWorldMarch ----------------------------
(***************************************************************************)
(* Two players with one army each, their cities at the two ends of a line  *)
(* of four cells.  The army of player 1 carries alliance 2, the number     *)
(* that the cell of player 2 carries.                                      *)
(***************************************************************************)
EXTENDS WorldMarch, TLC

CONSTANTS a1, a2

MCOwner == a1 :> 1 @@ a2 :> 2
MCCity == 1 :> 0 @@ 2 :> 3
MCAlliance == 1 :> 2 @@ 2 :> 0
=============================================================================
