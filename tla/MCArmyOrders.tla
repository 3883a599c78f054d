---------------------------- MODULE MCArmyOrders ---------------------------
(***************************************************************************)
(* One army, of player 1, whose city is at one end of a line of three      *)
(* cells.  It can be sent against player 2 at the other end and, although  *)
(* it carries the number that the cell of player 3 carries, against player *)
(* 3 half-way, where it will be refused.                                   *)
(***************************************************************************)
EXTENDS ArmyOrders, TLC

CONSTANT a1

MCOwner == a1 :> 1
MCCity == 1 :> 0 @@ 2 :> 2 @@ 3 :> 1
MCAlliance == 1 :> 3 @@ 2 :> 0 @@ 3 :> 0
=============================================================================
