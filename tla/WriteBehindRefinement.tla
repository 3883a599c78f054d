----------------------- MODULE WriteBehindRefinement -----------------------
(***************************************************************************)
(* WriteBehind implements DurableCell.  Before Load has run the entity     *)
(* does not exist, and the value is the document it will be loaded from.   *)
(***************************************************************************)
EXTENDS WriteBehindInductive

Cell == INSTANCE DurableCell WITH
          value    <- IF apc = "boot" THEN store ELSE entity,
          stored   <- store,
          promised <- acked

\* The document only moves forward, to states the entity really had, and
\* nothing is acknowledged that it does not hold.
ImplementsCell == Cell!CellSpec
=============================================================================
