----------------------------- MODULE MCSnowflake ----------------------------
(***************************************************************************)
(* Two processes with two ids per millisecond, so that a millisecond is    *)
(* used up, the clock is behind, and a process has a second life.          *)
(***************************************************************************)
EXTENDS Snowflake

CONSTANTS p1, p2

MCNode == [p \in {p1, p2} |-> IF p = p1 THEN 0 ELSE 1]
=============================================================================
