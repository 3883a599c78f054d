--------------------------- MODULE MCGateSession ---------------------------
(***************************************************************************)
(* Two connections, one of which logs in as two users, one after the       *)
(* other; the other one takes a user over.                                 *)
(***************************************************************************)
EXTENDS GateSession, TLC

CONSTANTS c1, c2, u1, u2

MCMayLogin == c1 :> {u1, u2} @@ c2 :> {u1}
=============================================================================
