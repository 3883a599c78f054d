-------------------------- MODULE MCPlayerRequests --------------------------
(***************************************************************************)
(* Three requests, of which one is stored before it is answered, a window  *)
(* of two numbers, one panic and one crash.                                *)
(***************************************************************************)
EXTENDS PlayerRequests, TLC

CONSTANTS s1, s2, s3
=============================================================================
