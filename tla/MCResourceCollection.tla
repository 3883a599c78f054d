------------------------ MODULE MCResourceCollection ------------------------
(***************************************************************************)
(* Three days of six hours, of which China is two ahead: a day of the      *)
(* machine ends within a day of China.  Two collections a day.             *)
(***************************************************************************)
EXTENDS ResourceCollection
=============================================================================
