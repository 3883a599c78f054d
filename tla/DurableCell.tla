---------------------------- MODULE DurableCell ----------------------------
(***************************************************************************)
(* What an actor may expect of its cache, whichever way the cache works: a *)
(* value that is edited in memory, a document that follows it at a         *)
(* distance and only forwards, and acknowledgements that name nothing but  *)
(* what the document holds.  A crash takes the value back to the document. *)
(* Values are numbers that grow with every edit.                           *)
(***************************************************************************)
EXTENDS Naturals

VARIABLES
  value,     \* the actor's entity
  stored,    \* the document
  promised   \* the newest value somebody was told is stored

cellVars == <<value, stored, promised>>

CellInit == value = 0 /\ stored = 0 /\ promised = 0

\* A handler changes the entity.
EditValue ==
  /\ value' \in Nat /\ value' > value
  /\ UNCHANGED <<stored, promised>>

\* The document moves up to some value the entity has had.
Persist ==
  /\ stored' \in Nat /\ stored < stored' /\ stored' <= value
  /\ UNCHANGED <<value, promised>>

\* Somebody is told that a value is stored.
Promise ==
  /\ promised' \in Nat /\ promised < promised' /\ promised' <= stored
  /\ UNCHANGED <<value, stored>>

\* The process dies and the entity is loaded again.
Reload ==
  /\ value' = stored
  /\ UNCHANGED <<stored, promised>>

CellNext == EditValue \/ Persist \/ Promise \/ Reload

CellSpec == CellInit /\ [][CellNext]_cellVars
=============================================================================
