----------------------- MODULE WriteBehindInductive ------------------------
(***************************************************************************)
(* The inductive invariant of WriteBehind: why its safety properties hold. *)
(* Snapshots travel from the actor (asnap) to pending to the writer        *)
(* (wsnap), and back to pending after a failure; along the way the newer   *)
(* one is always the one that stays.                                       *)
(***************************************************************************)
EXTENDS WriteBehind

\* The writer holds a snapshot that is not yet acknowledged.
Active == wpc \in {"check", "save", "mark", "requeue"}

\* What the control state of one thread implies about the others.
Phases ==
  /\ closed <=> apc \in {"awaitDone", "stopped"}
  /\ apc \notin {"boot", "idle"} => ~dirty
  /\ draining => closed
  /\ wpc = "return" /\ draining => pending = NoSnap
  /\ wpc = "done" => closed /\ pending = NoSnap
  /\ apc = "boot" =>
       /\ wpc = "select" /\ ~wake /\ pending = NoSnap
       /\ \A c \in Callers : wait[c].pc = "none"
  /\ wait[Actor].pc # "none" => apc = "wait" /\ wait[Actor].covers = entity

\* Edits are numbered upwards, and no snapshot is ahead of the entity.
Numbering ==
  /\ store <= edits /\ entity <= edits
  /\ apc # "boot" => store <= entity
  /\ pending = NoSnap \/ pending.version > 0
  /\ pending.version <= version /\ persisted <= version
  /\ pending.content <= entity
  /\ Active => wsnap.version > 0 /\ wsnap.version <= version
               /\ wsnap.content <= entity

\* What the actor is about to enqueue is newer than anything on the way.
Enqueuing ==
  /\ apc \in {"enqueue", "signal"} =>
       asnap.version = version /\ asnap.content = entity
  /\ apc = "enqueue" =>
       /\ pending.version < version
       /\ Active => wsnap.version < version

\* Whatever will be saved next is at least as new as the document, and the
\* pending snapshot is newer than the writer's.
Forward ==
  /\ Active => store <= wsnap.content
  /\ wpc = "mark" => store = wsnap.content
  /\ pending # NoSnap => store <= pending.content
  /\ Active /\ pending # NoSnap =>
       wsnap.version < pending.version /\ wsnap.content <= pending.content

\* Version t carries content k: every snapshot of that version or of a later
\* one contains k, and so does the document once that version is persisted.
Carries(t, k) ==
  /\ t <= version /\ k <= entity
  /\ persisted >= t => k <= store
  /\ pending # NoSnap /\ pending.version >= t => k <= pending.content
  /\ Active /\ wsnap.version >= t => k <= wsnap.content

Claims ==
  /\ apc \in {"enqueue", "signal"} => Carries(asnap.version, asnap.content)
  /\ \A c \in Callers :
       wait[c].pc # "none" => Carries(wait[c].target, wait[c].covers)
  /\ \A c \in Callers : wait[c].pc = "ok" => wait[c].covers <= store

\* NothingLost, with the version that makes the writer keep the snapshot.
Latest ==
  \/ apc = "boot" \/ lost \/ dirty \/ store = entity \/ apc = "enqueue"
  \/ pending # NoSnap /\ pending.version = version /\ pending.content = entity
  \/ /\ wpc \in {"check", "save", "requeue"}
     /\ wsnap.version = version /\ wsnap.content = entity

Channels ==
  \A c \in Callers : wait[c].pc = "select" => wait[c].ch <= notifyGen

\* The inductive invariant: what each thread knows of the others, and the
\* order in which snapshots move towards the database.
IInv ==
  /\ TypeOK /\ Phases /\ Numbering /\ Enqueuing /\ Forward /\ Claims /\ Latest
  /\ Channels /\ NoLostWakeup /\ NoLostNotification /\ AckedDurable
=============================================================================
