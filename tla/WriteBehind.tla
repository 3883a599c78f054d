---------------------------- MODULE WriteBehind ----------------------------
(***************************************************************************)
(* The write-behind cache that sits between an actor and MongoDB.  The     *)
(* repository has three copies of it: PlayerDC, WorldDC and AllianceDC.    *)
(*                                                                         *)
(* Two threads share the cache.  The actor edits the entity, and from time *)
(* to time turns it into a numbered snapshot (Tick), waits until that      *)
(* snapshot is stored (FlushSync), or shuts the cache down (Close).  The   *)
(* writer goroutine takes the newest snapshot and saves it, and tries      *)
(* again when the database fails.  In AllianceDC further goroutines wait   *)
(* for a version on the actor's behalf (WaitPersisted).  Each step below   *)
(* is one critical section of the mutex, one channel operation, or one     *)
(* database call.                                                          *)
(*                                                                         *)
(* A snapshot carries the whole entity, so its content is abstracted to    *)
(* the number of the last edit it contains; 0 stands for no document.      *)
(***************************************************************************)
EXTENDS Naturals

CONSTANTS
  Actor,        \* the thread of the actor that owns the cache
  Goroutines,   \* the goroutines that may be inside WaitPersisted at once
  MaxEdits,     \* bound: handlers edit the entity while fewer edits were made
  MaxCrashes    \* bound: times the process dies and is started again

ASSUME ConstantsOK ==
  /\ Actor \notin Goroutines
  /\ MaxEdits \in Nat
  /\ MaxCrashes \in Nat

VARIABLES
  \* the actor thread, and what only it touches
  apc,          \* where the actor is
  call,         \* the cache operation it is in: Tick, FlushSync or Close
  entity,       \* number of the last edit in the entity
  dirty,        \* Entity.Dirty()
  asnap,        \* snapshot built and not yet enqueued
  wait,         \* waitPersisted, per thread that may be inside it
  \* the cache, under its mutex, and its channels
  version,      \* newest version generated
  persisted,    \* newest version acknowledged by the database
  pending,      \* newest snapshot not yet taken by the writer
  closed,       \* closed, and with it close(stop)
  wake,         \* the one-slot channel wake holds a token
  notifyGen,    \* which persistNotify channel is the current one
  \* the writer goroutine
  wpc,          \* where the writer is; "done" is close(done)
  wsnap,        \* snapshot in its hands
  draining,     \* it left its select because of stop
  \* the database, and bookkeeping of this model
  store,        \* content of the document, 0 when there is none
  edits,        \* edits made so far
  crashes,      \* crashes so far
  acked,        \* newest content some waiter was told is stored
  lost          \* the newest snapshot was given up, because of close

actorVars  == <<apc, call, entity, dirty, asnap>>
cacheVars  == <<version, persisted, pending, closed, wake, notifyGen>>
writerVars == <<wpc, wsnap, draining>>
bookVars   == <<edits, crashes, acked, lost>>
vars == <<actorVars, wait, cacheVars, writerVars, store, bookVars>>

Callers == {Actor} \cup Goroutines

Snap == [version : Nat, content : Nat]

\* A nil *EntitySnap.  Generated versions start at 1, so "pending == nil ||
\* pending.Version < s.Version" is one comparison.
NoSnap == [version |-> 0, content |-> 0]

\* One thread's waitPersisted: the version it waits for, the content that
\* version stands for, and the persistNotify channel it sleeps on.
WaitState == [pc : {"none", "check", "select", "ok", "failed"},
              target : Nat, covers : Nat, ch : Nat]

NotWaiting == [pc |-> "none", target |-> 0, covers |-> 0, ch |-> 0]

TypeOK ==
  /\ apc \in {"boot", "idle", "enqueue", "signal", "wait", "stopWriter",
              "awaitDone", "stopped"}
  /\ call \in {"none", "tick", "flush", "close"}
  /\ entity \in Nat
  /\ dirty \in BOOLEAN
  /\ asnap \in Snap
  /\ wait \in [Callers -> WaitState]
  /\ version \in Nat /\ persisted \in Nat /\ notifyGen \in Nat
  /\ pending \in Snap
  /\ closed \in BOOLEAN /\ wake \in BOOLEAN
  /\ wpc \in {"select", "pop", "check", "save", "mark", "notify", "requeue",
              "rewake", "return", "done"}
  /\ wsnap \in Snap
  /\ draining \in BOOLEAN
  /\ store \in Nat /\ acked \in Nat
  /\ edits \in Nat
  /\ crashes \in 0 .. MaxCrashes
  /\ lost \in BOOLEAN

\* NewDC: a cache with nothing in it, and its writer goroutine started.
Init ==
  /\ apc = "boot" /\ call = "none" /\ entity = 0 /\ dirty = FALSE
  /\ asnap = NoSnap
  /\ wait = [c \in Callers |-> NotWaiting]
  /\ version = 0 /\ persisted = 0 /\ pending = NoSnap /\ closed = FALSE
  /\ wake = FALSE /\ notifyGen = 0
  /\ wpc = "select" /\ wsnap = NoSnap /\ draining = FALSE
  /\ store = 0 /\ edits = 0 /\ crashes = 0 /\ acked = 0 /\ lost = FALSE

-----------------------------------------------------------------------------
(* The actor thread.                                                       *)

\* Load an existing document: the entity is what the database holds.
LoadDocument ==
  /\ apc = "boot" /\ store # 0
  /\ apc' = "idle" /\ entity' = store /\ dirty' = FALSE
  /\ UNCHANGED <<call, asnap, wait, cacheVars, writerVars, store, bookVars>>

\* Load when there is no document: the repository makes a new entity and
\* sets its id, which marks it dirty.
LoadInitial ==
  /\ apc = "boot" /\ store = 0
  /\ apc' = "idle" /\ entity' = edits + 1 /\ dirty' = TRUE
  /\ edits' = edits + 1
  /\ UNCHANGED <<call, asnap, wait, cacheVars, writerVars, store, crashes,
                 acked, lost>>

\* A message handler changes the entity.
Edit ==
  /\ apc = "idle" /\ edits < MaxEdits
  /\ entity' = edits + 1 /\ edits' = edits + 1 /\ dirty' = TRUE
  /\ UNCHANGED <<apc, call, asnap, wait, cacheVars, writerVars, store,
                 crashes, acked, lost>>

NextVersion == version + 1

\* Tick, as a call of its own or as the first half of FlushSync and Close,
\* on a dirty entity: buildNextSnapshot.  The version is taken under the
\* mutex, the entity is copied and cleaned after it, out of the writer's
\* sight.  A clean entity makes Tick and FlushSync return at once.
BuildNextSnapshot(op) ==
  /\ apc = "idle" /\ dirty /\ ~closed
  /\ version' = NextVersion
  /\ asnap' = [version |-> NextVersion, content |-> entity]
  /\ dirty' = FALSE
  /\ call' = op /\ apc' = "enqueue"
  /\ UNCHANGED <<entity, wait, persisted, pending, closed, wake, notifyGen,
                 writerVars, store, bookVars>>

\* Close on a clean entity: its FlushSync returns nil without waiting.
CloseClean ==
  /\ apc = "idle" /\ ~dirty
  /\ call' = "close" /\ apc' = "stopWriter"
  /\ UNCHANGED <<entity, dirty, asnap, wait, cacheVars, writerVars, store,
                 bookVars>>

\* Mutation of KeepNewest: whatever is pending already stays.
KeepOldest(old, new) == IF old = NoSnap THEN new ELSE old

\* Of two snapshots the newer one stays pending.
KeepNewest(old, new) == IF old.version < new.version THEN new ELSE old

\* enqueueLatest, the part under the mutex.
EnqueueLatest ==
  /\ apc = "enqueue"
  /\ pending' = IF closed THEN pending ELSE KeepNewest(pending, asnap)
  /\ apc' = "signal"
  /\ UNCHANGED <<call, entity, dirty, asnap, wait, version, persisted, closed,
                 wake, notifyGen, writerVars, store, bookVars>>

\* What waitPersisted(target) starts with, for the snapshot s.
WaitFor(s) ==
  [pc |-> "check", target |-> s.version, covers |-> s.content, ch |-> 0]

\* Mutation of WakeSent: an unbuffered channel, the token is dropped unless
\* the writer is in its select.
WakeIfListening == wake \/ wpc = "select"

\* The non-blocking send on wake: the channel has room for one token, so
\* there is one afterwards.
WakeSent == TRUE

\* enqueueLatest after the unlock: the send on wake.  Tick is over;
\* AllianceActor then may start a goroutine that waits for the version.
\* FlushSync and Close go on to waitPersisted.
Signal ==
  /\ apc = "signal"
  /\ wake' = WakeSent
  /\ asnap' = NoSnap
  /\ \/ /\ call = "tick"
        /\ apc' = "idle" /\ call' = "none"
        /\ \/ wait' = wait
           \/ \E g \in Goroutines :
                /\ wait[g].pc = "none"
                /\ wait' = [wait EXCEPT ![g] = WaitFor(asnap)]
     \/ /\ call \in {"flush", "close"}
        /\ apc' = "wait" /\ call' = call
        /\ wait' = [wait EXCEPT ![Actor] = WaitFor(asnap)]
  /\ UNCHANGED <<entity, dirty, version, persisted, pending, closed,
                 notifyGen, writerVars, store, bookVars>>

\* FlushSync is back: a handler goes on, Close goes on whatever the result.
FlushSyncReturns ==
  /\ apc = "wait" /\ wait[Actor].pc \in {"ok", "failed"}
  /\ wait' = [wait EXCEPT ![Actor] = NotWaiting]
  /\ \/ call = "flush" /\ apc' = "idle" /\ call' = "none"
     \/ call = "close" /\ apc' = "stopWriter" /\ call' = call
  /\ UNCHANGED <<entity, dirty, asnap, cacheVars, writerVars, store, bookVars>>

\* Close: closed = true and close(stop), under the mutex.
StopWriter ==
  /\ apc = "stopWriter"
  /\ closed' = TRUE /\ apc' = "awaitDone"
  /\ UNCHANGED <<call, entity, dirty, asnap, wait, version, persisted,
                 pending, wake, notifyGen, writerVars, store, bookVars>>

\* Close returns when the writer has exited, or when its ctx expires.
CloseReturns ==
  /\ apc = "awaitDone" /\ wpc = "done"
  /\ apc' = "stopped"
  /\ UNCHANGED <<call, entity, dirty, asnap, wait, cacheVars, writerVars,
                 store, bookVars>>

\* Mutation of CloseTimesOut: Close waits for the writer without a deadline.
CloseWithoutDeadline == CloseReturns

CloseTimesOut ==
  /\ apc = "awaitDone"
  /\ apc' = "stopped"
  /\ UNCHANGED <<call, entity, dirty, asnap, wait, cacheVars, writerVars,
                 store, bookVars>>

-----------------------------------------------------------------------------
(* waitPersisted, by the actor or by a goroutine.                          *)

\* A persistNotify channel is closed once the writer that replaced it has
\* also closed it, which it does after it has released the mutex.
NotifyClosed(ch) ==
  /\ ch < notifyGen
  /\ wpc = "notify" => ch + 1 < notifyGen

\* The caller is told that its version is stored.
Acknowledge(c) ==
  /\ wait' = [wait EXCEPT ![c].pc = "ok"]
  /\ acked' = IF acked < wait[c].covers THEN wait[c].covers ELSE acked

\* Mutation of Reached: one version too early.
ReachedEarly(c) == persisted + 1 >= wait[c].target

Reached(c) == persisted >= wait[c].target

\* Top of the loop, under the mutex: compare, or take the current channel.
WaitCheck(c) ==
  /\ wait[c].pc = "check"
  /\ \/ Reached(c) /\ Acknowledge(c)
     \/ /\ ~Reached(c)
        /\ wait' = [wait EXCEPT ![c].pc = "select", ![c].ch = notifyGen]
        /\ acked' = acked
  /\ UNCHANGED <<actorVars, cacheVars, writerVars, store, edits, crashes,
                 lost>>

WaitNotified(c) ==
  /\ wait[c].pc = "select" /\ NotifyClosed(wait[c].ch)
  /\ wait' = [wait EXCEPT ![c].pc = "check"]
  /\ UNCHANGED <<actorVars, cacheVars, writerVars, store, bookVars>>

\* Mutation of WaitWriterDone: goes back to the select.
WaitIgnoresDone(c) ==
  /\ wait[c].pc = "select" /\ wpc = "done" /\ Reached(c)
  /\ Acknowledge(c)
  /\ UNCHANGED <<actorVars, cacheVars, writerVars, store, edits, crashes,
                 lost>>

\* The writer has exited: look once more, else ErrWriterDone.
WaitWriterDone(c) ==
  /\ wait[c].pc = "select" /\ wpc = "done"
  /\ \/ Reached(c) /\ Acknowledge(c)
     \/ /\ ~Reached(c)
        /\ wait' = [wait EXCEPT ![c].pc = "failed"]
        /\ acked' = acked
  /\ UNCHANGED <<actorVars, cacheVars, writerVars, store, edits, crashes,
                 lost>>

\* Only Close waits under a deadline; FlushSync and the goroutines are given
\* context.TODO() and context.Background().
WaitCancelled ==
  /\ call = "close" /\ wait[Actor].pc = "select"
  /\ wait' = [wait EXCEPT ![Actor].pc = "failed"]
  /\ UNCHANGED <<actorVars, cacheVars, writerVars, store, bookVars>>

\* A goroutine that waited reports to its actor, or gives up, and ends.
GoroutineEnds(g) ==
  /\ wait[g].pc \in {"ok", "failed"}
  /\ wait' = [wait EXCEPT ![g] = NotWaiting]
  /\ UNCHANGED <<actorVars, cacheVars, writerVars, store, bookVars>>

-----------------------------------------------------------------------------
(* The writer goroutine.                                                   *)

\* writerLoop: the select picks either channel when both are ready.
WriterWakes ==
  /\ wpc = "select" /\ wake
  /\ wake' = FALSE /\ wpc' = "pop"
  /\ UNCHANGED <<actorVars, wait, version, persisted, pending, closed,
                 notifyGen, wsnap, draining, store, bookVars>>

\* Mutation of WriterStops: the goroutine returns without a last round.
WriterStopsAtOnce ==
  /\ wpc = "select" /\ closed
  /\ draining' = TRUE /\ wpc' = "done"
  /\ UNCHANGED <<actorVars, wait, cacheVars, wsnap, store, bookVars>>

WriterStops ==
  /\ wpc = "select" /\ closed
  /\ draining' = TRUE /\ wpc' = "pop"
  /\ UNCHANGED <<actorVars, wait, cacheVars, wsnap, store, bookVars>>

\* popPending, under the mutex.
PopPending ==
  /\ wpc = "pop"
  /\ wsnap' = pending /\ pending' = NoSnap
  /\ wpc' = IF pending # NoSnap THEN "check" ELSE "return"
  /\ UNCHANGED <<actorVars, wait, version, persisted, closed, wake, notifyGen,
                 draining, store, bookVars>>

\* consumePending found nothing: back to the select, or close(done).
ConsumeReturns ==
  /\ wpc = "return"
  /\ wpc' = IF draining THEN "done" ELSE "select"
  /\ UNCHANGED <<actorVars, wait, cacheVars, wsnap, draining, store, bookVars>>

\* Mutation of Superseded: the newest version counts as superseded by itself.
SupersededBySame(s) == version >= s.version

\* hasNewerVersion: a snapshot that has been superseded is not saved.
Superseded(s) == version > s.version

CheckNewer ==
  /\ wpc = "check"
  /\ wpc' = IF Superseded(wsnap) THEN "pop" ELSE "save"
  /\ UNCHANGED <<actorVars, wait, cacheVars, wsnap, draining, store, bookVars>>

\* repo.Save replaces the whole document.
SaveSucceeds ==
  /\ wpc = "save"
  /\ store' = wsnap.content /\ wpc' = "mark"
  /\ UNCHANGED <<actorVars, wait, cacheVars, wsnap, draining, bookVars>>

\* An error does not say whether the replacement took place.
SaveFails ==
  /\ wpc = "save"
  /\ store' \in {store, wsnap.content} /\ wpc' = "requeue"
  /\ UNCHANGED <<actorVars, wait, cacheVars, wsnap, draining, bookVars>>

\* Mutation of NextChannel: persisted advances, the channel stays.
SameChannel == notifyGen

\* The channel that replaces the current persistNotify.
NextChannel == notifyGen + 1

\* markPersisted, under the mutex: advance and replace the channel ...
MarkPersisted ==
  /\ wpc = "mark"
  /\ persisted' = IF wsnap.version <= persisted THEN persisted
                  ELSE wsnap.version
  /\ notifyGen' = IF wsnap.version <= persisted THEN notifyGen
                  ELSE NextChannel
  /\ wpc' = IF wsnap.version <= persisted THEN "pop" ELSE "notify"
  /\ UNCHANGED <<actorVars, wait, version, pending, closed, wake, wsnap,
                 draining, store, bookVars>>

\* ... and then close the channel that was replaced.
CloseNotify ==
  /\ wpc = "notify"
  /\ wpc' = "pop"
  /\ UNCHANGED <<actorVars, wait, cacheVars, wsnap, draining, store, bookVars>>

\* requeueOnError, under the mutex: the snapshot goes back unless the cache
\* is closed, a newer version was generated, or a newer one is pending.
Requeue ==
  /\ wpc = "requeue"
  /\ \/ /\ closed \/ Superseded(wsnap)
        /\ wpc' = "pop" /\ pending' = pending
        /\ lost' = (lost \/ ~Superseded(wsnap))
     \/ /\ ~closed /\ ~Superseded(wsnap)
        /\ wpc' = "rewake" /\ lost' = lost
        /\ pending' = KeepNewest(pending, wsnap)
  /\ UNCHANGED <<actorVars, wait, version, persisted, closed, wake, notifyGen,
                 wsnap, draining, store, edits, crashes, acked>>

\* requeueOnError after the unlock; consumePending sleeps and goes round.
Rewake ==
  /\ wpc = "rewake"
  /\ wake' = WakeSent /\ wpc' = "pop"
  /\ UNCHANGED <<actorVars, wait, version, persisted, pending, closed,
                 notifyGen, wsnap, draining, store, bookVars>>

-----------------------------------------------------------------------------
(* The process.                                                            *)

\* The process dies; what is left is the document.  It starts again with a
\* new cache.
Crash ==
  /\ crashes < MaxCrashes
  /\ crashes' = crashes + 1 /\ lost' = FALSE
  /\ apc' = "boot" /\ call' = "none" /\ entity' = 0 /\ dirty' = FALSE
  /\ asnap' = NoSnap
  /\ wait' = [c \in Callers |-> NotWaiting]
  /\ version' = 0 /\ persisted' = 0 /\ pending' = NoSnap /\ closed' = FALSE
  /\ wake' = FALSE /\ notifyGen' = 0
  /\ wpc' = "select" /\ wsnap' = NoSnap /\ draining' = FALSE
  /\ UNCHANGED <<store, edits, acked>>

\* After Close the actor is gone and nothing else happens.
Terminated ==
  /\ apc = "stopped" /\ UNCHANGED vars

-----------------------------------------------------------------------------
ActorNext ==
  \/ LoadDocument \/ LoadInitial \/ Edit
  \/ \E op \in {"tick", "flush", "close"} : BuildNextSnapshot(op)
  \/ CloseClean \/ EnqueueLatest \/ Signal \/ FlushSyncReturns
  \/ StopWriter \/ CloseReturns \/ CloseTimesOut

WaitNext ==
  \/ \E c \in Callers : WaitCheck(c) \/ WaitNotified(c) \/ WaitWriterDone(c)
  \/ WaitCancelled
  \/ \E g \in Goroutines : GoroutineEnds(g)

WriterNext ==
  \/ WriterWakes \/ WriterStops \/ PopPending \/ ConsumeReturns \/ CheckNewer
  \/ SaveSucceeds \/ SaveFails \/ MarkPersisted \/ CloseNotify
  \/ Requeue \/ Rewake

Next == ActorNext \/ WaitNext \/ WriterNext \/ Crash \/ Terminated

Spec == Init /\ [][Next]_vars

\* The Go scheduler runs every goroutine that can run; the flush ticker
\* makes the actor call Tick again and again; deadlines pass.
ThreadFairness ==
  /\ WF_vars(LoadDocument \/ LoadInitial)
  /\ WF_vars(BuildNextSnapshot("tick"))
  /\ WF_vars(EnqueueLatest) /\ WF_vars(Signal) /\ WF_vars(FlushSyncReturns)
  /\ WF_vars(StopWriter) /\ WF_vars(CloseReturns \/ CloseTimesOut)
  /\ \A c \in Callers :
       WF_vars(WaitCheck(c) \/ WaitNotified(c) \/ WaitWriterDone(c))
  /\ WF_vars(WaitCancelled)
  /\ \A g \in Goroutines : WF_vars(GoroutineEnds(g))
  /\ WF_vars(wpc # "save" /\ WriterNext)

\* Nothing is assumed of the database: a save may fail for ever, or hang.
LiveSpec == Spec /\ ThreadFairness

\* A save comes back, and one that is tried again and again succeeds.
DatabaseRecovers == WF_vars(SaveSucceeds \/ SaveFails) /\ SF_vars(SaveSucceeds)

-----------------------------------------------------------------------------
(* Properties.                                                             *)

\* The snapshots that somebody still holds on the way to the database.
HeldSnaps ==
  {pending}
    \cup (IF apc = "enqueue" THEN {asnap} ELSE {})
    \cup (IF wpc \in {"check", "save", "requeue"} THEN {wsnap} ELSE {})

\* Clearing the dirty flag never loses an edit: whatever the interleaving of
\* Tick with a failing save, the latest state of the entity is still dirty,
\* in the hands of the actor, pending or the writer, or in the document.
\* The only exception is a save that fails once the cache is closed.
NothingLost ==
  \/ apc = "boot" \/ lost
  \/ dirty
  \/ store = entity
  \/ \E s \in HeldSnaps : s.content = entity

\* What a waiter was told is stored is stored, for good: no later save of an
\* older snapshot, no failed save and no crash takes it back.
AckedDurable == store >= acked

\* A FlushSync that went through leaves nothing of the entity unsaved (the
\* actor makes no edit while it waits).
FlushSyncStoresAll ==
  wait[Actor].pc = "ok" => store = entity

\* What FlushSync and WaitPersisted report as stored is stored, completely
\* and for good.
StoredMeansStored == AckedDurable /\ FlushSyncStoresAll

\* A pending snapshot never waits on a writer that sleeps or is going to
\* sleep: a token is in wake, or the actor is about to put one there, or stop
\* is closed.
NoLostWakeup ==
  wpc \in {"return", "select"} /\ pending # NoSnap =>
    wake \/ apc = "signal" \/ closed

\* A waiter never sleeps on a channel nobody will close while its version is
\* already stored: markPersisted has replaced the channel it holds.
NoLostNotification ==
  \A c \in Callers :
    wait[c].pc = "select" /\ Reached(c) => wait[c].ch < notifyGen

\* Neither the writer nor a waiter sleeps through what it waits for.
NobodyOversleeps == NoLostWakeup /\ NoLostNotification

\* When Close has stopped the writer, the document is the last state of the
\* entity, unless a save failed after closing.
ShutdownComplete ==
  apc = "stopped" /\ wpc = "done" => store = entity \/ lost

\* Every edit reaches the document, with the flush ticker alone, if saves do
\* not fail for ever and the process neither stops nor dies first.
EditsGetStored ==
  DatabaseRecovers => \A n \in 1 .. MaxEdits + MaxCrashes + 1 :
    entity = n /\ dirty ~> store >= n \/ closed \/ apc = "boot"

\* FlushSync blocks the actor, but not for ever if the database recovers.
FlushSyncTerminates ==
  DatabaseRecovers => (apc = "wait" ~> apc # "wait")

\* No goroutine stays in WaitPersisted for ever, shutdown included, if the
\* database recovers.
WaitersTerminate ==
  DatabaseRecovers => \A g \in Goroutines : wait[g].pc # "none" ~> wait[g].pc = "none"

\* Close comes back whatever the database does.
CloseTerminates == call = "close" ~> apc \in {"stopped", "boot"}

\* No call of the cache blocks its caller for ever.
CallsReturn == FlushSyncTerminates /\ WaitersTerminate /\ CloseTerminates
=============================================================================
