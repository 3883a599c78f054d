------------------------ MODULE WriteBehind_proofs -------------------------
(***************************************************************************)
(* Proofs about WriteBehind, for any set of goroutines and any bounds: the *)
(* invariant IInv is inductive, the safety properties follow from it, and  *)
(* WriteBehind implements DurableCell.                                     *)
(***************************************************************************)
EXTENDS WriteBehindRefinement, TLAPS

USE DEF vars, actorVars, cacheVars, writerVars, bookVars

-----------------------------------------------------------------------------
(* Each part of the invariant is kept by every step, given the parts named *)
(* in the lemma's assumptions.                                             *)

\* Every step keeps the types.
LEMMA TypeOKStep ==
  ASSUME TypeOK, [Next]_vars
  PROVE  TypeOK'
<1> USE ConstantsOK DEF TypeOK, Snap, Callers, NoSnap, NotWaiting, WaitState
<1>1. CASE ActorNext
  <2>1. CASE LoadDocument
    BY <2>1 DEF LoadDocument
  <2>2. CASE LoadInitial
    BY <2>2 DEF LoadInitial
  <2>3. CASE Edit
    BY <2>3 DEF Edit
  <2>4. ASSUME NEW op \in {"tick", "flush", "close"}, BuildNextSnapshot(op)
        PROVE  TypeOK'
    <3>1. asnap' \in Snap /\ version' \in Nat
      BY <2>4 DEF BuildNextSnapshot, NextVersion
    <3> QED BY <2>4, <3>1 DEF BuildNextSnapshot
  <2>5. CASE CloseClean
    BY <2>5 DEF CloseClean
  <2>6. CASE EnqueueLatest
    BY <2>6 DEF EnqueueLatest, KeepNewest
  <2>7. CASE Signal
    BY <2>7 DEF Signal, WaitFor, WakeSent
  <2>8. CASE FlushSyncReturns
    BY <2>8 DEF FlushSyncReturns
  <2>9. CASE StopWriter
    BY <2>9 DEF StopWriter
  <2>10. CASE CloseReturns
    BY <2>10 DEF CloseReturns
  <2>11. CASE CloseTimesOut
    BY <2>11 DEF CloseTimesOut
  <2> QED BY <1>1, <2>1, <2>2, <2>3, <2>4, <2>5, <2>6, <2>7, <2>8, <2>9,
             <2>10, <2>11 DEF ActorNext
<1>2. CASE WaitNext
  <2>1. ASSUME NEW c \in Callers, WaitCheck(c)
        PROVE  TypeOK'
    BY <2>1 DEF WaitCheck, Acknowledge, Reached
  <2>2. ASSUME NEW c \in Callers, WaitNotified(c)
        PROVE  TypeOK'
    BY <2>2 DEF WaitNotified
  <2>3. ASSUME NEW c \in Callers, WaitWriterDone(c)
        PROVE  TypeOK'
    BY <2>3 DEF WaitWriterDone, Acknowledge, Reached
  <2>4. CASE WaitCancelled
    BY <2>4 DEF WaitCancelled
  <2>5. ASSUME NEW g \in Goroutines, GoroutineEnds(g)
        PROVE  TypeOK'
    BY <2>5 DEF GoroutineEnds
  <2> QED BY <1>2, <2>1, <2>2, <2>3, <2>4, <2>5 DEF WaitNext
<1>3. CASE WriterNext
  <2>1. CASE WriterWakes
    BY <2>1 DEF WriterWakes
  <2>2. CASE WriterStops
    BY <2>2 DEF WriterStops
  <2>3. CASE PopPending
    BY <2>3 DEF PopPending
  <2>4. CASE ConsumeReturns
    BY <2>4 DEF ConsumeReturns
  <2>5. CASE CheckNewer
    BY <2>5 DEF CheckNewer, Superseded
  <2>6. CASE SaveSucceeds
    BY <2>6 DEF SaveSucceeds
  <2>7. CASE SaveFails
    BY <2>7 DEF SaveFails
  <2>8. CASE MarkPersisted
    BY <2>8 DEF MarkPersisted, NextChannel
  <2>9. CASE CloseNotify
    BY <2>9 DEF CloseNotify
  <2>10. CASE Requeue
    BY <2>10 DEF Requeue, Superseded, KeepNewest
  <2>11. CASE Rewake
    BY <2>11 DEF Rewake, WakeSent
  <2> QED BY <1>3, <2>1, <2>2, <2>3, <2>4, <2>5, <2>6, <2>7, <2>8, <2>9,
             <2>10, <2>11 DEF WriterNext
<1>4. CASE Crash
  <2>1. wait' \in [Callers -> WaitState]
    BY <1>4 DEF Crash
  <2>2. crashes' \in 0 .. MaxCrashes
    BY <1>4 DEF Crash
  <2> QED BY <1>4, <2>1, <2>2 DEF Crash
<1>5. CASE UNCHANGED vars
  BY <1>5
<1> QED BY <1>1, <1>2, <1>3, <1>4, <1>5 DEF Next, Terminated

\* The control states of the threads fit together: only Close closes the
\* cache, the entity is clean from the moment its snapshot is built until
\* the call is over, and the writer exits only with nothing left to save.
LEMMA PhasesStep ==
  ASSUME TypeOK, Enqueuing, Phases, [Next]_vars
  PROVE  Phases'
<1> USE ConstantsOK DEF Phases, TypeOK, Enqueuing, Active, Callers,
           NotWaiting, NoSnap, Snap, WaitState
<1>1. CASE ActorNext
  <2>1. CASE LoadDocument
    BY <2>1 DEF LoadDocument
  <2>2. CASE LoadInitial
    BY <2>2 DEF LoadInitial
  <2>3. CASE Edit
    BY <2>3 DEF Edit
  <2>4. ASSUME NEW op \in {"tick", "flush", "close"}, BuildNextSnapshot(op)
        PROVE  Phases'
    BY <2>4 DEF BuildNextSnapshot, NextVersion
  <2>5. CASE CloseClean
    BY <2>5 DEF CloseClean
  <2>6. CASE EnqueueLatest
    BY <2>6 DEF EnqueueLatest, KeepNewest
  <2>7. CASE Signal
    BY <2>7 DEF Signal, WaitFor, WakeSent
  <2>8. CASE FlushSyncReturns
    BY <2>8 DEF FlushSyncReturns
  <2>9. CASE StopWriter
    BY <2>9 DEF StopWriter
  <2>10. CASE CloseReturns
    BY <2>10 DEF CloseReturns
  <2>11. CASE CloseTimesOut
    BY <2>11 DEF CloseTimesOut
  <2> QED BY <1>1, <2>1, <2>2, <2>3, <2>4, <2>5, <2>6, <2>7, <2>8, <2>9,
             <2>10, <2>11 DEF ActorNext
<1>2. CASE WaitNext
  <2>1. ASSUME NEW c \in Callers, WaitCheck(c)
        PROVE  Phases'
    BY <2>1 DEF WaitCheck, Acknowledge, Reached
  <2>2. ASSUME NEW c \in Callers, WaitNotified(c)
        PROVE  Phases'
    BY <2>2 DEF WaitNotified
  <2>3. ASSUME NEW c \in Callers, WaitWriterDone(c)
        PROVE  Phases'
    BY <2>3 DEF WaitWriterDone, Acknowledge, Reached
  <2>4. CASE WaitCancelled
    BY <2>4 DEF WaitCancelled
  <2>5. ASSUME NEW g \in Goroutines, GoroutineEnds(g)
        PROVE  Phases'
    BY <2>5 DEF GoroutineEnds
  <2> QED BY <1>2, <2>1, <2>2, <2>3, <2>4, <2>5 DEF WaitNext
<1>3. CASE WriterNext
  BY <1>3 DEF WriterNext, WriterWakes, WriterStops, PopPending,
              ConsumeReturns, CheckNewer, SaveSucceeds, SaveFails,
              MarkPersisted, NextChannel, CloseNotify, Requeue, Superseded,
              KeepNewest, Rewake, WakeSent
<1>4. CASE Crash
  BY <1>4 DEF Crash
<1>5. CASE UNCHANGED vars
  BY <1>5
<1> QED BY <1>1, <1>2, <1>3, <1>4, <1>5 DEF Next, Terminated

\* Edits and versions are numbered upwards and nothing on its way to the
\* database is ahead of the entity.
LEMMA NumberingStep ==
  ASSUME TypeOK, Phases, Enqueuing, Numbering, [Next]_vars
  PROVE  Numbering'
<1> USE ConstantsOK DEF Numbering, TypeOK, Phases, Enqueuing, Active, NoSnap,
           Snap, Callers, WaitState
<1>1. CASE ActorNext
  <2>1. CASE LoadDocument
    BY <2>1 DEF LoadDocument
  <2>2. CASE LoadInitial
    BY <2>2 DEF LoadInitial
  <2>3. CASE Edit
    BY <2>3 DEF Edit
  <2>4. ASSUME NEW op \in {"tick", "flush", "close"}, BuildNextSnapshot(op)
        PROVE  Numbering'
    BY <2>4 DEF BuildNextSnapshot, NextVersion
  <2>5. CASE CloseClean
    BY <2>5 DEF CloseClean
  <2>6. CASE EnqueueLatest
    BY <2>6 DEF EnqueueLatest, KeepNewest
  <2>7. CASE Signal
    BY <2>7 DEF Signal, WaitFor, WakeSent
  <2>8. CASE FlushSyncReturns
    BY <2>8 DEF FlushSyncReturns
  <2>9. CASE StopWriter
    BY <2>9 DEF StopWriter
  <2>10. CASE CloseReturns
    BY <2>10 DEF CloseReturns
  <2>11. CASE CloseTimesOut
    BY <2>11 DEF CloseTimesOut
  <2> QED BY <1>1, <2>1, <2>2, <2>3, <2>4, <2>5, <2>6, <2>7, <2>8, <2>9,
             <2>10, <2>11 DEF ActorNext
<1>2. CASE WaitNext
  BY <1>2 DEF WaitNext, WaitCheck, WaitNotified, WaitWriterDone,
              WaitCancelled, GoroutineEnds, Acknowledge, Reached
<1>3. CASE WriterNext
  BY <1>3 DEF WriterNext, WriterWakes, WriterStops, PopPending,
              ConsumeReturns, CheckNewer, SaveSucceeds, SaveFails,
              MarkPersisted, NextChannel, CloseNotify, Requeue, Superseded,
              KeepNewest, Rewake, WakeSent
<1>4. CASE Crash
  BY <1>4 DEF Crash
<1>5. CASE UNCHANGED vars
  BY <1>5
<1> QED BY <1>1, <1>2, <1>3, <1>4, <1>5 DEF Next, Terminated

\* The snapshot the actor is about to enqueue is newer than pending and
\* than the writer's, so enqueueLatest always takes it.
LEMMA EnqueuingStep ==
  ASSUME TypeOK, Numbering, Phases, Enqueuing, [Next]_vars
  PROVE  Enqueuing'
<1> USE ConstantsOK DEF Enqueuing, TypeOK, Numbering, Phases, Active, NoSnap,
           Snap, Callers, WaitState
<1>1. CASE ActorNext
  BY <1>1 DEF ActorNext, LoadDocument, LoadInitial, Edit, BuildNextSnapshot,
              NextVersion, CloseClean, EnqueueLatest, KeepNewest, Signal,
              WaitFor, WakeSent, FlushSyncReturns, StopWriter, CloseReturns,
              CloseTimesOut
<1>2. CASE WaitNext
  BY <1>2 DEF WaitNext, WaitCheck, WaitNotified, WaitWriterDone,
              WaitCancelled, GoroutineEnds, Acknowledge, Reached
<1>3. CASE WriterNext
  BY <1>3 DEF WriterNext, WriterWakes, WriterStops, PopPending,
              ConsumeReturns, CheckNewer, SaveSucceeds, SaveFails,
              MarkPersisted, NextChannel, CloseNotify, Requeue, Superseded,
              KeepNewest, Rewake, WakeSent
<1>4. CASE Crash
  BY <1>4 DEF Crash
<1>5. CASE UNCHANGED vars
  BY <1>5
<1> QED BY <1>1, <1>2, <1>3, <1>4, <1>5 DEF Next, Terminated

\* What will be saved next is at least as new as the document, and pending
\* is newer than what the writer holds.
LEMMA ForwardStep ==
  ASSUME TypeOK, Phases, Numbering, Enqueuing, Forward, [Next]_vars
  PROVE  Forward'
<1> USE ConstantsOK DEF Forward, TypeOK, Phases, Numbering, Enqueuing,
           Active, NoSnap, Snap, Callers, WaitState
<1>1. CASE ActorNext
  BY <1>1 DEF ActorNext, LoadDocument, LoadInitial, Edit, BuildNextSnapshot,
              NextVersion, CloseClean, EnqueueLatest, KeepNewest, Signal,
              WaitFor, WakeSent, FlushSyncReturns, StopWriter, CloseReturns,
              CloseTimesOut
<1>2. CASE WaitNext
  BY <1>2 DEF WaitNext, WaitCheck, WaitNotified, WaitWriterDone,
              WaitCancelled, GoroutineEnds, Acknowledge, Reached
<1>3. CASE WriterNext
  BY <1>3 DEF WriterNext, WriterWakes, WriterStops, PopPending,
              ConsumeReturns, CheckNewer, SaveSucceeds, SaveFails,
              MarkPersisted, NextChannel, CloseNotify, Requeue, Superseded,
              KeepNewest, Rewake, WakeSent
<1>4. CASE Crash
  BY <1>4 DEF Crash
<1>5. CASE UNCHANGED vars
  BY <1>5
<1> QED BY <1>1, <1>2, <1>3, <1>4, <1>5 DEF Next, Terminated

\* A version number stands for at least the content it was built with,
\* wherever snapshots of that or a later version are.
LEMMA ClaimsStep ==
  ASSUME TypeOK, Phases, Numbering, Enqueuing, Forward, Claims, [Next]_vars
  PROVE  Claims'
<1> USE ConstantsOK DEF Claims, TypeOK, Phases, Numbering, Enqueuing,
           Forward, Carries, Active, Callers, NoSnap, NotWaiting, Snap,
           WaitState
<1>1. CASE ActorNext
  <2>1. CASE LoadDocument
    BY <2>1 DEF LoadDocument
  <2>2. CASE LoadInitial
    BY <2>2 DEF LoadInitial
  <2>3. CASE Edit
    BY <2>3 DEF Edit
  <2>4. ASSUME NEW op \in {"tick", "flush", "close"}, BuildNextSnapshot(op)
        PROVE  Claims'
    BY <2>4 DEF BuildNextSnapshot, NextVersion
  <2>5. CASE CloseClean
    BY <2>5 DEF CloseClean
  <2>6. CASE EnqueueLatest
    BY <2>6 DEF EnqueueLatest, KeepNewest
  <2>7. CASE Signal
    BY <2>7 DEF Signal, WaitFor, WakeSent
  <2>8. CASE FlushSyncReturns
    BY <2>8 DEF FlushSyncReturns
  <2>9. CASE StopWriter
    BY <2>9 DEF StopWriter
  <2>10. CASE CloseReturns
    BY <2>10 DEF CloseReturns
  <2>11. CASE CloseTimesOut
    BY <2>11 DEF CloseTimesOut
  <2> QED BY <1>1, <2>1, <2>2, <2>3, <2>4, <2>5, <2>6, <2>7, <2>8, <2>9,
             <2>10, <2>11 DEF ActorNext
<1>2. CASE WaitNext
  <2>1. ASSUME NEW c \in Callers, WaitCheck(c)
        PROVE  Claims'
    BY <2>1 DEF WaitCheck, Acknowledge, Reached
  <2>2. ASSUME NEW c \in Callers, WaitNotified(c)
        PROVE  Claims'
    BY <2>2 DEF WaitNotified
  <2>3. ASSUME NEW c \in Callers, WaitWriterDone(c)
        PROVE  Claims'
    BY <2>3 DEF WaitWriterDone, Acknowledge, Reached
  <2>4. CASE WaitCancelled
    BY <2>4 DEF WaitCancelled
  <2>5. ASSUME NEW g \in Goroutines, GoroutineEnds(g)
        PROVE  Claims'
    BY <2>5 DEF GoroutineEnds
  <2> QED BY <1>2, <2>1, <2>2, <2>3, <2>4, <2>5 DEF WaitNext
<1>3. CASE WriterNext
  BY <1>3 DEF WriterNext, WriterWakes, WriterStops, PopPending,
              ConsumeReturns, CheckNewer, SaveSucceeds, SaveFails,
              MarkPersisted, NextChannel, CloseNotify, Requeue, Superseded,
              KeepNewest, Rewake, WakeSent
<1>4. CASE Crash
  BY <1>4 DEF Crash
<1>5. CASE UNCHANGED vars
  BY <1>5
<1> QED BY <1>1, <1>2, <1>3, <1>4, <1>5 DEF Next, Terminated

\* The newest state of the entity is dirty, held, or stored.
LEMMA LatestStep ==
  ASSUME TypeOK, Phases, Numbering, Enqueuing, Forward, Latest, [Next]_vars
  PROVE  Latest'
<1> USE ConstantsOK DEF Latest, TypeOK, Phases, Numbering, Enqueuing,
           Forward, Active, NoSnap, Snap, Callers, WaitState
<1>1. CASE ActorNext
  BY <1>1 DEF ActorNext, LoadDocument, LoadInitial, Edit, BuildNextSnapshot,
              NextVersion, CloseClean, EnqueueLatest, KeepNewest, Signal,
              WaitFor, WakeSent, FlushSyncReturns, StopWriter, CloseReturns,
              CloseTimesOut
<1>2. CASE WaitNext
  BY <1>2 DEF WaitNext, WaitCheck, WaitNotified, WaitWriterDone,
              WaitCancelled, GoroutineEnds, Acknowledge, Reached
<1>3. CASE WriterNext
  BY <1>3 DEF WriterNext, WriterWakes, WriterStops, PopPending,
              ConsumeReturns, CheckNewer, SaveSucceeds, SaveFails,
              MarkPersisted, NextChannel, CloseNotify, Requeue, Superseded,
              KeepNewest, Rewake, WakeSent
<1>4. CASE Crash
  BY <1>4 DEF Crash
<1>5. CASE UNCHANGED vars
  BY <1>5
<1> QED BY <1>1, <1>2, <1>3, <1>4, <1>5 DEF Next, Terminated

\* No waiter holds a channel from the future.
LEMMA ChannelsStep ==
  ASSUME TypeOK, Channels, [Next]_vars
  PROVE  Channels'
<1> USE ConstantsOK DEF Channels, TypeOK, Callers, NotWaiting, Snap,
           WaitState
<1>1. CASE ActorNext
  BY <1>1 DEF ActorNext, LoadDocument, LoadInitial, Edit, BuildNextSnapshot,
              NextVersion, CloseClean, EnqueueLatest, KeepNewest, Signal,
              WaitFor, WakeSent, FlushSyncReturns, StopWriter, CloseReturns,
              CloseTimesOut
<1>2. CASE WaitNext
  <2>1. ASSUME NEW c \in Callers, WaitCheck(c)
        PROVE  Channels'
    BY <2>1 DEF WaitCheck, Acknowledge, Reached
  <2>2. ASSUME NEW c \in Callers, WaitNotified(c)
        PROVE  Channels'
    BY <2>2 DEF WaitNotified
  <2>3. ASSUME NEW c \in Callers, WaitWriterDone(c)
        PROVE  Channels'
    BY <2>3 DEF WaitWriterDone, Acknowledge, Reached
  <2>4. CASE WaitCancelled
    BY <2>4 DEF WaitCancelled
  <2>5. ASSUME NEW g \in Goroutines, GoroutineEnds(g)
        PROVE  Channels'
    BY <2>5 DEF GoroutineEnds
  <2> QED BY <1>2, <2>1, <2>2, <2>3, <2>4, <2>5 DEF WaitNext
<1>3. CASE WriterNext
  BY <1>3 DEF WriterNext, WriterWakes, WriterStops, PopPending,
              ConsumeReturns, CheckNewer, SaveSucceeds, SaveFails,
              MarkPersisted, NextChannel, CloseNotify, Requeue, Superseded,
              KeepNewest, Rewake, WakeSent
<1>4. CASE Crash
  BY <1>4 DEF Crash
<1>5. CASE UNCHANGED vars
  BY <1>5
<1> QED BY <1>1, <1>2, <1>3, <1>4, <1>5 DEF Next, Terminated

\* A pending snapshot never waits on a sleeping writer.
LEMMA NoLostWakeupStep ==
  ASSUME TypeOK, Phases, NoLostWakeup, [Next]_vars
  PROVE  NoLostWakeup'
<1> USE ConstantsOK DEF NoLostWakeup, TypeOK, Phases, NoSnap, Snap, Callers,
           WaitState
<1>1. CASE ActorNext
  BY <1>1 DEF ActorNext, LoadDocument, LoadInitial, Edit, BuildNextSnapshot,
              NextVersion, CloseClean, EnqueueLatest, KeepNewest, Signal,
              WaitFor, WakeSent, FlushSyncReturns, StopWriter, CloseReturns,
              CloseTimesOut
<1>2. CASE WaitNext
  BY <1>2 DEF WaitNext, WaitCheck, WaitNotified, WaitWriterDone,
              WaitCancelled, GoroutineEnds, Acknowledge, Reached
<1>3. CASE WriterNext
  BY <1>3 DEF WriterNext, WriterWakes, WriterStops, PopPending,
              ConsumeReturns, CheckNewer, SaveSucceeds, SaveFails,
              MarkPersisted, NextChannel, CloseNotify, Requeue, Superseded,
              KeepNewest, Rewake, WakeSent
<1>4. CASE Crash
  BY <1>4 DEF Crash
<1>5. CASE UNCHANGED vars
  BY <1>5
<1> QED BY <1>1, <1>2, <1>3, <1>4, <1>5 DEF Next, Terminated

\* No waiter sleeps on a live channel when its version is stored.
LEMMA NoLostNotificationStep ==
  ASSUME TypeOK, Channels, NoLostNotification, [Next]_vars
  PROVE  NoLostNotification'
<1> USE ConstantsOK DEF NoLostNotification, TypeOK, Channels, Callers,
           NotWaiting, Reached, Snap, WaitState
<1>1. CASE ActorNext
  BY <1>1 DEF ActorNext, LoadDocument, LoadInitial, Edit, BuildNextSnapshot,
              NextVersion, CloseClean, EnqueueLatest, KeepNewest, Signal,
              WaitFor, WakeSent, FlushSyncReturns, StopWriter, CloseReturns,
              CloseTimesOut
<1>2. CASE WaitNext
  <2>1. ASSUME NEW c \in Callers, WaitCheck(c)
        PROVE  NoLostNotification'
    BY <2>1 DEF WaitCheck, Acknowledge, Reached
  <2>2. ASSUME NEW c \in Callers, WaitNotified(c)
        PROVE  NoLostNotification'
    BY <2>2 DEF WaitNotified, NotifyClosed
  <2>3. ASSUME NEW c \in Callers, WaitWriterDone(c)
        PROVE  NoLostNotification'
    BY <2>3 DEF WaitWriterDone, Acknowledge, Reached
  <2>4. CASE WaitCancelled
    BY <2>4 DEF WaitCancelled
  <2>5. ASSUME NEW g \in Goroutines, GoroutineEnds(g)
        PROVE  NoLostNotification'
    BY <2>5 DEF GoroutineEnds
  <2> QED BY <1>2, <2>1, <2>2, <2>3, <2>4, <2>5 DEF WaitNext
<1>3. CASE WriterNext
  BY <1>3 DEF WriterNext, WriterWakes, WriterStops, PopPending,
              ConsumeReturns, CheckNewer, SaveSucceeds, SaveFails,
              MarkPersisted, NextChannel, CloseNotify, Requeue, Superseded,
              KeepNewest, Rewake, WakeSent
<1>4. CASE Crash
  BY <1>4 DEF Crash
<1>5. CASE UNCHANGED vars
  BY <1>5 DEF Reached, NotifyClosed
<1> QED BY <1>1, <1>2, <1>3, <1>4, <1>5 DEF Next, Terminated

\* Acknowledged contents are in the document.
LEMMA AckedDurableStep ==
  ASSUME TypeOK, Claims, Forward, AckedDurable, [Next]_vars
  PROVE  AckedDurable'
<1> USE ConstantsOK DEF AckedDurable, TypeOK, Claims, Forward, Active,
           Carries, Callers, Snap, WaitState
<1>1. CASE ActorNext
  BY <1>1 DEF ActorNext, LoadDocument, LoadInitial, Edit, BuildNextSnapshot,
              NextVersion, CloseClean, EnqueueLatest, KeepNewest, Signal,
              WaitFor, WakeSent, FlushSyncReturns, StopWriter, CloseReturns,
              CloseTimesOut
<1>2. CASE WaitNext
  <2>1. ASSUME NEW c \in Callers, WaitCheck(c)
        PROVE  AckedDurable'
    BY <2>1 DEF WaitCheck, Acknowledge, Reached
  <2>2. ASSUME NEW c \in Callers, WaitNotified(c)
        PROVE  AckedDurable'
    BY <2>2 DEF WaitNotified
  <2>3. ASSUME NEW c \in Callers, WaitWriterDone(c)
        PROVE  AckedDurable'
    BY <2>3 DEF WaitWriterDone, Acknowledge, Reached
  <2>4. CASE WaitCancelled
    BY <2>4 DEF WaitCancelled
  <2>5. ASSUME NEW g \in Goroutines, GoroutineEnds(g)
        PROVE  AckedDurable'
    BY <2>5 DEF GoroutineEnds
  <2> QED BY <1>2, <2>1, <2>2, <2>3, <2>4, <2>5 DEF WaitNext
<1>3. CASE WriterNext
  BY <1>3 DEF WriterNext, WriterWakes, WriterStops, PopPending,
              ConsumeReturns, CheckNewer, SaveSucceeds, SaveFails,
              MarkPersisted, NextChannel, CloseNotify, Requeue, Superseded,
              KeepNewest, Rewake, WakeSent
<1>4. CASE Crash
  BY <1>4 DEF Crash
<1>5. CASE UNCHANGED vars
  BY <1>5
<1> QED BY <1>1, <1>2, <1>3, <1>4, <1>5 DEF Next, Terminated

-----------------------------------------------------------------------------
(* The theorems.                                                           *)

LEMMA InitTypes == Init => TypeOK
<1> SUFFICES ASSUME Init PROVE TypeOK
  OBVIOUS
<1>1. wait \in [Callers -> WaitState]
  BY DEF Init, WaitState, NotWaiting
<1>2. crashes \in 0 .. MaxCrashes
  BY ConstantsOK DEF Init
<1> QED BY <1>1, <1>2 DEF Init, TypeOK, Snap, NoSnap

\* The types of all variables, for any bounds.
THEOREM TypeCorrect == Spec => []TypeOK
<1>1. Init => TypeOK
  BY InitTypes
<1>2. TypeOK /\ [Next]_vars => TypeOK'
  BY TypeOKStep
<1> QED BY <1>1, <1>2, PTL DEF Spec

LEMMA InitIInv == Init => IInv
<1> SUFFICES ASSUME Init PROVE IInv
  OBVIOUS
<1> USE ConstantsOK DEF Init, Callers, WaitState, NotWaiting, Snap, NoSnap
<1>1. TypeOK
  BY InitTypes
<1>2. Phases /\ Numbering /\ Enqueuing /\ Forward /\ Latest
  BY DEF Phases, Numbering, Enqueuing, Forward, Latest, Active
<1>3. Claims /\ Channels
  BY DEF Claims, Channels
<1>4. NoLostWakeup /\ NoLostNotification /\ AckedDurable
  BY DEF NoLostWakeup, NoLostNotification, AckedDurable
<1> QED BY <1>1, <1>2, <1>3, <1>4 DEF IInv

LEMMA NextIInv == IInv /\ [Next]_vars => IInv'
BY TypeOKStep, PhasesStep, NumberingStep, EnqueuingStep, ForwardStep,
   ClaimsStep, LatestStep, ChannelsStep, NoLostWakeupStep,
   NoLostNotificationStep, AckedDurableStep
DEF IInv

\* The inductive invariant holds of every behaviour of the cache.
THEOREM Invariance == Spec => []IInv
BY InitIInv, NextIInv, PTL DEF Spec

\* Whatever the interleaving of the two threads and however often saves
\* fail, no edit is lost while the cache is open.
THEOREM NoEditLost == Spec => []NothingLost
<1>1. IInv => NothingLost
  BY DEF IInv, Enqueuing, Latest, NothingLost, HeldSnaps
<1> QED BY <1>1, Invariance, PTL

\* What FlushSync or WaitPersisted acknowledged stays in the document,
\* across retries, superseded snapshots and crashes.
THEOREM AcknowledgedIsDurable == Spec => []AckedDurable
BY Invariance, PTL DEF IInv

\* A FlushSync that succeeds has stored the whole entity.
THEOREM FlushedIsStored == Spec => []FlushSyncStoresAll
<1>1. IInv => FlushSyncStoresAll
  <2> SUFFICES ASSUME IInv, wait[Actor].pc = "ok" PROVE store = entity
    BY DEF FlushSyncStoresAll
  <2>1. wait[Actor].covers = entity /\ apc = "wait"
    BY DEF IInv, Phases
  <2>2. wait[Actor].covers <= store /\ store <= entity
    BY <2>1 DEF IInv, Claims, Numbering, Callers
  <2> QED BY <2>1, <2>2 DEF IInv, TypeOK
<1> QED BY <1>1, Invariance, PTL

\* What is reported as stored is stored, completely and for good.
THEOREM ReportedIsStored == Spec => []StoredMeansStored
BY AcknowledgedIsDurable, FlushedIsStored, PTL DEF StoredMeansStored

\* Neither the writer nor a waiter sleeps through the event it waits for.
THEOREM NoSleepThrough == Spec => []NobodyOversleeps
BY Invariance, PTL DEF IInv, NobodyOversleeps

\* After Close has stopped the writer the document is the entity, unless a
\* save failed after closing.
THEOREM ShutdownSaves == Spec => []ShutdownComplete
<1>1. IInv => ShutdownComplete
  BY DEF IInv, Phases, Latest, ShutdownComplete
<1> QED BY <1>1, Invariance, PTL

-----------------------------------------------------------------------------
(* The refinement.                                                         *)

\* An acknowledgement names only what the document holds.
LEMMA AckIsPromise ==
  ASSUME IInv, NEW c \in Callers, WaitCheck(c) \/ WaitWriterDone(c)
  PROVE  acked' = acked \/ Cell!Promise
<1>1. CASE Reached(c) /\ Acknowledge(c)
  <2>1. wait[c].covers \in Nat /\ wait[c].target \in Nat
    BY DEF IInv, TypeOK, WaitState
  <2>2. wait[c].covers <= store
    BY <1>1, <2>1 DEF IInv, TypeOK, Claims, Carries, Reached, WaitCheck,
       WaitWriterDone
  <2>3. UNCHANGED <<apc, entity, store>>
    BY DEF WaitCheck, WaitWriterDone
  <2> QED BY <1>1, <2>1, <2>2, <2>3 DEF IInv, TypeOK, Acknowledge, Cell!Promise
<1>2. CASE ~(Reached(c) /\ Acknowledge(c))
  BY <1>2 DEF WaitCheck, WaitWriterDone
<1> QED BY <1>1, <1>2

\* A save moves the document forward, never past the entity.
LEMMA SaveIsPersist ==
  ASSUME IInv, SaveSucceeds \/ SaveFails
  PROVE  store' = store \/ Cell!Persist
<1>1. store' = store \/ store' = wsnap.content
  BY DEF SaveSucceeds, SaveFails
<1>2. wpc = "save" /\ apc # "boot" /\ UNCHANGED <<apc, entity, acked>>
  BY DEF SaveSucceeds, SaveFails, IInv, Phases
<1>3. store <= wsnap.content /\ wsnap.content <= entity
  BY <1>2 DEF IInv, Forward, Numbering, Active
<1>4. store \in Nat /\ entity \in Nat /\ wsnap.content \in Nat
  BY DEF IInv, TypeOK, Snap
<1> QED BY <1>1, <1>2, <1>3, <1>4 DEF Cell!Persist

\* Every step of the cache is a step of the cell or leaves it alone.
LEMMA StepRefines == IInv /\ [Next]_vars => [Cell!CellNext]_(Cell!cellVars)
<1> SUFFICES ASSUME IInv, [Next]_vars
             PROVE  Cell!CellNext \/ UNCHANGED Cell!cellVars
  OBVIOUS
<1> USE DEF Cell!CellNext, Cell!cellVars
<1>1. CASE LoadInitial \/ Edit
  BY <1>1 DEF LoadInitial, Edit, IInv, TypeOK, Numbering, Cell!EditValue
<1>2. CASE Crash
  BY <1>2 DEF Crash, Cell!Reload
<1>3. ASSUME NEW c \in Callers, WaitCheck(c) \/ WaitWriterDone(c)
      PROVE  Cell!CellNext \/ UNCHANGED Cell!cellVars
  BY <1>3, AckIsPromise DEF WaitCheck, WaitWriterDone
<1>4. CASE SaveSucceeds \/ SaveFails
  BY <1>4, SaveIsPersist DEF SaveSucceeds, SaveFails, IInv, Phases
<1>5. CASE LoadDocument
  BY <1>5 DEF LoadDocument
<1>6. CASE ActorNext /\ ~(LoadDocument \/ LoadInitial \/ Edit)
  BY <1>6 DEF ActorNext, BuildNextSnapshot, CloseClean, EnqueueLatest, Signal,
     FlushSyncReturns, StopWriter, CloseReturns, CloseTimesOut
<1>7. CASE WaitCancelled \/ (\E g \in Goroutines : GoroutineEnds(g))
           \/ (\E c \in Callers : WaitNotified(c))
  BY <1>7 DEF WaitCancelled, GoroutineEnds, WaitNotified
<1>8. CASE WriterNext /\ ~(SaveSucceeds \/ SaveFails)
  BY <1>8 DEF WriterNext, WriterWakes, WriterStops, PopPending,
     ConsumeReturns, CheckNewer, MarkPersisted, CloseNotify, Requeue, Rewake
<1>9. CASE UNCHANGED vars
  BY <1>9
<1> QED BY <1>1, <1>2, <1>3, <1>4, <1>5, <1>6, <1>7, <1>8, <1>9
        DEF Next, WaitNext, Terminated

\* The cache implements the durable cell: the document follows the entity
\* forwards only, and nothing is acknowledged that it does not hold.
THEOREM Refinement == Spec => ImplementsCell
<1>1. Init => Cell!CellInit
  BY DEF Init, Cell!CellInit
<1> QED BY <1>1, StepRefines, Invariance, PTL
        DEF Spec, ImplementsCell, Cell!CellSpec
=============================================================================
