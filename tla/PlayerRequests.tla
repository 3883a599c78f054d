--------------------------- MODULE PlayerRequests ---------------------------
(***************************************************************************)
(* The life of a player's actor and the requests it takes.                 *)
(*                                                                         *)
(* A request comes from a client, through the gate and the manager, with a *)
(* number of the client's; the client sends it again when it gets no       *)
(* answer within its time-out, with the same number.  The actor takes a    *)
(* number once: it remembers the last WindowSize of them.  It loads its    *)
(* player when it is started, or, when that fails, at the next message.    *)
(*                                                                         *)
(* A handler that panics ends the actor, which is restarted at once: the   *)
(* mailbox lives on, everything else is made anew.  The old cache is not   *)
(* closed; its writer goes on and saves what it still has.                 *)
(*                                                                         *)
(* The player is the number of times each message has been carried out.    *)
(* The cache is what its snapshots do to the document; WriteBehind says    *)
(* how it does that, and DurableCell what both have in common.             *)
(***************************************************************************)
EXTENDS Naturals, Sequences, SequencesExt

CONSTANTS
  Seqs,          \* the numbers of the client's requests, one per request
  Push,          \* a message from the world, which has no number
  Synced,        \* the requests that are stored before they are answered
  None, Started, \* nothing; the message a new actor finds first
  WindowSize,    \* how many numbers the actor remembers (code: 1024)
  MaxSends,      \* bounds of the runs: how many messages are sent, how many
  MaxMailbox,    \* of them wait in the mailbox,
  MaxPanics,     \* and how often the actor
  MaxCrashes     \* and the process die

ASSUME RequestsAssumption ==
  /\ Synced \subseteq Seqs
  /\ Push \notin Seqs /\ Started \notin Seqs \cup {Push}
  /\ None \notin Seqs
  /\ WindowSize \in Nat \ {0}
  /\ MaxSends \in Nat /\ MaxMailbox \in Nat /\ MaxPanics \in Nat /\ MaxCrashes \in Nat

\* Nothing is not a player (see Player).
ASSUME NothingAssumption == None \notin [Seqs \cup {Push} -> Nat]

VARIABLES
  spawned,     \* has the manager a PID for the player?
  mailbox,     \* of the actor
  state,       \* of the actor, between two messages
  window,      \* seenSeqOrder, whose elements are those of seenSeq
  entity,      \* the player in memory
  dirty,       \* has it been edited since the last snapshot?
  flushing,    \* the request whose handler waits in FlushSync, or None
  saving,      \* the snapshot the writer is saving, or None
  queued,      \* the one it will take next, or None
  leaked,      \* what the writers of earlier actors will still save
  document,    \* the player in the database
  answers,     \* what the client was ever told of each request
  sent, panics, crashes,
  taken,       \* history: the numbers this actor has taken, in order
  loaded,      \* history: the player as this actor loaded it
  overwritten  \* history: has a leaked writer saved anything?

actor == <<state, window, entity, dirty, flushing, taken, loaded>>
cache == <<saving, queued>>
database == <<leaked, document, overwritten>>
bounds == <<sent, panics, crashes>>
requestVars == <<spawned, mailbox, actor, cache, database, answers, bounds>>

Messages == Seqs \cup {Push}
Player == [Messages -> Nat]
NobodyYet == [m \in Messages |-> 0]

\* The snapshots that the cache of a dead actor will still save, in order.
Backlog == Seq(Player) \ {<<>>}

RequestsTypeOK ==
  /\ spawned \in BOOLEAN
  /\ mailbox \in Seq(Messages \cup {Started})
  /\ state \in {"None", "LoadFailed", "Online"}
  /\ window \in Seq(Seqs) /\ taken \in Seq(Seqs)
  /\ entity \in Player /\ loaded \in Player
  /\ dirty \in BOOLEAN
  /\ flushing \in Seqs \cup {None}
  /\ saving \in Player \cup {None} /\ queued \in Player \cup {None}
  /\ leaked \subseteq Backlog
  /\ document \in Player
  /\ answers \in [Seqs -> SUBSET {"ok", "duplicate", "failed"}]
  /\ sent \in Nat /\ panics \in Nat /\ crashes \in Nat
  /\ overwritten \in BOOLEAN

RequestsInit ==
  /\ spawned = FALSE /\ mailbox = <<>>
  /\ state = "None" /\ window = <<>> /\ taken = <<>>
  /\ entity = NobodyYet /\ loaded = NobodyYet /\ dirty = FALSE
  /\ flushing = None /\ saving = None /\ queued = None
  /\ leaked = {} /\ document = NobodyYet /\ overwritten = FALSE
  /\ answers = [n \in Seqs |-> {}]
  /\ sent = 0 /\ panics = 0 /\ crashes = 0

-----------------------------------------------------------------------------
(* The client, the world and the manager.                                  *)

\* A message reaches the manager, which starts the player's actor if there
\* is none and forwards it.
Forward(m) ==
  /\ sent < MaxSends /\ Len(mailbox) < MaxMailbox
  /\ sent' = sent + 1
  /\ mailbox' = (IF spawned THEN mailbox ELSE <<Started>>) \o <<m>>
  /\ spawned' = TRUE
  /\ UNCHANGED <<actor, cache, database, answers, panics, crashes>>

-----------------------------------------------------------------------------
(* The actor.                                                              *)

\* The actor takes the next message.
Receives(m) ==
  /\ mailbox # <<>> /\ Head(mailbox) = m
  /\ flushing = None
  /\ mailbox' = Tail(mailbox)
  /\ UNCHANGED <<spawned, database, bounds>>

\* Respond to request n.
Respond(n, answer) == answers' = [answers EXCEPT ![n] = @ \cup {answer}]

\* Mutation of Seen: only the latest number is looked at.
SeenLast(n) == window # <<>> /\ Last(window) = n

Seen(n) == n \in ToSet(window)

\* Mutation of Accepted: the number just taken is the one that is evicted.
AcceptedAndForgotten(n) ==
  IF Len(window) = WindowSize THEN window ELSE Append(window, n)

\* acceptSeq: the number is remembered, and the oldest of too many is not.
Accepted(n) ==
  IF Len(window) = WindowSize THEN Append(Tail(window), n)
  ELSE Append(window, n)

TakeNumber(n) == window' = Accepted(n) /\ taken' = Append(taken, n)
TakeNone == UNCHANGED <<window, taken>>

\* init: the player as the actor has it, or as the document says.
Known == IF state = "Online" THEN entity ELSE document
Base == IF state = "Online" THEN loaded ELSE document

\* The player is in memory, loaded if need be.
IsOnline == state' = "Online" /\ loaded' = Base

\* init fails: the load did.
LoadFails ==
  /\ state # "Online"
  /\ state' = "LoadFailed"
  /\ UNCHANGED <<entity, dirty, flushing, loaded, cache>>

\* Started: a load that fails is logged.
Start ==
  /\ Receives(Started)
  /\ TakeNone
  /\ \/ LoadFails
     \/ /\ IsOnline
        /\ entity' = Known
        /\ UNCHANGED <<dirty, flushing, cache>>
  /\ UNCHANGED answers

Refuse(n) ==
  /\ Receives(n)
  /\ Seen(n)
  /\ Respond(n, "duplicate")
  /\ UNCHANGED <<actor, cache>>

\* Mutation of NotLoaded: the request is answered as if it had been done.
NotLoadedButOk(n) ==
  /\ Receives(n)
  /\ ~Seen(n)
  /\ TakeNumber(n)
  /\ LoadFails
  /\ Respond(n, "ok")

\* The number is taken although the player could not be loaded.
NotLoaded(n) ==
  /\ Receives(n)
  /\ ~Seen(n)
  /\ TakeNumber(n)
  /\ LoadFails
  /\ Respond(n, "failed")

\* What carrying out message m makes of the player.
Done(m) == [Known EXCEPT ![m] = @ + 1]

\* A handler that answers at once.
Handle(n) ==
  /\ n \notin Synced
  /\ Receives(n)
  /\ ~Seen(n)
  /\ TakeNumber(n)
  /\ IsOnline
  /\ entity' = Done(n)
  /\ dirty' = TRUE
  /\ Respond(n, "ok")
  /\ UNCHANGED <<flushing, cache>>

\* Mutation of HandleSync: the handler does not wait for its snapshot.
HandleAsync(n) ==
  /\ n \in Synced
  /\ Receives(n)
  /\ ~Seen(n)
  /\ TakeNumber(n)
  /\ IsOnline
  /\ entity' = Done(n)
  /\ dirty' = FALSE
  /\ queued' = entity'
  /\ Respond(n, "ok")
  /\ UNCHANGED <<saving, flushing>>

\* A handler that flushes first: its snapshot is queued.
HandleSync(n) ==
  /\ n \in Synced
  /\ Receives(n)
  /\ ~Seen(n)
  /\ TakeNumber(n)
  /\ IsOnline
  /\ entity' = Done(n)
  /\ dirty' = FALSE
  /\ queued' = entity'
  /\ flushing' = n
  /\ UNCHANGED <<saving, answers>>

\* FlushSync returns.
Flushed ==
  /\ flushing # None
  /\ saving = None /\ queued = None
  /\ flushing' = None
  /\ Respond(flushing, "ok")
  /\ UNCHANGED <<spawned, mailbox, state, window, entity, dirty, taken,
                 loaded, cache, database, bounds>>

\* A message of the world: it loads the player too, and is not answered.
HandlePush ==
  /\ Receives(Push)
  /\ TakeNone
  /\ \/ LoadFails
     \/ /\ IsOnline
        /\ entity' = Done(Push)
        /\ dirty' = TRUE
        /\ UNCHANGED <<flushing, cache>>
  /\ UNCHANGED answers

\* flushTick.
Tick ==
  /\ state = "Online" /\ flushing = None
  /\ dirty
  /\ dirty' = FALSE
  /\ queued' = entity
  /\ UNCHANGED <<spawned, mailbox, state, window, entity, flushing, taken,
                 loaded, saving, database, answers, bounds>>

-----------------------------------------------------------------------------
(* The cache's writer, and the writers that were left behind.              *)

\* Mutation of TakePending: FlushSync holds the lock while it waits.
TakeWhenNobodyWaits ==
  /\ flushing = None
  /\ saving = None /\ queued # None
  /\ saving' = queued /\ queued' = None
  /\ UNCHANGED <<spawned, mailbox, actor, database, answers, bounds>>

\* consumePending.
TakePending ==
  /\ saving = None /\ queued # None
  /\ saving' = queued /\ queued' = None
  /\ UNCHANGED <<spawned, mailbox, actor, database, answers, bounds>>

\* The database applies the snapshot.
Apply ==
  /\ saving # None
  /\ document' = saving
  /\ UNCHANGED <<spawned, mailbox, actor, cache, leaked, overwritten,
                 answers, bounds>>

\* The save returns without an error.
Saved ==
  /\ saving # None
  /\ document' = saving
  /\ saving' = None
  /\ UNCHANGED <<spawned, mailbox, actor, queued, leaked, overwritten,
                 answers, bounds>>

\* Mutation of SaveFails: the snapshot that failed takes the place of a newer
\* one.
SaveFailsAndRequeues ==
  /\ saving # None
  /\ saving' = None
  /\ queued' = saving
  /\ UNCHANGED <<spawned, mailbox, actor, database, answers, bounds>>

\* The save returns an error, applied or not: it is tried again, unless
\* there is a newer snapshot.
SaveFails ==
  /\ saving # None
  /\ saving' = None
  /\ queued' = IF queued = None THEN saving ELSE queued
  /\ UNCHANGED <<spawned, mailbox, actor, database, answers, bounds>>

\* A writer that was left behind saves the next of its snapshots; it does
\* not go on to another until this one is stored.
LeakedSave(w) ==
  /\ w \in leaked
  /\ document' = Head(w)
  /\ overwritten' = TRUE
  /\ \/ leaked' = leaked
     \/ leaked' = (leaked \ {w}) \cup ({Tail(w)} \ {<<>>})
  /\ UNCHANGED <<spawned, mailbox, actor, cache, answers, bounds>>

\* It may also give a snapshot up for the newer one it has.
LeakedSkip(w) ==
  /\ w \in leaked /\ Len(w) > 1
  /\ leaked' = (leaked \ {w}) \cup {Tail(w)}
  /\ UNCHANGED <<spawned, mailbox, actor, cache, document, overwritten,
                 answers, bounds>>

-----------------------------------------------------------------------------
(* Failures.                                                               *)

\* Mutation of Renewed: the old instance goes on, as Restarting has left it.
RenewedInInit ==
  /\ state' = "Init" /\ window' = <<>> /\ taken' = <<>>
  /\ entity' = NobodyYet /\ loaded' = NobodyYet /\ dirty' = FALSE
  /\ flushing' = None /\ saving' = None /\ queued' = None

\* A new actor with a new cache takes the place of the old one.
Renewed ==
  /\ state' = "None" /\ window' = <<>> /\ taken' = <<>>
  /\ entity' = NobodyYet /\ loaded' = NobodyYet /\ dirty' = FALSE
  /\ flushing' = None /\ saving' = None /\ queued' = None

\* The snapshots the cache still has, the older first.
Unsaved ==
  (IF saving = None THEN <<>> ELSE <<saving>>)
    \o (IF queued = None THEN <<>> ELSE <<queued>>)

\* The handler of message m panics.  The actor is restarted and finds
\* Started before the rest of its mailbox; nobody closes the old cache.
Panic(m) ==
  /\ panics < MaxPanics
  /\ panics' = panics + 1
  /\ mailbox # <<>> /\ Head(mailbox) = m /\ m # Started
  /\ flushing = None
  /\ m \in Seqs => ~Seen(m)
  /\ mailbox' = <<Started>> \o Tail(mailbox)
  /\ leaked' = leaked \cup ({Unsaved} \ {<<>>})
  /\ Renewed
  /\ UNCHANGED <<spawned, document, overwritten, answers, sent, crashes>>

\* The process dies.  A graceful stop is no better: the runtime stops the
\* manager and does not wait for the actors to close their caches.
RequestsCrash ==
  /\ crashes < MaxCrashes
  /\ crashes' = crashes + 1
  /\ spawned' = FALSE /\ mailbox' = <<>>
  /\ Renewed
  /\ leaked' = {}
  /\ UNCHANGED <<document, overwritten, answers, sent, panics>>

-----------------------------------------------------------------------------

ActorStep ==
  \/ Start \/ HandlePush
  \/ \E n \in Seqs :
       Refuse(n) \/ NotLoaded(n) \/ Handle(n) \/ HandleSync(n)

WriterStep == TakePending \/ Apply \/ Saved \/ SaveFails

RequestsNext ==
  \/ \E m \in Messages : Forward(m) \/ Panic(m)
  \/ ActorStep \/ Flushed \/ Tick \/ WriterStep
  \/ \E w \in leaked : LeakedSave(w) \/ LeakedSkip(w)
  \/ RequestsCrash

RequestsSpec == RequestsInit /\ [][RequestsNext]_requestVars

\* The scheduler runs the actor while it has messages, and the writer; a
\* database that is asked again and again answers some time.
RequestsFairness ==
  /\ WF_requestVars(ActorStep) /\ WF_requestVars(Flushed)
  /\ WF_requestVars(TakePending) /\ SF_requestVars(Saved)

RequestsFairSpec == RequestsSpec /\ RequestsFairness

-----------------------------------------------------------------------------
(* Properties.                                                             *)

\* The window is all that is left of the numbers taken: the last WindowSize
\* of them, every one once.  A number comes again only when that many others
\* have been taken since.
WindowIsRecent ==
  /\ Len(window) <= WindowSize
  /\ Len(taken) <= WindowSize => window = taken
  /\ \A i, j \in DOMAIN taken :
       i < j /\ taken[i] = taken[j] => j - i > WindowSize

\* A request that the client sends again is carried out once on top of what
\* the actor loaded, until the actor has taken more numbers than the window
\* holds, and one.
AtMostOnce ==
  Len(taken) <= WindowSize + 1 =>
    \A n \in Seqs : entity[n] <= loaded[n] + 1

\* The window tells a request that comes again from a new one, for as long as
\* it can.
ResentIsCaught == WindowIsRecent /\ AtMostOnce

\* Without a panic or a crash, a client that is told that its request is a
\* duplicate, and was never told that the player could not be loaded, may
\* take it that the request has been carried out.
DuplicatesAreDone ==
  panics = 0 /\ crashes = 0 =>
    \A n \in Seqs :
      "duplicate" \in answers[n] /\ "failed" \notin answers[n]
      => entity[n] > 0

\* What a client was told is stored is in the document, whatever panics or
\* crashes, for as long as no writer of an earlier actor saves anything; it
\* is a part of ActorKeepsCells.
SyncedIsKept ==
  ~overwritten =>
    \A n \in Synced : "ok" \in answers[n] => document[n] > 0

\* Message by message the cache is a durable cell: the value is how often the
\* message has been carried out, the promise that a client was told of it.
Told(m) == IF m \in Synced /\ "ok" \in answers[m] THEN 1 ELSE 0

Cell(m) == INSTANCE DurableCell WITH
             value <- Known[m], stored <- document[m], promised <- Told(m)

\* What loads, snapshots, failed saves, flushes, panics and crashes do to the
\* player and its document is what the cell allows: the document moves to
\* what the player has been and never back, nothing is promised that it does
\* not hold, and a player that is loaded again is the document.  That ends
\* when a writer of an earlier actor saves.
ActorKeepsCells ==
  /\ \A m \in Messages : Cell(m)!CellInit
  /\ [][overwritten' \/ \A m \in Messages :
                          [Cell(m)!CellNext]_(Cell(m)!cellVars)]_requestVars

\* Every message is taken out of the mailbox, however often loads and saves
\* fail.
MailboxDrains == mailbox # <<>> ~> mailbox = <<>>
=============================================================================
