# ThreeKingdoms in TLA+

Models, model-checking runs and machine-checked proofs of the server in `src/`: a strategy game
whose players, worlds and alliances are actors (protoactor-go) in one process, with a gate in front
of them and MongoDB and MySQL behind them. Paths below are relative to `src/`.

- `*.tla` without a prefix or suffix are the models, `MC*.tla` their instances for TLC,
  `*_proofs.tla` the theorems, and `<Module>_<question>.cfg` the runs.
- `PROJECT.json` lists the components, runs, mutations, hazards, findings and theorems, and under
  `map` the lines of source that each definition stands for.
- Run one model with `tlc -config WorldMarch_safety.cfg MCWorldMarch`, check proofs with
  `tlapm ArmyOrders_proofs.tla`.

Contents: 1 the system · 2 the models · 3 runs and bounds · 4 fairness · 5 proofs ·
6 disagreements with the code · 7 what is left out · 8 plan.

## 1. The system

### 1.1 Components

| Component | State | Operations | What makes it correct |
|---|---|---|---|
| Write-behind cache (`internal/{player,world,alliance}/dc`; three copies of one design) | entity with dirty flag; version counter, newest persisted version, newest pending snapshot, closed flag under a mutex; channels `wake`, `stop`, `done`, `persistNotify` | `Tick`, `FlushSync`, `Close`, `WaitPersisted`, the writer goroutine | no edit lost, nothing acknowledged that is not stored, documents move forwards only, nobody sleeps for ever |
| World actor: marches (`world_service.go`) | army pool, march table, march index by cell | `Attack`, `Back`, the one-second `march` tick with arrival, return and landing | the three tables agree; an army that runs gets somewhere |
| World actor: cities | cities by player, cells | `CreateCity`, `SyncCityFacility`, `ScanBlock`, `MyCities` | one city per player; the copy of the facilities follows the player's |
| World actor: battle (`war.go`) | none of its own | rounds between an army and a garrison | unreachable: no code sets a garrison |
| Player actor: orders to armies | the player's view of its armies, with a frozen mark | `AssignArmy`, continuations of the requests to the world, `WHBattleResult`, `WHArmySync` | the view ends up right; an army that fights is frozen, and only while it does |
| Player actor: role, city, facilities, generals | role, resources, facilities, generals, city id | `CreateRole`, `EnterServer`, `UpFacility`, `DrawGeneral`, … | nothing is paid for twice, in vain or for free |
| Player actor: life cycle | Init / Online / LoadFailed, a window of 1024 sequence numbers | `acceptSeq`, lazy load, flush loop, stop | a request is carried out at most once, what is answered as stored is stored |
| Player actor: collection | count and time of the last collection, gold | `OpenCollection`, `Collection` | no more than the limit on a day, and apart; a new day begins |
| Alliance actor and manager | alliance, summaries by version | load, publish, reload | the newest summary is the one that is shown |
| Runtimes, managers, PID registry | children by id | spawn on demand, forward | requests reach a live actor |
| Gate: sessions, connections, pushes | `uid2conn`, `conn2uid`, watched connections, a lock; per connection a channel and two goroutines | `Bind`, `UnbindConn`, `GetConn`, `GetUID`, `Push`, `Close`, `PushWorldBatch` | one connection per user, no entry outlives its connection, nobody blocks for ever |
| Account service | three MySQL tables | `Login`, `Register` | one user per name, the tables tell the logins that took place |
| Snowflake ids | last time, sequence | `NextID` | unique, increasing |
| Entities, repositories, documents | generated setters, dirty flags, traces | setters, snapshots, field-by-field mapping | an edit marks the entity, the trace tells what changed |
| Configuration tables, logging, crypto, routing | constant or none | | |

### 1.2 How they interact

- A client talks to the gate over WebSocket. The gate sends a request to the player process by
  gRPC; the runtime finds (or spawns) the player's actor through the manager and asks it with a
  future.
- A player actor asks the world and alliance actors with `RequestFuture` and a limit of 500 ms. It
  does not wait: it leaves a continuation with `ReenterAfter` and takes other messages. A
  continuation arrives as a system message, before all user messages. If the limit has passed, the
  continuation only sees an error and the answer of the other side, when it comes, is dropped.
- The world actor runs `march` every second and tells player actors about battles and landings with
  plain messages, which are not acknowledged.
- Every actor keeps its entity in memory and flushes it with its own ticker; some handlers call
  `FlushSync` and wait. Documents of different actors are stored at different moments, and no
  transaction spans two of them.
- The world actor pushes positions of marches to clients through the world's push pusher and the
  gate's gRPC push server, which writes into the out-channel of a connection.

### 1.3 What is hard

Two goroutines share every cache, and the writer retries and skips snapshots while the actor makes
new ones. Two mailboxes and a continuation queue between a player and the world deliver out of
order. Requests that time out are carried out all the same. A crash falls between the documents of
two actors. Goroutines of the gate wait on a lock and on bounded channels at once. Integers are cut
to 32 bits. A panic leaves the writer of the old actor behind. A client sends a request again.
`hazards` in `PROJECT.json` names forty such places, each at its line, with the properties that cover
it or the reason why none does.

## 2. The models

```
DurableCell <- WriteBehindRefinement -> WriteBehind <- WriteBehindInductive    WorldMarch <- ArmyOrders
                        \                                  /                                     |
                         +-------- WriteBehind_proofs -----+                              ArmyOrders_proofs

CityFacilities    GateSession    PlayerRequests    EntityTracking    ResourceCollection    Snowflake    AccountLogins
      |                |               |                 |                   |                 \            /
  ..._proofs      ..._proofs      ..._proofs        ..._proofs          ..._proofs            Identities_proofs
```

An arrow points to the module that is extended or instantiated; every model has an `MC` instance.
PlayerRequests has the cache in short, and instantiates `DurableCell` too, to show that its cache keeps
the promise that WriteBehind keeps (`ActorKeepsCells`); CityFacilities and ResourceCollection have it as
a document that is stored some time. EntityTracking is the ground on which WriteBehind stands (an edit
makes the entity dirty), and CityFacilities takes the fresh ids that Snowflake makes.

### 2.1 WriteBehind: the cache

One module for the three copies (`PlayerDC.go`, `WorldDC.go`, `AllianceDC.go`; the map names the
lines of PlayerDC, and for the goroutines that wait, which only the alliance actor starts, those of
`alliance_actor.go`). A step is one critical section,
one channel operation or one database call:

| Code | Actions |
|---|---|
| `Load` | `LoadDocument`, `LoadInitial` |
| a handler that edits | `Edit` |
| `Tick`, first half of `FlushSync` and `Close` (`buildNextSnapshot`, `enqueueLatest`, `signal`) | `BuildNextSnapshot`, `EnqueueLatest`, `Signal` |
| `waitPersisted` of the actor or of a goroutine | `WaitCheck`, `WaitNotified`, `WaitWriterDone`, `WaitCancelled`, `GoroutineEnds` |
| `Close` | `CloseClean`, `StopWriter`, `CloseReturns`, `CloseTimesOut` |
| `writer`, `consumePending`, `popPending`, `markPersisted`, `requeueOnError` | `WriterWakes`, `WriterStops`, `PopPending`, `CheckNewer`, `SaveSucceeds`, `SaveFails`, `MarkPersisted`, `CloseNotify`, `Requeue`, `Rewake`, `ConsumeReturns` |
| the process dies and restarts | `Crash` |

A snapshot holds the whole entity, so its content is the number of the last edit in it; the
document (`store`) is such a number, 0 if there is none. `SaveFails` may or may not have written: a
call that returned an error can have been applied. The wake channel is a flag, because its capacity
is one; the notification channels are numbered generations, because each is closed once and
replaced. `acked` and `lost` are history: what a waiter was told, and whether a failed save was
dropped because the cache is closed.

`DurableCell` is what an actor may expect of any cache: a value that grows, a document that follows
it and never goes back, promises that name only what the document holds, a reload. The mapping in
`WriteBehindRefinement` takes the entity as the value (the document while nothing is loaded),
`store` and `acked`. The property `ImplementsCell` says that every step is a step of the cell or
leaves it alone.

### 2.2 WorldMarch: marches

`Attack`, `Back` and the tick (`Tick`: `march`, `handleArrival`, `startBattle`, the landing) over
`armies`, `marches` and `cellToMarch`. The pool and the table are separate variables, because the
code keeps copies in both and updates them by separate assignments. The map is a line of cells, and
a march has an age between 0 and `MarchTime` where the code has start and end times;
`marchArmyPos` interpolates with the same integer division. The order of index updates
(`Removed`, then `Upserted`) is kept, since an order the other way round loses entries. Battles are
left out because nothing gives a cell a garrison: `startBattle` only hits the walls and sends the
army home. The alliance of a cell is the id of its player, because `CreateCity` writes that.

### 2.3 ArmyOrders: the player and the world

Extends WorldMarch with one player actor per player: its view of its armies, the world's mailbox,
open futures (`waiting`), the continuations and the pushes to the player, and the stored documents.
`AssignAttack` and `AssignBack` check the view and send; `HandleOrder` is the world's `Attack` or
`Back`, accepted or refused, with the answer dropped if the future is gone; `Resume` is the
continuation that takes the answer over and freezes the army; `TickAndPush` is WorldMarch's tick
with the pushes it sends; `ReceivePush` overwrites the view and thaws it. `TimeOut` gives a future
up; `Store` writes one document, `Crash` reloads all of them and empties the mailboxes. Time passes
only while no future is open: one unit is longer than the 500 ms of a request.

### 2.4 CityFacilities: paying for a city

One player and the world: `CreateRole`, `EnterServer` with the answer of `CreateCity`, `UpFacility`
(charge at once, ask the world, store when it has agreed), `DrawGeneral` as a second request that
pays and stores, time-outs, both documents, crash. City ids are numbers above an int32, and an
upgrade names the city by `Int32(id)`, as `HandleUpFacilityRequest` does. What a level costs is a
constant, `Total`, so that a player's worth (resources, generals, levels paid for) is one sum.
`Loaded` keeps that a stored document brings sub-entities back as empty instead of nil, which
decides what `initPlayer` gives. The sum over the levels is the size of a set (`Spent`): the pieces
that each level cost, which differ from facility to facility and from level to level.

### 2.5 GateSession: connections

The session manager's three maps and its lock, per connection the reader, the writer, the channel
`outChan` (its number of messages) and the watchers that `Bind` starts, and the goroutines of the
push server. `Bind` without a kick is one step, for it holds the lock throughout. With a kick it is
`BindAndKick`, which takes the lock, and `Kick`, which waits for room in the old connection's
channel with the lock held. `Push` happens after `GetConn` has given the lock back, so the
connection may be gone.

### 2.6 PlayerRequests: an actor's life and what it takes

The client's messages, the manager that spawns the actor, its mailbox, the load at the start and,
after a failed one, at the next message (`Start`, `NotLoaded`, `LoadFails`), `acceptSeq`
(`TakeNumber`, `Refuse`), handlers that answer at once and handlers that wait in `FlushSync`
(`HandleSync`, `Flushed`), the world's pushes, the flush ticker and the writer (`TakePending`,
`Apply`, `Saved`, `SaveFails`). The player is the number of times each message has been carried out,
which is all that "at most once" needs. A number is taken before the player is loaded, as in the
code. `Panic` is a handler that panics after its number was taken: protoactor restarts the actor
with an empty window and a new cache, the mailbox lives on, and the snapshots of the old cache go to
`leaked`, whose saves (`LeakedSave`) replace the document whenever they like. `RequestsCrash` ends
the process, and with it every writer.

### 2.7 EntityTracking: the generated entities

One entity with a field of each kind that the generator knows: a scalar, a child entity, a slice and
a map, with all their setters (`SetScalar` … `ClearMap`), the child that is edited through a pointer
(`EditChild`), the marks (`dirty`, `trace`, the change logs of slice and map, the dirty keys), and
`Snapshot`. The map of `PROJECT.json` names PlayerEntity's lines; the other generated entities are the
same template. It says what WriteBehind takes for granted: `Dirty` tells whether there is anything
to store.

### 2.8 Snowflake: ids

`NextID` in its three ways (`NextInNewMillisecond`, `NextInSameMillisecond`, `Exhausted` with
`waitNextMillisecond`), a clock that advances, stands or is set back, and restarts, which forget the
generator. `ID` packs time, node and number by the widths of the fields.

### 2.9 ResourceCollection: the taxes of a day

`OpenCollection` and `Collection` over days of China Standard Time. `Collection` looks at the count
and the time of the last one and at no day; only opening the window resets the count. The player is
stored at some time (`Store`) and comes back as it was stored after a `Crash`.

### 2.10 AccountLogins: three tables without a transaction

Each request of `Login` and `Register` is a goroutine that makes one call to MySQL after the other;
a step is one call. A call that fails may have been carried out. The unique indexes of `username` and
`uid` are part of the write that they refuse (`Duplicate`, the second disjunct of `SaveLast`).
`earlier`, a history, says which requests were over when a request began.

## 3. Runs

All runs together take about five minutes. The last one is refuted: it shows a disagreement between
the code and what it says of itself (section 6).

| Run | Module, configuration | States | Shows |
|---|---|---|---|
| `cache_safety` | MCWriteBehind, `WriteBehind_safety` | 327,903 | `NothingLost`, `StoredMeansStored`, `NobodyOversleeps`, `ShutdownComplete`, `ImplementsCell`, and the inductive invariant `IInv` of the proofs, which holds the type invariant; no deadlock |
| `cache_progress` | MCWriteBehind, `WriteBehind_live` | 23,105 | `EditsGetStored`, `CallsReturn`: FlushSync and WaitPersisted if the database recovers, Close whatever it does |
| `march_safety` | MCWorldMarch, `WorldMarch_safety` | 23,152 | `TablesAgree` (pool, table and index), `TurningDoesNotMove`, `ArmiesComeToRest` |
| `orders_safety` | MCArmyOrders, `ArmyOrders_safety` | 123,536 | `FrozenWhileOut`, `ViewsAgree`, `MarchesSurviveCrash`, `FrozenEnds` |
| `city_safety` | MCCityFacilities, `CityFacilities_safety` | 111,764 | `BooksBalance`, `NoWrongCity` |
| `gate_safety` | MCGateSession, `GateSession_safety` | 165,696 | `OpenIsCurrent`, `BindingIsWatched`, `NobodyIsStuck` (kicks, closed connections and pushes, while no channel is full) |
| `requests_safety` | MCPlayerRequests, `PlayerRequests_safety` | 948,352 | `ResentIsCaught` (the window, and at most once), `DuplicatesAreDone`, `ActorKeepsCells` (the durable cell again, which has `SyncedIsKept` in it), `MailboxDrains` |
| `tracking` | MCEntityTracking, `EntityTracking_trace` | 2.6 million | `DirtyIfEdited`, `TraceReplays`; no deadlock |
| `ids` | MCSnowflake, `Snowflake_ids` | 585,336 | `IdsAreFresh`: increasing in one life of a process, different in all |
| `collection` | MCResourceCollection, `ResourceCollection_days` | 2,356,992 | `CollectionsAreSpaced`, `OpeningReopens`; no deadlock |
| `accounts` | MCAccountLogins, `AccountLogins_records` | 2,356,141 | `OneOwner`, `LoginsAreTold` |
| `city_copy` | MCCityFacilities, `CityFacilities_copy` | | refuted: `QuietCitiesAgree` |

Each passing run also checks the module's type invariant. Every property of a passing run has a
mutation in `PROJECT.json`, a small plausible error in one mapped definition that makes TLC refute
exactly that property; the mutated forms stand before the definition they change ("Mutation of …").
A property with several parts has a mutation for most of them.

### Bounds

- **Cache**: `MaxEdits` 3, `MaxCrashes` 1, two goroutines in `WaitPersisted` (symmetric). Three edits
  are needed for a snapshot in the writer's hands, one pending and one about to be queued; a fourth
  replaces the pending one, as the third can already do once the writer has skipped. Two waiters can
  wait for different versions. A crash forgets everything but the document, so a second crash starts
  from the same states. The liveness run has one goroutine and two edits: the thread that starves is
  one, and the actor is a waiter too. Failures of saves are unbounded.
- **Marches**: two armies that attack each other's cities on four cells, so that there are two cells
  on the way to meet, pass and turn round on; with `MarchTime` 3 every cell is a position of a march.
  Six orders: each army can attack, turn back and attack again. One army carries an alliance
  number that is the other player's id, so that its attack is refused on arrival.
- **Orders**: one army, as messages about two armies of a player touch different state and share
  only the rule that continuations come first; three orders, because two overtaking each other with
  a third behind them is the shortest schedule in which a late continuation meets a push of an
  earlier battle. Three cities so that one attack is accepted, and one is refused on arrival.
- **City**: two facilities with two levels, resources for three of four levels or fewer and a
  general, six requests (role, enter, and four that overlap); an int32 of two bits, and one id on
  either side of the sign. One time-out and one crash.
- **Gate**: two connections, the first of which logs in as two users one after the other, while the
  second takes over one of them; channels of two messages, since full, half full and empty behave
  differently; four requests and two pushes, enough to fill a channel whose writer is gone.
- **Requests**: three requests, one of them stored before it is answered, a window of two numbers,
  five messages: enough to fill the window, push the first number out and send it again; a mailbox of
  two, one panic and one crash, in either order. The proofs are for any window.
- **Tracking**: two keys, two values, a slice of up to three elements, three edits between two
  snapshots, and any number of snapshots: put, delete and put again of one key, or two removals after
  one another.
- **Ids**: two ids per millisecond, so that the third has to wait, a clock of four milliseconds that
  is set back once, two restarts.
- **Collection**: two collections a day, two hours apart, on days of six hours that begin two hours
  before the machine's; the clock runs through three midnights; one crash.
- **Accounts**: four requests for two names with two passwords, for instance two racing registrations
  and two logins; two calls that fail, one crash. A third failure would have to hit a request of its
  own.

`CHECK_DEADLOCK FALSE` stands where the system really may stop: all orders, requests, pushes
or ids have been used up. The cache has no such end but `stopped`, which is a step of its own, and its runs do
check for deadlock.

## 4. Fairness

- **Cache** (`LiveSpec`): the Go scheduler runs each goroutine that can run, so weak fairness of each
  thread's steps; the flush ticker makes `Tick` happen again and again; contexts with a deadline
  expire. Nothing is assumed of the database: a save may hang or fail for ever.
  `DatabaseRecovers` (saves return; one that is tried infinitely often succeeds) is the premise of
  those properties that need it, and `CloseTerminates` does without it.
- **Marches** (`MarchLiveSpec`): the one-second ticker that `startFlushLoop` starts ticks while the actor lives, and time
  passes. Players need not order anything; orders are bounded, which stands for "when orders cease".
- **Orders** (`OrdersSpec`): actors work through their mailboxes, the ticker ticks, time passes. No
  fairness for players, for time-outs, for crashes or for the flush loops.
- **Gate** (`GateSpec`): goroutines that can run do; a client takes what is written to it; reading
  from a closed connection fails. A client need not send anything nor leave. `NeverFull` is a premise
  of the liveness properties, and `KickEnds` without it is refuted.
- **Requests** (`RequestsFairSpec`): the actor takes its messages, the writer its snapshots, and a save
  that is tried again and again succeeds some time. No fairness for clients, the ticker, panics,
  crashes or leaked writers.
- **The others** (City, Tracking, Ids, Collection, Accounts): no fairness, only safety is claimed.

## 5. Proofs

7,615 obligations, all checked by TLAPS with Z3, Zenon and LS4. The theorems hold for every value of
the constants that satisfies the module's named assumption (`ConstantsOK`, `WorldOK`,
`RequestsAssumption`, …): any number of goroutines, armies, connections, requests, keys and edits, any
width of the map, of the window and of the fields of an id, and without the bounds of the runs.

**WriteBehind_proofs.** `NothingLost` is not inductive: whether an old snapshot may be dropped depends
on a newer one that somebody else holds. `IInv` (in `WriteBehindInductive`) says how the threads'
control states exclude each other (`Phases`), that snapshots are never ahead of the entity
(`Numbering`), that what is about to be queued is newer than anything on the way (`Enqueuing`), that
pending is newer than what the writer holds, and both at least as new as the document (`Forward`),
and that a version, once given to a waiter, stands for at least its content wherever a snapshot of it
or of a later one is (`Carries`, `Claims`). The last is why an acknowledgement of a later version
may release an earlier waiter. From it follow `TypeCorrect`, `NoEditLost` (`NothingLost`),
`AcknowledgedIsDurable` and `FlushedIsStored`, together `ReportedIsStored` (`StoredMeansStored`),
`NoSleepThrough` (`NobodyOversleeps`), `ShutdownSaves` (`ShutdownComplete`) and `Refinement` (`ImplementsCell`).

**ArmyOrders_proofs**, the march tables. `MarchInv` = types, "a running army is under an attack or a
return", `MarchesMatchArmies`, `RunningArmiesMarch`, `MarchesAreIndexed`. One lemma covers every
dispatch of a single army (Attack and Back), another the tick, which removes and dispatches many at
once. The position of an army needs the bounds of an integer division, proved as lemmas. Theorems:
`MarchInvariance`, `MarchTypeCorrect`, `TableAndPoolAgree`, `OnlyRefusedAttacksStrand` and
`NoMarchIsHidden`, together `TablesStayTogether` (`TablesAgree`), and `TurningInPlace` for the action
property `TurningDoesNotMove`.

**ArmyOrders_proofs**, orders. That a player sees its army right once no mail is left says nothing of
the states on the way, where the mail makes up for what the player does not know yet. `OrdersInv` says
how, in three layers. Always: types, `MarchInv` and the same of the tables in the document
(`StoredTables`), orders wait in the order they were given (`InboxOrdered`), an answer is about an army
that was sent somewhere and a push about one that comes back (`MailSays`). Until a crash: a frozen army
is on its way or a push waits (`FrozenIsOut`), nothing is told of an army that the world does not know
(`UnknownIsQuiet`), and an army at rest is seen where it is, or the newest push says so (`RestIsTold`).
Until a crash or a time-out: the same of an army on the march, with its answers too (`MarchIsTold`),
nothing is told after a homecoming (`HomeIsLast`), an army that could be sent out is at home
(`IdleIsHome`), and an attack is handled before anything becomes of the army that an earlier one sent
out (`AttackIsPrompt`). The lemmas about one army's mail are stated per action; the world's steps reuse
those of the march tables. Theorems: `OrdersInvariance`, `OrdersTypeCorrect` (`OrdersTypeOK`),
`FrozenOnlyWhileOut` (`FrozenWhileOut`), `PlayersSeeTheWorld` (`ViewsAgree`), `TablesSurviveCrash`
(`MarchesSurviveCrash`).

**CityFacilities_proofs.** The worth of a player adds up over the facilities. As the size of `Spent`
it grows by the cost of a level because the pieces of that level are disjoint from all others
(`SpentMore`), which needs no induction over the facilities. `CityInv` says that player and document
are each sound and paid for (`PlayersAreGood`), that before the first crash a player has all that a
new role gets as soon as there are facilities, and nothing before (`NothingIsLost`), that nobody writes
to the world or hears from it before the facilities are there (`MailNeedsFacilities`), and that every
answer on its way names the city that the world keeps (`AnswersNameTheCity`). The proofs assume of the
configuration that there are finitely many facilities, and that level 0 is free. Theorems: `CityInvariance`, `CityTypeCorrect` (`CityTypeOK`),
`BooksAlwaysBalance` (`BooksBalance`), `NeverAWrongCity` (`NoWrongCity`).

**GateSession_proofs.** `OpenIsCurrent` needs to know that nobody binds while a kick holds the lock
(`LockIsKicking`) and that a watched connection has exactly one watcher (`OneWatcher`), since two
watchers of one connection could unbind its successor. Theorems: `GateTypeCorrect`,
`OneConnectionPerUser` (`OpenIsCurrent`), `NoBindingLeaks` (`BindingIsWatched`).

**PlayerRequests_proofs.** The window is the tail of the numbers taken, and two equal numbers in that
history are more than a window apart: with sequences this needs lemmas about what `Append` and a
dropped head leave in place. At most once follows from `DoneIsTaken`: while the window has
forgotten nothing, whatever was carried out since the load is among the numbers taken, once. Theorems:
`RequestsTypesHold`, `WindowHolds` and `OnceHolds`, together `ResentRequestsAreCaught` (`ResentIsCaught`).

What a client was told is a second invariant, `ToldInv`. Without a panic or a crash, a number taken has
been carried out or its client was told "failed" (`TakenIsDone`): `DuplicatesHaveBeenDone`
(`DuplicatesAreDone`). Until a leaked writer saves, an answered request that is stored first is held
by the document and by every snapshot that will replace it (`OkIsHeld`), a flush that waits has its
request in the entity, in the writer's hands or queued (`FlushIsUnderWay`), and an actor that is not
online has no snapshot on the way (`OfflineIsIdle`): `SyncedStaysStored` (`SyncedIsKept`). The named
assumption `NothingAssumption` only says that `None` is no snapshot.

That the actor sees of its cache what `DurableCell` allows is `CellsAreKept` (`ActorKeepsCells`), a
step by step refinement for every message: the value is how often it has been carried out in the
player as known, the document and what a client was told are what they are. It rests on `NeverBack`,
that document, snapshot in the writer's hands, queued snapshot and player are in this order
message by message. Only a leaked writer breaks it, and the property ends where one saves.
`SyncedIsKept` is what the cells say of the promises, so that the run checks it as a part of
`ActorKeepsCells`.

**EntityTracking_proofs.** `DirtyIfEdited` is nearly inductive; it needs that the trace
and the mark of the entity itself agree. `MapTraceReplays` rests on `MapInv`: the log of puts names
dirty keys only, a deleted key is not in the map, and a key that left no trace is where the last
snapshot has it. The log of a slice is replayed by a recursive function. An induction over its length
would need a theorem with an operator parameter; here it is a least counterexample instead
(`LeastNatural`, from the well-founded order of the naturals), which takes a set. With it two runs that
start alike agree (`RunsAgree`), and a log that grows by an edit replays one step further
(`RemoveRunGrows`, `SwapRunGrows`). `SliceInv` carries along that there is such a run, for the removals
and for the swaps; a slice without removals is the last snapshot with what was added and set
(`SetsReplay`). Theorems: `TrackingTypesHold`, `EditsAreMarked`, `MapsReplay` and `SlicesReplay`, together `TracesReplay` (`TraceReplays`).

**Identities_proofs**, the ids of Snowflake. That an id tells its time, node and number is arithmetic
on a packed number, proved as lemmas for any widths. The invariant says that the ids of one life end with
the generator's last time and number (`OwnIds`), and, while the clock is not set back, that the
generator is not ahead of the clock and the ids of earlier lives are behind it (`Forwards`). Theorems:
`GeneratorTypesHold`, `IdsAreIncreasing` and `NoIdTwice`, together `FreshIds` (`IdsAreFresh`).

**ResourceCollection_proofs.** The invariant `Counted` says of the player and of its document that no
collection is later than `last`, that those of the day of `last` have been counted, and that the count
is zero without one. Days are quotients, so that their order is proved from that of times. Theorems:
`CollectionTypesHold`, `CollectionsKeepTheirDistance`, `OpeningBeginsADay`.

**Identities_proofs**, the accounts of AccountLogins, in the same module because both are about names
that are given once. `Underway` says what a request has found so far that is still true: a user
keeps the password, a row stays, a request that was over stays over. `Registered` is the uniqueness
itself, made inductive by the check that the unique index makes. Theorems: `AccountTypesHold`,
`NamesHaveOneOwner`, `LoginsStayRecorded` and `LastStaysRecent`, together `TablesTellLogins`
(`LoginsAreTold`).

**Only model-checked.** Every invariant and every action property of a passing run is stated by one
of these theorems. With TLC stays liveness, because the prover has no ENABLED: `EditsGetStored` and
`CallsReturn` of the cache, `ArmiesComeToRest`, `FrozenEnds`, `NobodyIsStuck`, `MailboxDrains`; and
the disagreement `city_copy`, which is a counterexample.

## 6. Disagreements with the code

The run `city_copy` refutes what the code says of itself: the 63-bit city id is cut to an int32, so the
world never finds the city, and every upgrade is paid for, reported as failed, and missing in the
world's copy.

What follows was met while modelling. The models do what the code does, and the properties name the
exception instead of claiming too much.

| Code | What it does | The property that names it |
|---|---|---|
| `world_service.go:265` | `Attack` sends an army that already marches out again without removing its old entry from `cellToMarch`, so that a scan shows a march that is not there; the comment in `Back` (317) says the old entry goes first. | `TablesAgree` claims that marches are listed, not that nothing else is |
| `world_service.go:319` | `Back` takes the start of the present march for home. A second `Back`, or one on the way home from a battle, sends the army away from its city, where it stops. | `ArmiesComeToRest` claims rest, not home |
| `world_service.go:233` | `Attack` compares the alliance of the attacker's city, which nothing sets; the attack on an ally starts, is refused on arrival by the army's alliance, and the army is stranded: running, without a march, for ever. | `TablesAgree` and `ArmiesComeToRest` allow the `Stranded` army and nothing else |
| `player_service.go:321` | After a time-out the world attacks all the same, while the army is idle and not frozen at the player. | `FrozenWhileOut` assumes answers in time |
| `SessionManager.go:49` | `Bind` pushes `robLogin` with the manager's lock held; if the old connection's channel is full and its writer gone, the lock is never released. | `NobodyIsStuck` assumes that no channel gets full |
| `player_actor.go:105` | A number is taken before the player is loaded: a client that is told "load player failed" and sends again is told that its request is a duplicate, and it is never carried out. | `DuplicatesAreDone` leaves out who was told "failed" |
| `world_actor.go:67`, `player_actor.go:88` | A panic leaves the writer of the old cache running; its save takes back what the new actor has reported as stored. | `SyncedIsKept` holds until a leaked writer saves |
| `player_entity_gen.go:122` | The logs of a slice do not tell the order of removals, additions and settings among each other. Nothing reads them yet: documents are stored whole. | `TraceReplays` is about slices with one kind of edits |
| `snowflake.go:78` | The node is 1 unless `SNOWFLAKE_NODE_ID` says otherwise: two processes without it may make the same id. | the assumption that nodes differ |
| `user_service.go:75` | Of two logins at the same time the later may leave the earlier one's time and session in the row. | `LoginsAreTold` claims that the row is not that of a login that was over before |

Also: `ScanBlock` writes to a nil map; `IsCanOutWar` asks for `Generals[0] == 0`; `Dispose` has one
negation too many and its general ids are cut to 32 bits, so that it never finds a general; `Conscript`
spends resources on a local copy of the army; no code path stores a new army; a collection does not
look at the day, so that a player who never opens the window is refused from the limit on; `Login`
does not look at the status of a user; `AssignArmy` and `UpFacility` are handled by the player actor
but not routed by the gate. The models take the player actor's messages as its interface, whoever
sends them.

## 7. What is left out

- **Abstractions inside the models.** Message contents that nothing here distinguishes, reports,
  positions in two dimensions, kinds of resources, tokens, password digests. Mailboxes are FIFO per
  pair of actors and unbounded, as protoactor's are. The actor that owns a cache does nothing while
  `FlushSync` waits; in ArmyOrders, CityFacilities and ResourceCollection the cache appears as a
  document that is sometimes stored, which is what `DurableCell` allows.
- **The limit of restarts.** protoactor's default supervision stops an actor that panics too often in
  a short time; PlayerRequests restarts it each time.
- **A graceful stop.** `Runtime.Shutdown` sends a stop and does not wait. `Close` itself is in
  WriteBehind; the rest is no better than a crash, which the models have.
- **A clock set back** in ResourceCollection, where a day would be lived twice.
- **Unreachable code.** Battles (no cell has a garrison), `Defend`, `Reclamation`, `Transfer` (empty),
  `UnbindUID`, `HandleResourceRecovery` (no caller), armies of the player (`Dispose`, `Conscript`: no
  code path stores an army). A model of them would have states that the program never has.
- **Without properties to check.** Alliances: no handler edits one, only summaries of version 0 are
  ever published. Managers of worlds and alliances: a child that stops itself is never spawned again.
  `Transform` takes the amounts of both resources from its request, so that there is nothing to balance.
- **Not to be modelled.** Configuration loading, logging, cryptography, HTTP and WebSocket encoding,
  generated protobuf code, the entity generator: no state, or input and output only.

The map covers the code that decides and changes state. Most of the repository's lines are generated:
protobuf messages, and some thirty entities that repeat one template, of which the map names each
operation once.

## 8. Plan

Done: WriteBehind with its abstract cell, WorldMarch, ArmyOrders over WorldMarch, CityFacilities,
GateSession, PlayerRequests, EntityTracking, Snowflake, ResourceCollection and AccountLogins, each
with proofs of all its safety properties.

Next proofs: the safety halves of the liveness properties, that a state in which somebody waits has a
step that brings the wait nearer to its end (for `MailboxDrains` and `NobodyIsStuck` a measure that
no other step raises); and abstract specifications for the requests and for the accounts, as the cell
is for the cache.

Next models, should the code grow into them: alliances once a handler edits one (versions that start
again from 0), armies of a player once one is stored, battles once a garrison is set.
