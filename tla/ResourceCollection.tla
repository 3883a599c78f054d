------------------------- MODULE ResourceCollection -------------------------
(***************************************************************************)
(* The taxes of a player's city.                                           *)
(*                                                                         *)
(* A player may collect gold Limit times on a day, with Interval between   *)
(* two collections.  The day is that of China Standard Time, whatever the  *)
(* clock of the machine is set to.  Only opening the window of the         *)
(* collection begins a new day: it resets the count, and dates the last    *)
(* collection to midnight.  A collection looks at the count and at the     *)
(* time of the last one, and at no day.                                    *)
(*                                                                         *)
(* The player is stored as a whole, some time after it was changed; the    *)
(* process may crash, and then collections may be forgotten, together with *)
(* their gold.                                                             *)
(***************************************************************************)
EXTENDS Integers, Sequences

CONSTANTS
  Interval,     \* Role.CollectInterval
  Limit,        \* Role.CollectTimesLimit
  Yields,       \* what the facilities may yield in gold
  DayLength,    \* a day
  Offset,       \* what China Standard Time is ahead of UTC
  FirstTime,    \* when the server is started
  MaxTime,      \* bounds of the runs: the clock
  MaxCrashes    \* and the crashes of the process

ASSUME CollectionAssumption ==
  /\ Interval \in Nat /\ Limit \in Nat
  /\ Yields \subseteq Nat
  /\ DayLength \in Nat \ {0} /\ Offset \in 0 .. DayLength - 1
  /\ FirstTime \in Nat /\ FirstTime >= DayLength
  /\ MaxTime \in Nat /\ MaxCrashes \in Nat

VARIABLES
  clock,    \* UTC
  player,   \* the PlayerEntity, as far as it matters here
  stored,   \* its document
  crashes

collectionVars == <<clock, player, stored, crashes>>

\* The attributes collectTimes and lastCollectTime and the gold, with two
\* histories: the times of all collections, and of the latest opening.
Player == [times : Nat, last : Int, gold : Nat, taken : Seq(Nat), opened : Nat]

CollectionTypeOK ==
  /\ clock \in Nat
  /\ player \in Player /\ stored \in Player
  /\ player.times <= Limit /\ stored.times <= Limit
  /\ crashes \in Nat

\* A new player has last collected at the zero time, days ago.
NewPlayer == [times |-> 0, last |-> 0, gold |-> 0, taken |-> <<>>, opened |-> 0]

CollectionInit ==
  /\ clock = FirstTime
  /\ player = NewPlayer /\ stored = NewPlayer
  /\ crashes = 0

-----------------------------------------------------------------------------
(* Days.                                                                   *)

Day(t) == (t + Offset) \div DayLength

IsSameDayCST(t, u) == Day(t) = Day(u)

TodayZeroCST(t) == Day(t) * DayLength - Offset

-----------------------------------------------------------------------------
(* The player actor.                                                       *)

\* Mutation of Opened: the count of an earlier day stays.
OpenedUncounted(p, now) ==
  IF IsSameDayCST(now, p.last) THEN p ELSE [p EXCEPT !.last = TodayZeroCST(now)]

\* What opening the window does to the attributes of player p.
Opened(p, now) ==
  IF IsSameDayCST(now, p.last)
    THEN p
    ELSE [p EXCEPT !.last = TodayZeroCST(now), !.times = 0]

\* OpenCollection.
OpenCollection ==
  /\ player' = [Opened(player, clock) EXCEPT !.opened = clock]
  /\ UNCHANGED <<clock, stored, crashes>>

\* Mutation of Collectable: one collection too many.
CollectableOnceMore(p, now) ==
  /\ p.times <= Limit
  /\ p.times = 0 \/ p.last + Interval <= now

\* Is a collection of player p accepted?
Collectable(p, now) ==
  /\ p.times < Limit
  /\ p.times = 0 \/ p.last + Interval <= now

\* Mutation of Collection: its date is not kept.
CollectionUndated ==
  /\ Collectable(player, clock)
  /\ \E yield \in Yields :
       player' = [player EXCEPT !.times = @ + 1, !.gold = @ + yield,
                                !.taken = Append(@, clock)]
  /\ UNCHANGED <<clock, stored, crashes>>

\* Collection.
Collection ==
  /\ Collectable(player, clock)
  /\ \E yield \in Yields :
       player' = [player EXCEPT !.last = clock, !.times = @ + 1, !.gold = @ + yield,
                                !.taken = Append(@, clock)]
  /\ UNCHANGED <<clock, stored, crashes>>

\* The cache stores the player.
Store ==
  /\ stored' = player
  /\ UNCHANGED <<clock, player, crashes>>

Tick ==
  /\ clock < MaxTime
  /\ clock' = clock + 1
  /\ UNCHANGED <<player, stored, crashes>>

\* The process dies; the next request loads the player again.
Crash ==
  /\ crashes < MaxCrashes
  /\ crashes' = crashes + 1
  /\ player' = stored
  /\ UNCHANGED <<clock, stored>>

CollectionNext == OpenCollection \/ Collection \/ Store \/ Tick \/ Crash

CollectionSpec == CollectionInit /\ [][CollectionNext]_collectionVars

-----------------------------------------------------------------------------
(* Properties.                                                             *)

\* Two collections of one day are Interval apart, and there are no more than
\* Limit of them; that holds of what the player has and of what is stored.
Spaced(p) ==
  \A i, j \in DOMAIN p.taken :
    i < j /\ IsSameDayCST(p.taken[i], p.taken[j]) =>
      p.taken[i] + Interval <= p.taken[j] /\ j - i < Limit

CollectionsAreSpaced == Spaced(player) /\ Spaced(stored)

\* Who has opened the window today and not collected since midnight may
\* collect, however the count stood yesterday.
OpeningReopens ==
  (/\ Limit > 0
   /\ IsSameDayCST(player.opened, clock)
   /\ \A i \in DOMAIN player.taken : ~IsSameDayCST(player.taken[i], clock))
     => Collectable(player, clock)
=============================================================================
