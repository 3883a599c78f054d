----------------------------- MODULE WorldMarch -----------------------------
(***************************************************************************)
(* The marches of the world actor: Attack sends an army out of its city,   *)
(* Back turns it round on its way, and the one-second tick finds out which *)
(* marches are over.  An army is kept in three places, the army pool       *)
(* (armies), the march table (marches) and the march index by cell         *)
(* (cellToMarch), and every handler has to keep them together.             *)
(*                                                                         *)
(* The map is abstracted to a line of cells.  A march takes MarchTime      *)
(* units of time; instead of a start and an end time it has an age, so     *)
(* that the clock needs no bound.  Soldiers, generals, reports and pushes  *)
(* to clients are left out: no general fights, because no code ever makes  *)
(* an army the garrison of a cell, so startBattle only hits the walls.     *)
(* Cities are there from the start.  War-free time never applies, because  *)
(* no code sets the time at which a cell was occupied.                     *)
(***************************************************************************)
EXTENDS Naturals

CONSTANTS
  Player,       \* player ids, positive numbers
  Army,         \* the armies
  Owner,        \* the player of each army
  City,         \* the cell of each player's main city
  Alliance,     \* the alliance each player's armies carry, 0 for none
  Width,        \* number of cells
  MarchTime,    \* units of time from the start of a march to its end
  MaxOrders     \* bound: orders the world receives

Cell == 0 .. Width - 1

ASSUME WorldOK ==
  /\ Player \subseteq Nat \ {0}
  /\ Owner \in [Army -> Player]
  /\ City \in [Player -> Cell]
  /\ \A p, q \in Player : City[p] = City[q] => p = q
  /\ Alliance \in [Player -> Nat]
  /\ Width \in Nat \ {0} /\ MarchTime \in Nat \ {0} /\ MaxOrders \in Nat

VARIABLES
  armies,       \* WorldEntity.armies
  marches,      \* WorldEntity.marches
  cellToMarch,  \* WorldEntity.cellToMarch: the armies listed at each cell
  orders        \* orders received so far

worldVars == <<armies, marches, cellToMarch>>
marchVars == <<worldVars, orders>>

\* A march, and the last one of an army that stands still.
Leg == [from : Cell, to : Cell, age : 0 .. MarchTime]

ArmyState ==
  [cmd : {"idle", "attack", "back"}, running : BOOLEAN, leg : Leg]

\* No entry in the map.
None == [none |-> TRUE]

MarchTypeOK ==
  /\ armies \in [Army -> ArmyState \cup {None}]
  /\ marches \in [Army -> Leg \cup {None}]
  /\ cellToMarch \in [Cell -> SUBSET Army]
  /\ orders \in Nat

\* No army is known to the world before its first attack.
MarchInit ==
  /\ armies = [a \in Army |-> None]
  /\ marches = [a \in Army |-> None]
  /\ cellToMarch = [c \in Cell |-> {}]
  /\ orders = 0

-----------------------------------------------------------------------------
(* The helpers of the handlers.                                            *)

NewLeg(from, to) == [from |-> from, to |-> to, age |-> 0]

Marching(cmd, leg) == [cmd |-> cmd, running |-> TRUE, leg |-> leg]

\* Mutation of MarchArmyPos: the way done is added to the whole way.
MarchArmyPosAhead(leg) ==
  (leg.from * MarchTime + leg.to * leg.age) \div MarchTime

\* marchArmyPos: where an army on this leg is now.
MarchArmyPos(leg) ==
  (leg.from * (MarchTime - leg.age) + leg.to * leg.age) \div MarchTime

\* CanAttack, for a cell that belongs to the city of player d.  CreateCity
\* writes the player's id where the cell's alliance belongs.
CanAttack(p, d, alliance) == p # d /\ ~(alliance # 0 /\ alliance = d)

\* A cell somebody lives in, that p may attack under this alliance.
Attackable(p, cell, alliance) ==
  \E d \in Player : City[d] = cell /\ CanAttack(p, d, alliance)

\* Mutation of Dispatched: a march that is in the table already stays.
DispatchedOnce(S, pool, table) ==
  [a \in Army |->
     IF a \in S /\ table[a] = None THEN pool[a].leg ELSE table[a]]

\* dispatchArmyMarch for each army of S: its march is the leg it has in the
\* pool, whatever the table says.
Dispatched(S, pool, table) ==
  [a \in Army |-> IF a \in S THEN pool[a].leg ELSE table[a]]

\* removeMarchFromIndex: an army leaves the list of the cell its march, as
\* the table has it, started from.
Removed(S, index) ==
  [c \in Cell |-> index[c] \ {a \in S : marches[a].from = c}]

\* upsertMarch into the list of the cell the leg in the pool starts from.
Upserted(S, pool, index) ==
  [c \in Cell |-> index[c] \cup {a \in S : pool[a].leg.from = c}]

\* Mutation of Reindexed: the new entries go in first.
ReindexedLate(old, new, pool) ==
  Removed(old, Upserted(new, pool, cellToMarch))

\* The index when the marches of old are over and those of new begin.
Reindexed(old, new, pool) == Upserted(new, pool, Removed(old, cellToMarch))

-----------------------------------------------------------------------------
(* The handlers.                                                           *)

\* Attack sends the army out when the target can be attacked.  It asks about
\* the alliance of the attacker's city, which nothing ever sets, and does
\* not ask whether the army is on a march already.
AttackAccepted(a, target) == Attackable(Owner[a], target, 0)

Attack(a, target) ==
  /\ AttackAccepted(a, target)
  /\ armies' = [armies EXCEPT ![a] =
       Marching("attack", NewLeg(City[Owner[a]], target))]
  /\ marches' = Dispatched({a}, armies', marches)
  /\ cellToMarch' = Reindexed({}, {a}, armies')

\* Back turns an army that marches, where it is now, towards the cell its
\* present march started from.
BackAccepted(a) ==
  armies[a] # None /\ armies[a].running /\ marches[a] # None

BackLeg(a) == NewLeg(MarchArmyPos(armies[a].leg), armies[a].leg.from)

Back(a) ==
  /\ BackAccepted(a)
  /\ armies' = [armies EXCEPT ![a] = Marching("back", BackLeg(a))]
  /\ marches' = Dispatched({a}, armies', marches)
  /\ cellToMarch' = Reindexed({a}, {a}, armies')

\* Mutation of Arrived: one unit of time too early.
ArrivedEarly ==
  {a \in Army : marches[a] # None /\ marches[a].age + 1 >= MarchTime}

\* The marches that are over.
Arrived == {a \in Army : marches[a] # None /\ marches[a].age = MarchTime}

\* handleArrive of an attack that is still allowed, by the alliance that the
\* army carries: the walls are hit and the army turns home.
Turning ==
  {a \in Arrived :
     /\ armies[a].cmd = "attack"
     /\ Attackable(Owner[a], armies[a].leg.to, Alliance[Owner[a]])}

\* Mutation of Landing: an army that came back is not told to stop.
NobodyLands == {}

\* handleArrive of a return.
Landing == {a \in Arrived : armies[a].cmd = "back"}

HomeLeg(a) == NewLeg(armies[a].leg.to, armies[a].leg.from)

\* Mutation of Landed: the state of the army is not changed.
LandedRunning(a) ==
  [cmd |-> "idle", running |-> TRUE,
   leg |-> [armies[a].leg EXCEPT !.to = armies[a].leg.from]]

Landed(a) ==
  [cmd |-> "idle", running |-> FALSE,
   leg |-> [armies[a].leg EXCEPT !.to = armies[a].leg.from]]

\* march: finished marches leave the table and the index, then each army
\* that arrived is handled.  An attack that is refused now stays as it is.
Tick ==
  /\ Arrived # {}
  /\ armies' = [a \in Army |->
       IF a \in Turning THEN Marching("back", HomeLeg(a))
       ELSE IF a \in Landing THEN Landed(a)
       ELSE armies[a]]
  /\ marches' = Dispatched(Turning, armies',
       [a \in Army |-> IF a \in Arrived THEN None ELSE marches[a]])
  /\ cellToMarch' = Reindexed(Arrived, Turning, armies')

\* Mutation of Older: a march is not known to end.
OlderForever(leg) == [leg EXCEPT !.age = @ + 1]

\* Time passes for everything that is on its way; who has arrived stays.
Older(leg) ==
  IF leg.age < MarchTime THEN [leg EXCEPT !.age = @ + 1] ELSE leg

OlderArmies(pool) ==
  [a \in Army |->
     IF pool[a] # None /\ pool[a].running
     THEN [pool[a] EXCEPT !.leg = Older(@)] ELSE pool[a]]

OlderMarches(table) ==
  [a \in Army |-> IF table[a] # None THEN Older(table[a]) ELSE table[a]]

Elapse ==
  /\ \E a \in Army : marches[a] # None /\ marches[a].age < MarchTime
  /\ armies' = OlderArmies(armies)
  /\ marches' = OlderMarches(marches)
  /\ UNCHANGED cellToMarch

\* Players order what they like.  An order that is refused changes nothing.
Order(a) ==
  /\ orders < MaxOrders
  /\ orders' = orders + 1
  /\ (\E target \in Cell : Attack(a, target)) \/ Back(a)

Rest == Tick \/ Elapse

MarchNext ==
  \/ \E a \in Army : Order(a)
  \/ Rest /\ UNCHANGED orders

MarchSpec == MarchInit /\ [][MarchNext]_marchVars

\* The ticker goes on for as long as the actor lives, and time passes.
MarchLiveSpec ==
  MarchSpec /\ WF_marchVars(Tick /\ UNCHANGED orders)
            /\ WF_marchVars(Elapse /\ UNCHANGED orders)

-----------------------------------------------------------------------------
(* Properties.                                                             *)

\* The march table and the army pool agree: what marches is an army that
\* runs, on the same way and for the same time.
MarchesMatchArmies ==
  \A a \in Army : marches[a] # None =>
    /\ armies[a] # None /\ armies[a].running
    /\ armies[a].leg = marches[a]

\* An attack that was refused on arrival: the army still runs, its march is
\* gone, and neither Back nor the tick will ever move it.
Stranded(a) ==
  /\ armies[a] # None /\ armies[a].running /\ marches[a] = None
  /\ armies[a].cmd = "attack"
  /\ ~Attackable(Owner[a], armies[a].leg.to, Alliance[Owner[a]])

\* Every army that runs has its march, unless it is stranded.
RunningArmiesMarch ==
  \A a \in Army : armies[a] # None /\ armies[a].running =>
    marches[a] # None \/ Stranded(a)

\* A scan of the cell where a march started shows the march.
MarchesAreIndexed ==
  \A a \in Army : marches[a] # None => a \in cellToMarch[marches[a].from]

\* The three tables stay together through orders, turns and arrivals that
\* change them one after the other.
TablesAgree == MarchesMatchArmies /\ RunningArmiesMarch /\ MarchesAreIndexed

\* Turning an army round, by order or on arrival, leaves it where it is.
TurningDoesNotMove ==
  [][\A a \in Army :
       /\ marches[a] # None /\ marches'[a] # None
       /\ armies'[a].cmd = "back" /\ marches'[a].age = 0
       => MarchArmyPos(marches'[a]) = MarchArmyPos(marches[a])]_marchVars

\* When orders cease every army comes to rest, or is stranded.
ArmiesComeToRest ==
  <>[](\A a \in Army : armies[a] # None /\ armies[a].running => Stranded(a))
=============================================================================
