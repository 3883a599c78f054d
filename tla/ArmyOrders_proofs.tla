------------------------- MODULE ArmyOrders_proofs -------------------------
(***************************************************************************)
(* Proofs about WorldMarch and about ArmyOrders, which extends it, for any *)
(* players, armies, cities, alliances and map.                             *)
(*                                                                         *)
(* The first part is about the world alone: the pool, the table and the    *)
(* index of marches stay together, and an army that turns round does not   *)
(* move.  The second part is about the players and their orders: what the  *)
(* mailboxes still hold makes up for what a player does not know yet.      *)
(***************************************************************************)
EXTENDS ArmyOrders, TLAPS, SequenceTheorems

-----------------------------------------------------------------------------
(* The position of an army on its way.                                     *)

LEMMA LegPosition ==
  ASSUME NEW leg \in Leg
  PROVE  MarchArmyPos(leg) \in Cell
<1> DEFINE T == MarchTime  f == leg.from  t == leg.to  g == leg.age
           W == Width - 1  X == f * (T - g) + t * g
<1>1. /\ T \in Nat \ {0} /\ W \in Nat /\ f \in 0 .. W /\ t \in 0 .. W
      /\ g \in 0 .. T
  BY WorldOK DEF Leg, Cell
<1>2. /\ f * (T - g) \in Nat /\ f * (T - g) <= W * (T - g)
      /\ t * g \in Nat /\ t * g <= W * g
  <2> HIDE DEF T, f, t, g, W
  <2> QED BY <1>1
<1>3. W * (T - g) + W * g = W * T
  <2> HIDE DEF T, f, t, g, W
  <2> QED BY <1>1
<1>4. X \in Nat /\ X <= W * T
  <2> HIDE DEF T, f, t, g, W
  <2> QED BY <1>1, <1>2, <1>3
<1>5. X \div T \in 0 .. W
  <2> HIDE DEF T, f, t, g, W, X
  <2> QED BY <1>1, <1>4
<1> QED BY <1>5 DEF MarchArmyPos, Cell

\* An army that has just left is where it left.
LEMMA LegStart ==
  ASSUME NEW p \in Cell, NEW q \in Cell
  PROVE  MarchArmyPos(NewLeg(p, q)) = p
<1>1. p \in Nat /\ q \in Nat /\ MarchTime \in Nat \ {0}
  BY WorldOK DEF Cell
<1>2. (p * (MarchTime - 0) + q * 0) \div MarchTime = p
  BY <1>1
<1> QED BY <1>2 DEF MarchArmyPos, NewLeg

\* An army whose time is over is where it was to go.
LEMMA LegEnd ==
  ASSUME NEW leg \in Leg, leg.age = MarchTime
  PROVE  MarchArmyPos(leg) = leg.to
<1> DEFINE f == leg.from  t == leg.to
<1>1. f \in Nat /\ t \in Nat /\ MarchTime \in Nat \ {0}
  BY WorldOK DEF Cell, Leg
<1>2. (f * (MarchTime - MarchTime) + t * MarchTime) \div MarchTime = t
  <2> HIDE DEF f, t
  <2> QED BY <1>1
<1> QED BY <1>2 DEF MarchArmyPos

-----------------------------------------------------------------------------
(* The invariant.                                                          *)

\* An army runs exactly when it is under an order.
RunningUnderOrder ==
  \A a \in Army : armies[a] # None =>
    (armies[a].running <=> armies[a].cmd # "idle")

MarchInv ==
  /\ MarchTypeOK
  /\ RunningUnderOrder
  /\ MarchesMatchArmies
  /\ RunningArmiesMarch
  /\ MarchesAreIndexed

\* What a march or an army is, it is not the missing entry.
LEMMA NoneIsNothing ==
  /\ None \notin Leg
  /\ None \notin ArmyState
  BY DEF None, Leg, ArmyState

\* The march times of a new leg.
LEMMA NewLegType ==
  ASSUME NEW p \in Cell, NEW q \in Cell
  PROVE  /\ NewLeg(p, q) \in Leg
         /\ NewLeg(p, q).from = p /\ NewLeg(p, q).to = q
         /\ NewLeg(p, q).age = 0
  BY WorldOK DEF NewLeg, Leg

\* The leg on which Attack sends an army.
LEMMA AttackLegType ==
  ASSUME NEW a \in Army, NEW target \in Cell
  PROVE  NewLeg(City[Owner[a]], target) \in Leg
  BY WorldOK, NewLegType

\* The leg on which Back sends an army.
LEMMA BackLegType ==
  ASSUME MarchTypeOK, NEW a \in Army, armies[a] # None
  PROVE  BackLeg(a) \in Leg
<1>1. armies[a].leg \in Leg
  BY DEF MarchTypeOK, ArmyState
<1>2. armies[a].leg.from \in Cell
  BY <1>1 DEF Leg
<1> QED BY <1>1, <1>2, LegPosition, NewLegType DEF BackLeg

\* The leg on which an army goes home after the battle.
LEMMA HomeLegType ==
  ASSUME MarchTypeOK, NEW a \in Army, armies[a] # None
  PROVE  HomeLeg(a) \in Leg
<1>1. armies[a].leg \in Leg
  BY DEF MarchTypeOK, ArmyState
<1> QED BY <1>1, NewLegType DEF HomeLeg, Leg

\* A leg that gets older starts and ends where it did.
LEMMA OlderType ==
  ASSUME NEW leg \in Leg
  PROVE  /\ Older(leg) \in Leg
         /\ Older(leg).from = leg.from /\ Older(leg).to = leg.to
         /\ Older(leg).age # 0
  BY WorldOK DEF Older, Leg

\* What an army on a march looks like.
LEMMA MarchingType ==
  ASSUME NEW cmd \in {"attack", "back"}, NEW leg \in Leg
  PROVE  /\ Marching(cmd, leg) \in ArmyState
         /\ Marching(cmd, leg) # None
         /\ Marching(cmd, leg).running
         /\ Marching(cmd, leg).cmd = cmd
         /\ Marching(cmd, leg).leg = leg
<1>1. Marching(cmd, leg) \in ArmyState
  BY DEF Marching, ArmyState
<1>2. Marching(cmd, leg) # None
  BY <1>1, NoneIsNothing
<1>3. Marching(cmd, leg).running
  BY DEF Marching
<1>4. Marching(cmd, leg).cmd = cmd /\ Marching(cmd, leg).leg = leg
  BY DEF Marching
<1> QED BY <1>1, <1>2, <1>3, <1>4

\* One army, a, starts a leg under an order and is put into the table and
\* the index; the marches of old leave the index first.
LEMMA StartKeeps ==
  ASSUME MarchInv, NEW a \in Army, NEW leg \in Leg,
         NEW cmd \in {"attack", "back"}, NEW old \in SUBSET {a},
         armies' = [armies EXCEPT ![a] = Marching(cmd, leg)],
         marches' = Dispatched({a}, armies', marches),
         cellToMarch' = Reindexed(old, {a}, armies'),
         orders' \in Nat
  PROVE  MarchInv'
<1>1. /\ armies'[a] = Marching(cmd, leg)
      /\ marches'[a] = leg
      /\ \A b \in Army \ {a} :
           armies'[b] = armies[b] /\ marches'[b] = marches[b]
  BY MarchingType DEF MarchInv, MarchTypeOK, Dispatched
<1>2. MarchTypeOK'
  <2>1. armies' \in [Army -> ArmyState \cup {None}]
    BY MarchingType DEF MarchInv, MarchTypeOK
  <2>2. marches' \in [Army -> Leg \cup {None}]
    BY <1>1 DEF MarchInv, MarchTypeOK, Dispatched
  <2>3. cellToMarch' \in [Cell -> SUBSET Army]
    BY DEF MarchInv, MarchTypeOK, Reindexed, Upserted, Removed
  <2> QED BY <2>1, <2>2, <2>3 DEF MarchTypeOK
<1>3. RunningUnderOrder'
  BY <1>1, MarchingType DEF MarchInv, RunningUnderOrder
<1>4. MarchesMatchArmies'
  <2>1. armies'[a] # None /\ armies'[a].running /\ armies'[a].leg = leg
    BY <1>1, MarchingType
  <2> QED BY <1>1, <2>1 DEF MarchInv, MarchesMatchArmies
<1>5. RunningArmiesMarch'
  <2>1. marches'[a] # None
    BY <1>1, NoneIsNothing
  <2>2. ASSUME NEW b \in Army \ {a}, Stranded(b)
        PROVE  Stranded(b)'
    BY <1>1, <2>2 DEF Stranded
  <2> QED BY <1>1, <2>1, <2>2 DEF MarchInv, RunningArmiesMarch
<1>6. MarchesAreIndexed'
  <2>1. a \in cellToMarch'[leg.from]
    BY <1>1, MarchingType DEF Reindexed, Upserted, Leg
  <2>2. ASSUME NEW b \in Army \ {a}, marches[b] # None
        PROVE  b \in cellToMarch'[marches[b].from]
    <3>1. marches[b].from \in Cell /\ b \in cellToMarch[marches[b].from]
      BY <2>2 DEF MarchInv, MarchTypeOK, MarchesAreIndexed, Leg
    <3> QED BY <3>1 DEF Reindexed, Upserted, Removed
  <2> QED BY <1>1, <2>1, <2>2 DEF MarchesAreIndexed
<1> QED BY <1>2, <1>3, <1>4, <1>5, <1>6 DEF MarchInv

\* An attack keeps the invariant.
LEMMA AttackKeeps ==
  ASSUME MarchInv, NEW a \in Army, NEW target \in Cell, Attack(a, target),
         orders' \in Nat
  PROVE  MarchInv'
<1> DEFINE leg == NewLeg(City[Owner[a]], target)
<1>1. leg \in Leg
  BY AttackLegType
<1>2. /\ armies' = [armies EXCEPT ![a] = Marching("attack", leg)]
      /\ marches' = Dispatched({a}, armies', marches)
      /\ cellToMarch' = Reindexed({}, {a}, armies')
  BY DEF Attack
<1>3. {} \in SUBSET {a}
  OBVIOUS
<1> HIDE DEF leg
<1> QED BY <1>1, <1>2, <1>3, StartKeeps

\* And so does a return.
LEMMA BackKeeps ==
  ASSUME MarchInv, NEW a \in Army, Back(a), orders' \in Nat
  PROVE  MarchInv'
<1>1. BackLeg(a) \in Leg
  BY BackLegType DEF Back, BackAccepted, MarchInv
<1> QED BY <1>1, StartKeeps DEF Back

\* The tables pool, table and index, as MarchInv has them.
TablesInv(pool, table, index) ==
  /\ pool \in [Army -> ArmyState \cup {None}]
  /\ table \in [Army -> Leg \cup {None}]
  /\ index \in [Cell -> SUBSET Army]
  /\ \A a \in Army :
       /\ pool[a] # None => (pool[a].running <=> pool[a].cmd # "idle")
       /\ table[a] # None =>
            /\ pool[a] # None /\ pool[a].running
            /\ pool[a].leg = table[a]
            /\ a \in index[table[a].from]
       /\ pool[a] # None /\ pool[a].running =>
            \/ table[a] # None
            \/ /\ pool[a].cmd = "attack"
               /\ ~Attackable(Owner[a], pool[a].leg.to, Alliance[Owner[a]])

LEMMA MarchInvIsTablesInv ==
  MarchInv <=> TablesInv(armies, marches, cellToMarch) /\ orders \in Nat
BY DEF MarchInv, MarchTypeOK, RunningUnderOrder, MarchesMatchArmies,
       RunningArmiesMarch, Stranded, MarchesAreIndexed, TablesInv

\* What one unit of time makes of one army.
LEMMA OlderArmy ==
  ASSUME NEW pool, NEW table, NEW index, TablesInv(pool, table, index),
         NEW a \in Army
  PROVE  /\ (OlderArmies(pool)[a] = None) <=> (pool[a] = None)
         /\ pool[a] # None =>
              /\ OlderArmies(pool)[a] \in ArmyState
              /\ OlderArmies(pool)[a].cmd = pool[a].cmd
              /\ OlderArmies(pool)[a].running = pool[a].running
              /\ OlderArmies(pool)[a].leg.to = pool[a].leg.to
              /\ pool[a].running =>
                   OlderArmies(pool)[a].leg = Older(pool[a].leg)
         /\ pool[a] # None /\ ~pool[a].running =>
              OlderArmies(pool)[a] = pool[a]
<1>1. CASE pool[a] # None /\ pool[a].running
  <2>1. pool[a].leg \in Leg /\ pool[a] \in ArmyState
    BY <1>1 DEF TablesInv, ArmyState
  <2>2. OlderArmies(pool)[a] = [pool[a] EXCEPT !.leg = Older(pool[a].leg)]
    BY <1>1 DEF OlderArmies
  <2>3. OlderArmies(pool)[a] \in ArmyState
    BY <2>1, <2>2, OlderType DEF ArmyState
  <2>4. OlderArmies(pool)[a] # None
    BY <2>3, NoneIsNothing
  <2> QED BY <1>1, <2>1, <2>2, <2>3, <2>4, OlderType DEF ArmyState
<1>2. CASE ~(pool[a] # None /\ pool[a].running)
  <2>1. OlderArmies(pool)[a] = pool[a]
    BY <1>2 DEF OlderArmies
  <2> QED BY <1>2, <2>1 DEF TablesInv
<1> QED BY <1>1, <1>2

\* One unit of time keeps any tables together.
LEMMA OlderKeeps ==
  ASSUME NEW pool, NEW table, NEW index, TablesInv(pool, table, index)
  PROVE  TablesInv(OlderArmies(pool), OlderMarches(table), index)
<1>1. ASSUME NEW a \in Army
      PROVE  /\ table[a] = None => OlderMarches(table)[a] = None
             /\ table[a] # None =>
                  /\ table[a] \in Leg /\ OlderMarches(table)[a] \in Leg
                  /\ OlderMarches(table)[a] = Older(table[a])
                  /\ OlderMarches(table)[a].from = table[a].from
  BY OlderType DEF OlderMarches, TablesInv
<1>2. OlderArmies(pool) \in [Army -> ArmyState \cup {None}]
  <2>1. \A a \in Army : OlderArmies(pool)[a] \in ArmyState \cup {None}
    BY OlderArmy
  <2>2. OlderArmies(pool) = [a \in Army |-> OlderArmies(pool)[a]]
    BY DEF OlderArmies
  <2> QED BY <2>1, <2>2
<1>3. OlderMarches(table) \in [Army -> Leg \cup {None}]
  <2>1. \A a \in Army : OlderMarches(table)[a] \in Leg \cup {None}
    BY <1>1
  <2>2. OlderMarches(table) = [a \in Army |-> OlderMarches(table)[a]]
    BY DEF OlderMarches
  <2> QED BY <2>1, <2>2
<1>4. index \in [Cell -> SUBSET Army]
  BY DEF TablesInv
<1>5. ASSUME NEW a \in Army
      PROVE  LET army == OlderArmies(pool)[a]
                 march == OlderMarches(table)[a]
             IN /\ army # None => (army.running <=> army.cmd # "idle")
                /\ march # None => /\ army # None /\ army.running
                                   /\ army.leg = march
                                   /\ a \in index[march.from]
                /\ army # None /\ army.running =>
                     \/ march # None
                     \/ /\ army.cmd = "attack"
                        /\ ~Attackable(Owner[a], army.leg.to,
                                       Alliance[Owner[a]])
  <2>1. CASE table[a] # None
    BY <1>1, <2>1, OlderArmy, NoneIsNothing DEF TablesInv
  <2>2. CASE table[a] = None
    BY <1>1, <2>2, OlderArmy DEF TablesInv
  <2> QED BY <2>1, <2>2
<1> HIDE DEF TablesInv
<1> QED BY <1>2, <1>3, <1>4, <1>5 DEF TablesInv

LEMMA ElapseKeeps ==
  ASSUME MarchInv, Elapse, orders' \in Nat
  PROVE  MarchInv'
<1>1. TablesInv(armies', marches', cellToMarch')
  BY MarchInvIsTablesInv, OlderKeeps DEF Elapse
<1> QED BY <1>1
        DEF MarchInv, MarchTypeOK, RunningUnderOrder, MarchesMatchArmies,
            RunningArmiesMarch, Stranded, MarchesAreIndexed, TablesInv

\* What the tick does to one army.
LEMMA TickArmy ==
  ASSUME MarchInv, Tick, NEW a \in Army
  PROVE  /\ a \in Turning =>
              /\ armies[a] # None
              /\ armies'[a] = Marching("back", HomeLeg(a))
              /\ HomeLeg(a) \in Leg
              /\ marches'[a] = HomeLeg(a)
         /\ a \in Landing =>
              /\ armies'[a] = Landed(a)
              /\ armies[a] # None
              /\ marches'[a] = None
         /\ a \notin Turning \cup Landing => armies'[a] = armies[a]
         /\ a \in Arrived /\ a \notin Turning => marches'[a] = None
         /\ a \notin Arrived => marches'[a] = marches[a]
<1>1. a \in Arrived => armies[a] # None
  BY DEF MarchInv, MarchesMatchArmies, Arrived
<1>2. Turning \cap Landing = {} /\ Turning \subseteq Arrived
      /\ Landing \subseteq Arrived
  BY DEF Turning, Landing
<1>3. a \in Turning => armies'[a] = Marching("back", HomeLeg(a))
  BY DEF Tick
<1>4. a \in Turning => HomeLeg(a) \in Leg
  BY <1>1, <1>2, HomeLegType DEF MarchInv
<1>5. a \in Turning => marches'[a] = HomeLeg(a)
  BY <1>3 DEF Tick, Dispatched, Marching
<1>6. a \in Landing => armies'[a] = Landed(a)
  BY <1>2 DEF Tick
<1>7. a \notin Turning \cup Landing => armies'[a] = armies[a]
  BY DEF Tick
<1>8. a \notin Turning =>
        marches'[a] = IF a \in Arrived THEN None ELSE marches[a]
  BY DEF Tick, Dispatched
<1> QED BY <1>1, <1>2, <1>3, <1>4, <1>5, <1>6, <1>7, <1>8

\* The tick keeps the invariant.
LEMMA TickKeeps ==
  ASSUME MarchInv, Tick, orders' \in Nat
  PROVE  MarchInv'
<1>1. ASSUME NEW a \in Army, a \in Turning
      PROVE  /\ armies'[a] \in ArmyState /\ armies'[a] # None
             /\ armies'[a].running /\ armies'[a].cmd = "back"
             /\ armies'[a].leg = marches'[a]
             /\ marches'[a] \in Leg /\ marches'[a] # None
  <2>1. /\ armies'[a] = Marching("back", HomeLeg(a))
        /\ HomeLeg(a) \in Leg /\ marches'[a] = HomeLeg(a)
    BY <1>1, TickArmy
  <2> QED BY <2>1, MarchingType, NoneIsNothing
<1>2. ASSUME NEW a \in Army, a \in Landing
      PROVE  /\ armies'[a] \in ArmyState /\ armies'[a] # None
             /\ ~armies'[a].running /\ armies'[a].cmd = "idle"
             /\ marches'[a] = None
  <2>1. armies[a] \in ArmyState /\ armies[a].leg \in Leg
    BY <1>2, TickArmy DEF MarchInv, MarchTypeOK, ArmyState
  <2>2. /\ armies'[a] = [cmd |-> "idle", running |-> FALSE,
               leg |-> [armies[a].leg EXCEPT !.to = armies[a].leg.from]]
        /\ marches'[a] = None
    BY <1>2, TickArmy DEF Landed, Landing, Turning
  <2>3. [armies[a].leg EXCEPT !.to = armies[a].leg.from] \in Leg
    BY <2>1 DEF Leg
  <2>4. armies'[a] \in ArmyState
    BY <2>2, <2>3 DEF ArmyState
  <2>5. ~armies'[a].running
    BY <2>2
  <2>6. armies'[a] # None
    BY <2>4, NoneIsNothing
  <2> QED BY <2>2, <2>4, <2>5, <2>6
<1>3. ASSUME NEW a \in Army, a \notin Turning, a \notin Landing
      PROVE  /\ armies'[a] = armies[a]
             /\ \/ marches'[a] = marches[a]
                \/ marches'[a] = None /\ Stranded(a)'
  <2>1. CASE a \in Arrived
    <3>1. /\ armies'[a] = armies[a] /\ marches'[a] = None
          /\ marches[a] # None
      BY <1>3, <2>1, TickArmy DEF Arrived
    <3>2. /\ armies[a] # None /\ armies[a].running
          /\ armies[a] \in ArmyState
      BY <3>1 DEF MarchInv, MarchTypeOK, MarchesMatchArmies
    <3>3. armies[a].cmd = "attack"
      BY <1>3, <2>1, <3>2
         DEF MarchInv, RunningUnderOrder, ArmyState, Landing
    <3>4. ~Attackable(Owner[a], armies[a].leg.to, Alliance[Owner[a]])
      BY <1>3, <2>1, <3>3 DEF Turning
    <3> QED BY <3>1, <3>2, <3>3, <3>4 DEF Stranded
  <2>2. CASE a \notin Arrived
    BY <1>3, <2>2, TickArmy
  <2> QED BY <2>1, <2>2
<1>4. MarchTypeOK'
  <2>1. armies' \in [Army -> ArmyState \cup {None}]
    <3>1. armies' = [a \in Army |-> armies'[a]]
      BY DEF Tick
    <3>2. \A a \in Army : armies'[a] \in ArmyState \cup {None}
      BY <1>1, <1>2, <1>3 DEF MarchInv, MarchTypeOK
    <3> QED BY <3>1, <3>2
  <2>2. marches' \in [Army -> Leg \cup {None}]
    <3>1. marches' = [a \in Army |-> marches'[a]]
      BY DEF Tick, Dispatched
    <3>2. \A a \in Army : marches'[a] \in Leg \cup {None}
      BY <1>1, <1>2, <1>3 DEF MarchInv, MarchTypeOK
    <3> QED BY <3>1, <3>2
  <2>3. cellToMarch' \in [Cell -> SUBSET Army]
    BY DEF Tick, Reindexed, Upserted, Removed, MarchInv, MarchTypeOK,
           Turning, Arrived
  <2> QED BY <2>1, <2>2, <2>3 DEF MarchTypeOK
<1>5. RunningUnderOrder'
  <2>1. ASSUME NEW a \in Army, armies'[a] # None
        PROVE  armies'[a].running <=> armies'[a].cmd # "idle"
    BY <1>1, <1>2, <1>3, <2>1 DEF MarchInv, RunningUnderOrder
  <2> QED BY <2>1 DEF RunningUnderOrder
<1>6. MarchesMatchArmies'
  <2>1. ASSUME NEW a \in Army, marches'[a] # None
        PROVE  /\ armies'[a] # None /\ armies'[a].running
               /\ armies'[a].leg = marches'[a]
    BY <1>1, <1>2, <1>3, <2>1 DEF MarchInv, MarchesMatchArmies
  <2> QED BY <2>1 DEF MarchesMatchArmies
<1>7. RunningArmiesMarch'
  <2>1. ASSUME NEW a \in Army, armies'[a] # None, armies'[a].running
        PROVE  marches'[a] # None \/ Stranded(a)'
    <3>1. CASE a \in Turning
      BY <1>1, <3>1
    <3>2. CASE a \notin Turning
      <4>1. a \notin Landing
        BY <1>2, <2>1
      <4>2. CASE marches'[a] = marches[a]
        <5>1. marches[a] # None \/ Stranded(a)
          BY <1>3, <2>1, <3>2, <4>1 DEF MarchInv, RunningArmiesMarch
        <5>2. Stranded(a) => Stranded(a)'
          BY <1>3, <3>2, <4>1, <4>2 DEF Stranded
        <5> QED BY <4>2, <5>1, <5>2
      <4> QED BY <1>3, <3>2, <4>1, <4>2
    <3> QED BY <3>1, <3>2
  <2> QED BY <2>1 DEF RunningArmiesMarch
<1>8. MarchesAreIndexed'
  <2>1. ASSUME NEW a \in Army, marches'[a] # None
        PROVE  a \in cellToMarch'[marches'[a].from]
    <3>1. CASE a \in Turning
      <4>1. marches'[a].from \in Cell
        BY <1>1, <3>1 DEF Leg
      <4> QED BY <1>1, <3>1, <4>1 DEF Tick, Reindexed, Upserted
    <3>2. CASE a \notin Turning
      <4>1. marches'[a] = marches[a]
        BY <1>2, <1>3, <2>1, <3>2
      <4>2. a \notin Arrived
        BY <2>1, <3>2, TickArmy
      <4>3. marches[a].from \in Cell /\ a \in cellToMarch[marches[a].from]
        BY <2>1, <4>1 DEF MarchInv, MarchTypeOK, MarchesAreIndexed, Leg
      <4> QED BY <4>1, <4>2, <4>3
              DEF Tick, Reindexed, Upserted, Removed
    <3> QED BY <3>1, <3>2
  <2> QED BY <2>1 DEF MarchesAreIndexed
<1> QED BY <1>4, <1>5, <1>6, <1>7, <1>8 DEF MarchInv

\* The invariant is inductive.
LEMMA MarchInvStep ==
  ASSUME MarchInv, [MarchNext]_marchVars
  PROVE  MarchInv'
<1>1. ASSUME NEW a \in Army, Order(a)
      PROVE  MarchInv'
  <2>1. orders' \in Nat
    BY <1>1 DEF MarchInv, MarchTypeOK, Order
  <2> QED BY <1>1, <2>1, AttackKeeps, BackKeeps DEF Order
<1>2. ASSUME Rest, UNCHANGED orders
      PROVE  MarchInv'
  BY <1>2, TickKeeps, ElapseKeeps DEF Rest, MarchInv, MarchTypeOK
<1>3. CASE UNCHANGED marchVars
  BY <1>3 DEF marchVars, worldVars, MarchInv, MarchTypeOK,
     RunningUnderOrder, MarchesMatchArmies, RunningArmiesMarch, Stranded,
     MarchesAreIndexed
<1> QED BY <1>1, <1>2, <1>3 DEF MarchNext

LEMMA MarchInvInit ==
  MarchInit => MarchInv
  BY WorldOK DEF MarchInit, MarchInv, MarchTypeOK, RunningUnderOrder,
     MarchesMatchArmies, RunningArmiesMarch, MarchesAreIndexed

\* The invariant holds of every behaviour of the world.
THEOREM MarchInvariance ==
  MarchSpec => []MarchInv
<1>1. MarchInit => MarchInv
  BY MarchInvInit
<1>2. MarchInv /\ [MarchNext]_marchVars => MarchInv'
  BY MarchInvStep
<1> QED BY <1>1, <1>2, PTL DEF MarchSpec

\* The tables of the world keep their types; in particular no army is ever
\* placed off the map.
THEOREM MarchTypeCorrect ==
  MarchSpec => []MarchTypeOK
<1>1. MarchInv => MarchTypeOK
  BY DEF MarchInv
<1> QED BY <1>1, MarchInvariance, PTL

\* Whatever marches is an army that runs, on the same way at the same time.
THEOREM TableAndPoolAgree ==
  MarchSpec => []MarchesMatchArmies
<1>1. MarchInv => MarchesMatchArmies
  BY DEF MarchInv
<1> QED BY <1>1, MarchInvariance, PTL

\* An army runs without a march only when its attack was refused on arrival.
THEOREM OnlyRefusedAttacksStrand ==
  MarchSpec => []RunningArmiesMarch
<1>1. MarchInv => RunningArmiesMarch
  BY DEF MarchInv
<1> QED BY <1>1, MarchInvariance, PTL

\* Every march is listed at the cell it started from.
THEOREM NoMarchIsHidden ==
  MarchSpec => []MarchesAreIndexed
<1>1. MarchInv => MarchesAreIndexed
  BY DEF MarchInv
<1> QED BY <1>1, MarchInvariance, PTL

\* The army pool, the march table and the march index stay together.
THEOREM TablesStayTogether ==
  MarchSpec => []TablesAgree
BY TableAndPoolAgree, OnlyRefusedAttacksStrand, NoMarchIsHidden, PTL DEF TablesAgree

-----------------------------------------------------------------------------
(* An action property.                                                     *)

\* A step that turns an army round leaves it where it is.
LEMMA StepDoesNotMove ==
  ASSUME MarchInv, [MarchNext]_marchVars,
         NEW a \in Army, marches[a] # None, marches'[a] # None,
         armies'[a].cmd = "back", marches'[a].age = 0
  PROVE  MarchArmyPos(marches'[a]) = MarchArmyPos(marches[a])
<1>1. /\ armies[a] # None /\ armies[a].leg = marches[a]
      /\ marches[a] \in Leg
  BY DEF MarchInv, MarchTypeOK, MarchesMatchArmies
<1>2. ASSUME NEW b \in Army, NEW target \in Cell, Attack(b, target)
      PROVE  marches'[a] = marches[a]
  <2>1. CASE a = b
    <3>1. armies'[a].cmd = "attack"
      BY <1>2, <2>1 DEF Attack, Marching, MarchInv, MarchTypeOK
    <3> QED BY <3>1
  <2>2. CASE a # b
    BY <1>2, <2>2 DEF Attack, Dispatched
  <2> QED BY <2>1, <2>2
<1>3. ASSUME NEW b \in Army, Back(b), a # b
      PROVE  marches'[a] = marches[a]
  BY <1>3 DEF Back, Dispatched
<1>4. ASSUME Back(a)
      PROVE  MarchArmyPos(marches'[a]) = MarchArmyPos(marches[a])
  <2>1. marches'[a] = BackLeg(a)
    BY <1>4 DEF Back, Dispatched, Marching, MarchInv, MarchTypeOK
  <2>2. /\ MarchArmyPos(armies[a].leg) \in Cell
        /\ armies[a].leg.from \in Cell
    BY <1>1, LegPosition DEF Leg
  <2> QED BY <1>1, <2>1, <2>2, LegStart DEF BackLeg
<1>5. ASSUME Tick
      PROVE  MarchArmyPos(marches'[a]) = MarchArmyPos(marches[a])
  <2>1. CASE a \in Turning
    <3>1. marches'[a] = HomeLeg(a)
      BY <1>5, <2>1, TickArmy
    <3>2. MarchArmyPos(marches'[a]) = armies[a].leg.to
      BY <1>1, <3>1, LegStart DEF HomeLeg, Leg
    <3>3. marches[a].age = MarchTime
      BY <2>1 DEF Turning, Arrived
    <3> QED BY <1>1, <3>2, <3>3, LegEnd
  <2>2. CASE a \notin Turning
    BY <1>5, <2>2, TickArmy
  <2> QED BY <2>1, <2>2
<1>6. ASSUME Elapse
      PROVE  FALSE
  <2>1. marches'[a] = Older(marches[a])
    BY <1>6 DEF Elapse, OlderMarches
  <2> QED BY <1>1, <2>1, OlderType
<1>7. CASE UNCHANGED marchVars
  BY <1>7 DEF marchVars, worldVars
<1> QED BY <1>2, <1>3, <1>4, <1>5, <1>6, <1>7 DEF MarchNext, Order, Rest

\* Turning round, by order or after a battle, never moves an army.
THEOREM TurningInPlace ==
  MarchSpec => TurningDoesNotMove
<1>1. MarchInv /\ [MarchNext]_marchVars =>
        [\A a \in Army :
           /\ marches[a] # None /\ marches'[a] # None
           /\ armies'[a].cmd = "back" /\ marches'[a].age = 0
           => MarchArmyPos(marches'[a]) = MarchArmyPos(marches[a])]_marchVars
  BY StepDoesNotMove
<1> QED BY <1>1, MarchInvariance, PTL DEF MarchSpec, TurningDoesNotMove

-----------------------------------------------------------------------------
(* The orders: types.                                                      *)

LEMMA CellFacts ==
  ASSUME NEW a \in Army
  PROVE  Home(a) \in Cell /\ Owner[a] \in Player
BY WorldOK DEF Home

\* Order ids are bounded.
LEMMA SendTypes ==
  ASSUME OrdersTypeOK, NEW a \in Army, NEW cmd \in {"attack", "back"},
         NEW to \in Cell, Send(a, cmd, to)
  PROVE  /\ orders' \in Nat /\ orders + 1 \in 1 .. MaxOrders
         /\ [id |-> orders + 1, army |-> a, cmd |-> cmd, to |-> to] \in OrderMsg
         /\ inbox' \in Seq(OrderMsg)
         /\ waiting' \subseteq 1 .. MaxOrders
<1>1. orders' \in Nat /\ orders + 1 \in 1 .. MaxOrders
  BY WorldOK DEF OrdersTypeOK, MarchTypeOK, Send
<1>2. [id |-> orders + 1, army |-> a, cmd |-> cmd, to |-> to] \in OrderMsg
  BY <1>1 DEF OrderMsg
<1>3. inbox' \in Seq(OrderMsg)
  BY <1>2, AppendProperties DEF OrdersTypeOK, Send
<1> QED BY <1>1, <1>2, <1>3 DEF OrdersTypeOK, Send

LEMMA ReportType ==
  ASSUME NEW army \in ArmyState
  PROVE  ReportOf(army) \in Report
BY DEF ReportOf, Report, ArmyState, Leg

\* The first message of a queue, and the rest.
LEMMA QueueFacts ==
  ASSUME NEW S, NEW q \in Seq(S), q # <<>>
  PROVE  /\ Head(q) \in S /\ Head(q) = q[1] /\ 1 \in DOMAIN q
         /\ Tail(q) \in Seq(S)
         /\ Len(q) \in Nat \ {0} /\ Len(Tail(q)) = Len(q) - 1
         /\ DOMAIN q = 1 .. Len(q)
         /\ DOMAIN Tail(q) = 1 .. Len(q) - 1
         /\ \A i \in DOMAIN Tail(q) : Tail(q)[i] = q[i + 1] /\ i + 1 \in DOMAIN q
         /\ Tail(q) = <<>> <=> Len(q) = 1
<1>1. Len(q) \in Nat \ {0} /\ DOMAIN q = 1 .. Len(q)
  BY EmptySeq, LenProperties
<1>2. /\ Head(q) \in S /\ Tail(q) \in Seq(S) /\ Len(Tail(q)) = Len(q) - 1
      /\ \A i \in 1 .. Len(Tail(q)) : Tail(q)[i] = q[i + 1]
  BY HeadTailProperties
<1>3. DOMAIN Tail(q) = 1 .. Len(q) - 1
  BY <1>2, LenProperties
<1>4. Head(q) = q[1]
  OBVIOUS
<1>5. Tail(q) = <<>> <=> Len(q) = 1
  BY <1>1, <1>2, EmptySeq
<1> QED BY <1>1, <1>2, <1>3, <1>4, <1>5

\* A message is added to a queue.
LEMMA AddedFacts ==
  ASSUME NEW S, NEW q \in Seq(S), NEW m \in S
  PROVE  /\ Append(q, m) \in Seq(S) /\ Append(q, m) # <<>>
         /\ Len(q) \in Nat /\ Len(Append(q, m)) = Len(q) + 1
         /\ DOMAIN q = 1 .. Len(q) /\ DOMAIN Append(q, m) = 1 .. Len(q) + 1
         /\ \A i \in DOMAIN q : Append(q, m)[i] = q[i]
         /\ Append(q, m)[Len(q) + 1] = m
         /\ q = <<>> <=> Len(q) = 0
BY AppendProperties, LenProperties, EmptySeq
-----------------------------------------------------------------------------
(* The orders: the invariant.                                              *)

Runs(a) == armies[a] # None /\ armies[a].running
Rests(a) == armies[a] # None /\ ~armies[a].running

LastOf(q) == q[Len(q)]

\* Orders wait in the order of their ids; while none has been given up every
\* one that waits is waited for.
InboxOrdered ==
  /\ \A i, j \in DOMAIN inbox : i < j => inbox[i].id < inbox[j].id
  /\ \A i \in DOMAIN inbox : inbox[i].id <= orders
  /\ OnTime => \A i \in DOMAIN inbox : inbox[i].id \in waiting

\* An answer is about an army that was sent somewhere, a push about one that
\* comes back or has come back.
MailSays ==
  \A a \in Army :
    /\ \A i \in DOMAIN replies[a] : replies[a][i].cmd # "idle"
    /\ \A i \in DOMAIN pushes[a] : pushes[a][i].cmd # "attack"

\* An army that is frozen, or is going to be, is out, or something will thaw
\* it.
FrozenIsOut ==
  \A a \in Army : views[a].frozen \/ replies[a] # <<>> =>
    Runs(a) \/ pushes[a] # <<>>

\* Nothing is told of an army that the world does not know.
UnknownIsQuiet == \A a \in Army : armies[a] = None => pushes[a] = <<>>

\* The last that is told of an army at rest is where it rests.
RestIsTold ==
  \A a \in Army : Rests(a) =>
    IF pushes[a] = <<>>
    THEN views[a] = [report |-> ReportOf(armies[a]), frozen |-> FALSE]
    ELSE LastOf(pushes[a]) = ReportOf(armies[a])

\* The last that is told of an army on its way is what it is on its way for;
\* once a battle has been reported, that is the way back.
MarchIsTold ==
  \A a \in Army : Runs(a) =>
    /\ pushes[a] # <<>> => armies[a].cmd = "back"
    /\ pushes[a] = <<>> /\ replies[a] # <<>> =>
         LastOf(replies[a]).cmd = armies[a].cmd
    /\ pushes[a] = <<>> /\ replies[a] = <<>> =>
         /\ views[a].report.cmd = armies[a].cmd
         /\ armies[a].cmd = "attack" => views[a].frozen

\* A homecoming is the last that is told.
HomeIsLast ==
  \A a \in Army : \A i \in DOMAIN pushes[a] :
    pushes[a][i].cmd = "idle" => i = Len(pushes[a]) /\ Rests(a)

\* An army that its player could send out is at home, and nothing is still
\* to be told of it.
IdleIsHome ==
  \A a \in Army : views[a].report.cmd = "idle" /\ replies[a] = <<>> =>
    pushes[a] = <<>> /\ ~Runs(a)

\* An attack is handled before anything becomes of the army that an earlier
\* order may have sent out.
AttackIsPrompt ==
  \A i \in DOMAIN inbox : inbox[i].cmd = "attack" =>
    /\ pushes[inbox[i].army] = <<>>
    /\ Runs(inbox[i].army) => /\ marches[inbox[i].army] # None
                              /\ marches[inbox[i].army].age = 0

StoredTables == TablesInv(stored.armies, stored.marches, stored.cellToMarch)

\* What holds whatever happens, what holds until a crash, and what holds
\* until something times out.
AlwaysInv == OrdersTypeOK /\ MarchInv /\ StoredTables
CrashFreeInv == NoCrash => FrozenIsOut /\ UnknownIsQuiet /\ RestIsTold
TimelyInv ==
  OnTime /\ NoCrash => MarchIsTold /\ HomeIsLast /\ IdleIsHome /\ AttackIsPrompt

MailInv == InboxOrdered /\ MailSays /\ CrashFreeInv /\ TimelyInv

OrdersInv == AlwaysInv /\ MailInv

-----------------------------------------------------------------------------
(* What the steps of the world do to an army.                              *)

\* An order that is accepted.
LEMMA AcceptArmy ==
  ASSUME OrdersTypeOK, MarchInv, NEW o \in OrderMsg, Accept(o), orders' = orders
  PROVE  /\ MarchInv'
         /\ Runs(o.army)' /\ armies'[o.army].cmd = o.cmd
         /\ armies'[o.army] \in ArmyState
         /\ marches'[o.army] # None /\ marches'[o.army].age = 0
         /\ o.cmd = "back" => Runs(o.army)
         /\ \A b \in Army \ {o.army} :
              armies'[b] = armies[b] /\ marches'[b] = marches[b]
<1>1. o.army \in Army /\ o.to \in Cell /\ orders' \in Nat
  BY DEF OrderMsg, MarchInv, MarchTypeOK
<1>2. armies \in [Army -> ArmyState \cup {None}]
  BY DEF MarchInv, MarchTypeOK
<1>3. CASE o.cmd = "attack" /\ Attack(o.army, o.to)
  <2> DEFINE leg == NewLeg(City[Owner[o.army]], o.to)
  <2>1. MarchInv'
    BY <1>1, <1>3, AttackKeeps
  <2>2. /\ leg \in Leg /\ leg.age = 0
        /\ armies' = [armies EXCEPT ![o.army] = Marching("attack", leg)]
        /\ marches' = Dispatched({o.army}, armies', marches)
    BY <1>1, <1>3, AttackLegType DEF Attack, NewLeg
  <2> HIDE DEF leg
  <2>3. armies'[o.army] = Marching("attack", leg) /\ marches'[o.army] = leg
    BY <1>1, <1>2, <2>2, MarchingType DEF Dispatched
  <2>4. \A b \in Army \ {o.army} :
          armies'[b] = armies[b] /\ marches'[b] = marches[b]
    BY <1>2, <2>2 DEF Dispatched
  <2>5. /\ Marching("attack", leg) \in ArmyState /\ Marching("attack", leg) # None
        /\ Marching("attack", leg).running /\ Marching("attack", leg).cmd = "attack"
    BY <2>2, MarchingType
  <2>6. leg # None
    BY <2>2, NoneIsNothing
  <2>7. Runs(o.army)'
    BY <2>3, <2>5 DEF Runs
  <2> QED BY <1>3, <2>1, <2>2, <2>3, <2>4, <2>5, <2>6, <2>7
<1>4. CASE o.cmd = "back" /\ Back(o.army)
  <2> DEFINE leg == BackLeg(o.army)
  <2>1. MarchInv' /\ Runs(o.army)
    BY <1>1, <1>4, BackKeeps DEF Back, BackAccepted, Runs
  <2>2. /\ leg \in Leg /\ leg.age = 0
        /\ armies' = [armies EXCEPT ![o.army] = Marching("back", leg)]
        /\ marches' = Dispatched({o.army}, armies', marches)
    BY <1>1, <1>4, BackLegType DEF Back, BackAccepted, BackLeg, NewLeg, MarchInv
  <2> HIDE DEF leg
  <2>3. armies'[o.army] = Marching("back", leg) /\ marches'[o.army] = leg
    BY <1>1, <1>2, <2>2, MarchingType DEF Dispatched
  <2>4. \A b \in Army \ {o.army} :
          armies'[b] = armies[b] /\ marches'[b] = marches[b]
    BY <1>2, <2>2 DEF Dispatched
  <2>5. /\ Marching("back", leg) \in ArmyState /\ Marching("back", leg) # None
        /\ Marching("back", leg).running /\ Marching("back", leg).cmd = "back"
    BY <2>2, MarchingType
  <2>6. leg # None
    BY <2>2, NoneIsNothing
  <2>7. Runs(o.army)'
    BY <2>3, <2>5 DEF Runs
  <2> QED BY <1>4, <2>1, <2>2, <2>3, <2>4, <2>5, <2>6, <2>7
<1> QED BY <1>3, <1>4 DEF Accept

\* A tick.
LEMMA TickReports ==
  ASSUME MarchInv, Tick, NEW a \in Army
  PROVE  /\ a \in Reported =>
              /\ Runs(a) /\ marches[a].age = MarchTime
              /\ armies'[a] # None /\ armies'[a] \in ArmyState
              /\ \/ Runs(a)' /\ armies'[a].cmd = "back"
                 \/ Rests(a)' /\ armies'[a].cmd = "idle"
         /\ a \notin Reported => armies'[a] = armies[a]
         /\ a \notin Arrived => marches'[a] = marches[a]
<1>1. CASE a \in Turning
  <2>1. HomeLeg(a) \in Leg /\ armies'[a] = Marching("back", HomeLeg(a))
    BY <1>1, TickArmy
  <2>2. /\ armies'[a] \in ArmyState /\ armies'[a] # None
        /\ armies'[a].running /\ armies'[a].cmd = "back"
    BY <2>1, MarchingType
  <2>3. a \in Arrived
    BY <1>1 DEF Turning
  <2>4. Runs(a) /\ marches[a].age = MarchTime
    BY <2>3 DEF Arrived, MarchInv, MarchesMatchArmies, Runs
  <2> QED BY <1>1, <2>2, <2>3, <2>4 DEF Reported, Runs
<1>2. CASE a \in Landing
  <2>1. armies[a] \in ArmyState /\ armies'[a] = Landed(a)
    BY <1>2, TickArmy DEF MarchInv, MarchTypeOK
  <2>2. armies'[a] \in ArmyState /\ armies'[a].cmd = "idle" /\ ~armies'[a].running
    BY <2>1 DEF Landed, ArmyState, Leg
  <2>3. armies'[a] # None
    BY <2>2, NoneIsNothing
  <2>4. a \in Arrived
    BY <1>2 DEF Landing
  <2>5. Runs(a) /\ marches[a].age = MarchTime
    BY <2>4 DEF Arrived, MarchInv, MarchesMatchArmies, Runs
  <2> QED BY <1>2, <2>2, <2>3, <2>4, <2>5 DEF Reported, Rests
<1>3. CASE a \notin Turning \cup Landing
  BY <1>3, TickArmy DEF Reported
<1> QED BY <1>1, <1>2, <1>3

\* A unit of time.
LEMMA ElapseArmy ==
  ASSUME MarchInv, Elapse, NEW a \in Army
  PROVE  /\ Runs(a)' <=> Runs(a)
         /\ Rests(a)' <=> Rests(a)
         /\ (armies'[a] = None) <=> (armies[a] = None)
         /\ Runs(a) => armies'[a].cmd = armies[a].cmd
         /\ Rests(a) => armies'[a] = armies[a]
<1>1. armies' = OlderArmies(armies)
  BY DEF Elapse
<1> QED BY <1>1, OlderArmy, MarchInvIsTablesInv DEF Runs, Rests

-----------------------------------------------------------------------------
(* The types, and what always holds.                                       *)

LEMMA StoredType ==
  ASSUME NEW pool \in [Army -> ArmyState \cup {None}],
         NEW table \in [Army -> Leg \cup {None}],
         NEW index \in [Cell -> SUBSET Army],
         NEW seen \in [Army -> View], NEW s \in Stored
  PROVE  /\ [s EXCEPT !.armies = pool, !.marches = table,
                      !.cellToMarch = index] \in Stored
         /\ [s EXCEPT !.armies = pool, !.marches = table] \in Stored
         /\ [s EXCEPT !.views = seen] \in Stored
BY DEF Stored

\* The documents after a write.
LEMMA StoreTypes ==
  ASSUME OrdersTypeOK, Store
  PROVE  /\ stored' \in Stored
         /\ \/ /\ stored'.armies = stored.armies
               /\ stored'.marches = stored.marches
               /\ stored'.cellToMarch = stored.cellToMarch
            \/ /\ stored'.armies = armies
               /\ stored'.marches = marches
               /\ stored'.cellToMarch = cellToMarch
<1>1. CASE stored' = WorldDocument
  <2>1. stored' \in Stored
    BY <1>1, StoredType DEF WorldDocument, OrdersTypeOK, MarchTypeOK
  <2>2. /\ stored'.armies = armies /\ stored'.marches = marches
        /\ stored'.cellToMarch = cellToMarch
    BY <1>1 DEF WorldDocument, OrdersTypeOK, Stored
  <2> QED BY <2>1, <2>2
<1>2. ASSUME NEW p \in Player, stored' = PlayerDocument(p)
      PROVE  /\ stored' \in Stored
             /\ stored'.armies = stored.armies
             /\ stored'.marches = stored.marches
             /\ stored'.cellToMarch = stored.cellToMarch
  <2> DEFINE seen == [a \in Army |-> IF Owner[a] = p THEN views[a]
                                     ELSE stored.views[a]]
  <2>1. stored \in Stored /\ views \in [Army -> View]
    BY DEF OrdersTypeOK
  <2>2. seen \in [Army -> View]
    BY <2>1 DEF Stored
  <2>3. stored' = [stored EXCEPT !.views = seen]
    BY <1>2, <2>1 DEF PlayerDocument, Stored
  <2> HIDE DEF seen
  <2> QED BY <2>1, <2>2, <2>3 DEF Stored
<1> QED BY <1>1, <1>2 DEF Store

\* A step of the world.
LEMMA WorldStep ==
  ASSUME AlwaysInv, [OrdersNext]_orderVars
  PROVE  MarchInv' /\ StoredTables'
<1> USE DEF orderVars, marchVars, worldVars, mailVars, boundVars
<1>0. /\ OrdersTypeOK /\ MarchInv /\ StoredTables /\ orders \in Nat
  BY DEF AlwaysInv, OrdersTypeOK, MarchTypeOK
<1>1. ASSUME UNCHANGED worldVars, orders' \in Nat PROVE MarchInv'
  BY <1>0, <1>1, MarchInvIsTablesInv
     DEF MarchInv, MarchTypeOK, RunningUnderOrder, MarchesMatchArmies,
         RunningArmiesMarch, Stranded, MarchesAreIndexed
<1>2. UNCHANGED stored => StoredTables'
  BY <1>0 DEF StoredTables
<1>3. CASE \/ \E a \in Army, x \in Cell : AssignAttack(a, x)
           \/ \E a \in Army : AssignBack(a)
  <2>1. PICK a \in Army, cmd \in {"attack", "back"}, x \in Int : Send(a, cmd, x)
    BY <1>3, CellFacts DEF AssignAttack, AssignBack, Cell
  <2>2. UNCHANGED <<worldVars, stored>> /\ orders' \in Nat
    BY <1>0, <2>1 DEF Send
  <2> QED BY <1>1, <1>2, <2>2
<1>4. CASE \E a \in Army : Resume(a) \/ ReceivePush(a)
  <2>1. UNCHANGED <<marchVars, stored>>
    BY <1>4 DEF Resume, ReceivePush
  <2> QED BY <1>0, <1>1, <1>2, <2>1
<1>5. CASE \E n \in waiting : TimeOut(n)
  BY <1>0, <1>1, <1>2, <1>5 DEF TimeOut
<1>6. CASE HandleOrder
  <2>1. Head(inbox) \in OrderMsg /\ UNCHANGED <<orders, stored>>
    BY <1>0, <1>6, QueueFacts DEF OrdersTypeOK, HandleOrder
  <2>2. CASE Accept(Head(inbox))
    BY <1>0, <1>2, <2>1, <2>2, AcceptArmy
  <2>3. CASE Refuse(Head(inbox))
    BY <1>0, <1>1, <1>2, <2>1, <2>3 DEF Refuse
  <2> QED BY <1>6, <2>2, <2>3 DEF HandleOrder
<1>7. CASE TickAndPush
  BY <1>0, <1>2, <1>7, TickKeeps DEF TickAndPush
<1>8. CASE TimePasses
  <2>1. MarchInv'
    BY <1>0, <1>8, ElapseKeeps DEF TimePasses
  <2>2. /\ stored'.armies = OlderArmies(stored.armies)
        /\ stored'.marches = OlderMarches(stored.marches)
        /\ stored'.cellToMarch = stored.cellToMarch
    BY <1>0, <1>8 DEF TimePasses, OrdersTypeOK, Stored
  <2>3. StoredTables'
    BY <1>0, <2>2, OlderKeeps DEF StoredTables
  <2> QED BY <2>1, <2>3
<1>9. CASE Store
  <2>1. MarchInv'
    BY <1>0, <1>1, <1>9 DEF Store
  <2>2. StoredTables'
    BY <1>0, <1>9, StoreTypes, MarchInvIsTablesInv DEF StoredTables
  <2> QED BY <2>1, <2>2
<1>10. CASE Crash
  <2>1. TablesInv(armies', marches', cellToMarch') /\ orders' \in Nat
    BY <1>0, <1>10 DEF Crash, StoredTables
  <2>2. MarchInv'
    BY <2>1 DEF MarchInv, MarchTypeOK, RunningUnderOrder, MarchesMatchArmies,
                RunningArmiesMarch, Stranded, MarchesAreIndexed, TablesInv
  <2> QED BY <1>2, <1>10, <2>2 DEF Crash
<1>11. CASE UNCHANGED orderVars
  BY <1>0, <1>1, <1>2, <1>11
<1> QED BY <1>3, <1>4, <1>5, <1>6, <1>7, <1>8, <1>9, <1>10, <1>11
        DEF OrdersNext

\* The types of everything that is not the world's.
LEMMA OrdersTypeStep ==
  ASSUME AlwaysInv, [OrdersNext]_orderVars
  PROVE  OrdersTypeOK'
<1> USE DEF orderVars, marchVars, worldVars, mailVars, boundVars
<1>0. /\ OrdersTypeOK /\ MarchInv /\ MarchTypeOK'
      /\ armies \in [Army -> ArmyState \cup {None}]
  BY WorldStep DEF AlwaysInv, MarchInv, MarchTypeOK
<1> SUFFICES /\ views' \in [Army -> View]
             /\ inbox' \in Seq(OrderMsg)
             /\ waiting' \subseteq 1 .. MaxOrders
             /\ replies' \in [Army -> Seq(Report)]
             /\ pushes' \in [Army -> Seq(Report)]
             /\ stored' \in Stored
             /\ timeouts' \in Nat /\ crashes' \in Nat
  BY <1>0 DEF OrdersTypeOK
<1>1. /\ views \in [Army -> View]
      /\ inbox \in Seq(OrderMsg)
      /\ waiting \subseteq 1 .. MaxOrders
      /\ replies \in [Army -> Seq(Report)]
      /\ pushes \in [Army -> Seq(Report)]
      /\ stored \in Stored
      /\ timeouts \in Nat /\ crashes \in Nat
  BY <1>0 DEF OrdersTypeOK
<1>2. ASSUME NEW a \in Army, NEW x \in Cell, AssignAttack(a, x)
      PROVE  inbox' \in Seq(OrderMsg) /\ waiting' \subseteq 1 .. MaxOrders
  BY <1>0, <1>2, SendTypes DEF AssignAttack
<1>3. ASSUME NEW a \in Army, AssignBack(a)
      PROVE  inbox' \in Seq(OrderMsg) /\ waiting' \subseteq 1 .. MaxOrders
  BY <1>0, <1>3, CellFacts, SendTypes DEF AssignBack
<1>4. ASSUME NEW a \in Army, Resume(a)
      PROVE  /\ views' \in [Army -> View]
             /\ replies' \in [Army -> Seq(Report)]
  <2>1. /\ Head(replies[a]) \in Report /\ Tail(replies[a]) \in Seq(Report)
    BY <1>1, <1>4, QueueFacts DEF Resume
  <2>2. [report |-> Head(replies[a]), frozen |-> TRUE] \in View
    BY <2>1 DEF View
  <2> QED BY <1>1, <1>4, <2>1, <2>2 DEF Resume, Freezes
<1>5. ASSUME NEW a \in Army, ReceivePush(a)
      PROVE  /\ views' \in [Army -> View]
             /\ pushes' \in [Army -> Seq(Report)]
  <2>1. /\ Head(pushes[a]) \in Report /\ Tail(pushes[a]) \in Seq(Report)
    BY <1>1, <1>5, QueueFacts DEF ReceivePush
  <2>2. [report |-> Head(pushes[a]), frozen |-> FALSE] \in View
    BY <2>1 DEF View
  <2> QED BY <1>1, <1>5, <2>1, <2>2 DEF ReceivePush, Thawed
<1>6. ASSUME HandleOrder
      PROVE  /\ inbox' \in Seq(OrderMsg) /\ waiting' \subseteq 1 .. MaxOrders
             /\ replies' \in [Army -> Seq(Report)]
  <2> DEFINE o == Head(inbox)
  <2>1. /\ o \in OrderMsg /\ Tail(inbox) \in Seq(OrderMsg)
        /\ orders' = orders
    BY <1>1, <1>6, QueueFacts DEF HandleOrder
  <2>2. CASE Accept(o)
    <3>1. ReportOf(armies'[o.army]) \in Report /\ o.army \in Army
      BY <1>0, <2>1, <2>2, AcceptArmy, ReportType DEF OrderMsg
    <3>2. Append(replies[o.army], ReportOf(armies'[o.army])) \in Seq(Report)
      BY <1>1, <3>1, AppendProperties
    <3> QED BY <1>1, <1>6, <2>1, <2>2, <3>1, <3>2 DEF HandleOrder, Accept
  <2>3. CASE Refuse(o)
    BY <1>1, <1>6, <2>1, <2>3 DEF HandleOrder, Refuse
  <2> QED BY <1>6, <2>2, <2>3 DEF HandleOrder
<1>7. ASSUME TickAndPush PROVE pushes' \in [Army -> Seq(Report)]
  <2>1. ASSUME NEW a \in Reported, a \in Army
        PROVE  Append(pushes[a], ReportOf(armies'[a])) \in Seq(Report)
    BY <1>0, <1>1, <1>7, <2>1, TickReports, ReportType, AppendProperties
       DEF TickAndPush
  <2> QED BY <1>1, <1>7, <2>1 DEF TickAndPush
<1>8. ASSUME TimePasses PROVE stored' \in Stored
  <2>1. TablesInv(OlderArmies(stored.armies), OlderMarches(stored.marches),
                  stored.cellToMarch)
    BY OlderKeeps DEF AlwaysInv, StoredTables
  <2>2. /\ OlderArmies(stored.armies) \in [Army -> ArmyState \cup {None}]
        /\ OlderMarches(stored.marches) \in [Army -> Leg \cup {None}]
    BY <2>1 DEF TablesInv
  <2>3. stored' = [stored EXCEPT !.armies = OlderArmies(stored.armies),
                                 !.marches = OlderMarches(stored.marches)]
    BY <1>1, <1>8 DEF TimePasses, Stored
  <2>4. stored.cellToMarch \in [Cell -> SUBSET Army] /\ stored.views \in [Army -> View]
    BY <1>1 DEF Stored
  <2> QED BY <1>1, <2>2, <2>3, <2>4, StoredType
<1>9. ASSUME Crash
      PROVE  /\ views' \in [Army -> View] /\ inbox' \in Seq(OrderMsg)
             /\ waiting' \subseteq 1 .. MaxOrders
             /\ replies' \in [Army -> Seq(Report)]
             /\ pushes' \in [Army -> Seq(Report)]
             /\ crashes' \in Nat
  <2>1. <<>> \in Seq(OrderMsg) /\ <<>> \in Seq(Report)
    BY EmptySeq
  <2> QED BY <1>1, <1>9, <2>1 DEF Crash, Stored
<1>10. CASE \E a \in Army, x \in Cell : AssignAttack(a, x)
  BY <1>1, <1>2, <1>10 DEF AssignAttack, Send
<1>11. CASE \E a \in Army : AssignBack(a)
  BY <1>1, <1>3, <1>11 DEF AssignBack, Send
<1>12. CASE \E a \in Army : Resume(a)
  BY <1>1, <1>4, <1>12 DEF Resume
<1>13. CASE \E a \in Army : ReceivePush(a)
  BY <1>1, <1>5, <1>13 DEF ReceivePush
<1>14. CASE \E n \in waiting : TimeOut(n)
  BY <1>1, <1>14 DEF TimeOut
<1>15. CASE HandleOrder
  BY <1>1, <1>6, <1>15 DEF HandleOrder
<1>16. CASE TickAndPush
  BY <1>1, <1>7, <1>16 DEF TickAndPush
<1>17. CASE TimePasses
  BY <1>1, <1>8, <1>17 DEF TimePasses
<1>18. CASE Store
  BY <1>0, <1>1, <1>18, StoreTypes DEF Store
<1>19. CASE Crash
  BY <1>1, <1>9, <1>19 DEF Crash
<1>20. CASE UNCHANGED orderVars
  BY <1>1, <1>20
<1> QED BY <1>10, <1>11, <1>12, <1>13, <1>14, <1>15, <1>16, <1>17, <1>18,
           <1>19, <1>20 DEF OrdersNext

-----------------------------------------------------------------------------
(* What the steps do to the mail: one lemma for each action.               *)

\* The orders that wait.
LEMMA InboxFacts ==
  ASSUME OrdersTypeOK
  PROVE  /\ DOMAIN inbox = 1 .. Len(inbox) /\ Len(inbox) \in Nat
         /\ \A i \in DOMAIN inbox :
              inbox[i] \in OrderMsg /\ inbox[i].id \in Nat /\ inbox[i].army \in Army
<1>1. inbox \in Seq(OrderMsg)
  BY DEF OrdersTypeOK
<1>2. DOMAIN inbox = 1 .. Len(inbox) /\ Len(inbox) \in Nat
  BY <1>1, LenProperties
<1>3. \A i \in DOMAIN inbox : inbox[i] \in OrderMsg
  BY <1>1, <1>2, ElementOfSeq
<1> QED BY <1>2, <1>3 DEF OrderMsg

\* A queue without its first message.
LEMMA TakenFacts ==
  ASSUME NEW S, NEW q \in Seq(S), q # <<>>
  PROVE  LET t == Tail(q) IN
         /\ q[1] \in S /\ 1 \in DOMAIN q /\ Len(q) \in Nat \ {0}
         /\ Len(t) = Len(q) - 1 /\ DOMAIN t = 1 .. Len(q) - 1
         /\ \A i \in DOMAIN t : i \in Int /\ t[i] = q[i + 1] /\ i + 1 \in DOMAIN q
         /\ t = <<>> <=> Len(q) = 1
         /\ IF t = <<>> THEN LastOf(q) = q[1] ELSE LastOf(t) = LastOf(q)
<1>1. /\ q[1] \in S /\ 1 \in DOMAIN q /\ Len(q) \in Nat \ {0}
      /\ Len(Tail(q)) = Len(q) - 1 /\ DOMAIN Tail(q) = 1 .. Len(q) - 1
      /\ \A i \in DOMAIN Tail(q) : Tail(q)[i] = q[i + 1] /\ i + 1 \in DOMAIN q
      /\ Tail(q) = <<>> <=> Len(q) = 1
  BY QueueFacts
<1> QED BY <1>1 DEF LastOf

\* An order is sent: an attack only by a player who can send the army out.
LEMMA SendMail ==
  ASSUME OrdersInv, NEW a \in Army, NEW cmd \in {"attack", "back"},
         NEW x \in Cell, Send(a, cmd, x),
         cmd = "attack" => Idle(a) /\ MayGoOut(a)
  PROVE  MailInv'
<1> DEFINE m == [id |-> orders + 1, army |-> a, cmd |-> cmd, to |-> x]
<1>1. /\ UNCHANGED <<views, armies, marches, replies, pushes, timeouts, crashes>>
      /\ inbox' = Append(inbox, m) /\ waiting' = waiting \cup {orders + 1}
      /\ orders' = orders + 1 /\ orders \in Nat
  BY DEF Send, worldVars, boundVars, OrdersInv, AlwaysInv, OrdersTypeOK,
         MarchTypeOK
<1>2. /\ inbox \in Seq(OrderMsg) /\ m \in OrderMsg
      /\ m.id = orders + 1 /\ m.army = a /\ m.cmd = cmd
  BY SendTypes DEF OrdersInv, AlwaysInv, OrdersTypeOK
<1>3. \A i \in DOMAIN inbox : inbox[i] \in OrderMsg /\ inbox[i].id \in Nat
  BY InboxFacts DEF OrdersInv, AlwaysInv
<1> HIDE DEF m
<1>4. /\ DOMAIN inbox = 1 .. Len(inbox) /\ DOMAIN inbox' = 1 .. Len(inbox) + 1
      /\ \A i \in DOMAIN inbox : inbox'[i] = inbox[i]
      /\ inbox'[Len(inbox) + 1] = m /\ Len(inbox) \in Nat
  BY <1>1, <1>2, AddedFacts
<1>5. InboxOrdered'
  BY <1>1, <1>2, <1>3, <1>4 DEF OrdersInv, MailInv, InboxOrdered, OnTime
<1>6. MailSays' /\ CrashFreeInv'
  BY <1>1 DEF OrdersInv, MailInv, MailSays, CrashFreeInv, FrozenIsOut,
              UnknownIsQuiet, RestIsTold, Runs, Rests, NoCrash, ReportOf
<1>7. ASSUME (OnTime /\ NoCrash)'
      PROVE  (MarchIsTold /\ HomeIsLast /\ IdleIsHome /\ AttackIsPrompt)'
  <2>1. MarchIsTold /\ HomeIsLast /\ IdleIsHome /\ AttackIsPrompt
    BY <1>1, <1>7 DEF OrdersInv, MailInv, TimelyInv, OnTime, NoCrash
  <2>2. (MarchIsTold /\ HomeIsLast /\ IdleIsHome)'
    BY <1>1, <2>1 DEF MarchIsTold, HomeIsLast, IdleIsHome, Runs, Rests
  <2>3. cmd = "attack" => pushes[a] = <<>> /\ ~Runs(a)
    BY <2>1 DEF IdleIsHome, MayGoOut, Idle
  <2>4. AttackIsPrompt'
    BY <1>1, <1>2, <1>3, <2>1, <2>3 DEF AttackIsPrompt, Runs
  <2> QED BY <2>2, <2>4
<1> QED BY <1>5, <1>6, <1>7 DEF MailInv, TimelyInv

\* The player takes an answer.
LEMMA ResumeMail ==
  ASSUME OrdersInv, NEW a \in Army, Resume(a)
  PROVE  MailInv'
<1>1. /\ UNCHANGED <<armies, marches, inbox, waiting, orders, pushes, timeouts, crashes>>
      /\ views \in [Army -> View] /\ replies \in [Army -> Seq(Report)]
      /\ replies[a] # <<>>
  BY DEF Resume, marchVars, worldVars, boundVars, OrdersInv, AlwaysInv, OrdersTypeOK
<1>2. /\ views'[a] = [report |-> replies[a][1], frozen |-> TRUE]
      /\ \A b \in Army \ {a} : views'[b] = views[b] /\ replies'[b] = replies[b]
  BY <1>1, QueueFacts DEF Resume, Freezes
<1>3. /\ replies[a][1] \in Report /\ 1 \in DOMAIN replies[a] /\ Len(replies[a]) \in Nat \ {0}
      /\ Len(replies'[a]) = Len(replies[a]) - 1 /\ DOMAIN replies'[a] = 1 .. Len(replies[a]) - 1
      /\ \A i \in DOMAIN replies'[a] :
           i \in Int /\ replies'[a][i] = replies[a][i + 1] /\ i + 1 \in DOMAIN replies[a]
      /\ replies'[a] = <<>> <=> Len(replies[a]) = 1
      /\ IF replies'[a] = <<>> THEN LastOf(replies[a]) = replies[a][1]
         ELSE LastOf(replies'[a]) = LastOf(replies[a])
  <2>1. replies'[a] = Tail(replies[a])
    BY <1>1 DEF Resume
  <2> QED BY <1>1, <2>1, TakenFacts
<1>4. InboxOrdered' /\ MailSays'
  <2>1. InboxOrdered'
    BY <1>1 DEF OrdersInv, MailInv, InboxOrdered, OnTime
  <2>2. MailSays'
    <3> SUFFICES ASSUME NEW b \in Army
                 PROVE  /\ \A i \in DOMAIN replies'[b] : replies'[b][i].cmd # "idle"
                        /\ \A i \in DOMAIN pushes'[b] : pushes'[b][i].cmd # "attack"
      BY DEF MailSays
    <3>1. /\ \A i \in DOMAIN replies[b] : replies[b][i].cmd # "idle"
          /\ \A i \in DOMAIN pushes[b] : pushes[b][i].cmd # "attack"
      BY DEF OrdersInv, MailInv, MailSays
    <3>2. CASE b # a
      BY <1>1, <1>2, <3>1, <3>2
    <3>3. CASE b = a
      BY <1>1, <1>3, <3>1, <3>3
    <3> QED BY <3>2, <3>3
  <2> QED BY <2>1, <2>2
<1>5. ASSUME NoCrash' PROVE (FrozenIsOut /\ UnknownIsQuiet /\ RestIsTold)'
  <2>1. FrozenIsOut /\ UnknownIsQuiet /\ RestIsTold
    BY <1>1, <1>5 DEF OrdersInv, MailInv, CrashFreeInv, NoCrash
  <2>2. Runs(a) \/ pushes[a] # <<>>
    BY <1>1, <2>1 DEF FrozenIsOut
  <2>3. (FrozenIsOut /\ UnknownIsQuiet)'
    BY <1>1, <1>2, <2>1, <2>2 DEF FrozenIsOut, UnknownIsQuiet, Runs
  <2>4. RestIsTold'
    BY <1>1, <1>2, <2>1, <2>2 DEF RestIsTold, Runs, Rests, ReportOf
  <2> QED BY <2>3, <2>4
<1>6. ASSUME (OnTime /\ NoCrash)'
      PROVE  (MarchIsTold /\ HomeIsLast /\ IdleIsHome /\ AttackIsPrompt)'
  <2>1. MarchIsTold /\ HomeIsLast /\ IdleIsHome /\ AttackIsPrompt
    BY <1>1, <1>6 DEF OrdersInv, MailInv, TimelyInv, OnTime, NoCrash
  <2>2. (HomeIsLast /\ AttackIsPrompt)'
    BY <1>1, <2>1 DEF HomeIsLast, AttackIsPrompt, Runs, Rests
  <2>3. views'[a].report.cmd # "idle"
    BY <1>2, <1>3 DEF OrdersInv, MailInv, MailSays
  <2>4. IdleIsHome'
    BY <1>1, <1>2, <2>1, <2>3 DEF IdleIsHome, Runs
  <2>5. MarchIsTold'
    <3> SUFFICES ASSUME NEW b \in Army, Runs(b)'
                 PROVE  /\ pushes'[b] # <<>> => armies'[b].cmd = "back"
                        /\ pushes'[b] = <<>> /\ replies'[b] # <<>> =>
                             LastOf(replies'[b]).cmd = armies'[b].cmd
                        /\ pushes'[b] = <<>> /\ replies'[b] = <<>> =>
                             /\ views'[b].report.cmd = armies'[b].cmd
                             /\ armies'[b].cmd = "attack" => views'[b].frozen
      BY DEF MarchIsTold, LastOf
    <3>1. Runs(b)
      BY <1>1 DEF Runs
    <3>2. CASE b # a
      BY <1>1, <1>2, <2>1, <3>1, <3>2 DEF MarchIsTold
    <3>3. CASE b = a
      <4>1. replies[a] # <<>> /\ armies'[a] = armies[a] /\ pushes'[a] = pushes[a]
        BY <1>1
      <4>2. pushes[a] # <<>> => armies[a].cmd = "back"
        BY <2>1, <3>1, <3>3 DEF MarchIsTold
      <4>3. pushes[a] = <<>> => LastOf(replies[a]).cmd = armies[a].cmd
        BY <2>1, <3>1, <3>3, <4>1 DEF MarchIsTold
      <4> QED BY <1>2, <1>3, <3>3, <4>1, <4>2, <4>3
    <3> QED BY <3>2, <3>3
  <2> QED BY <2>1, <2>2, <2>4, <2>5
<1> QED BY <1>4, <1>5, <1>6 DEF MailInv, CrashFreeInv, TimelyInv

\* The player takes a push.
LEMMA ReceivePushMail ==
  ASSUME OrdersInv, NEW a \in Army, ReceivePush(a)
  PROVE  MailInv'
<1>1. /\ UNCHANGED <<armies, marches, inbox, waiting, orders, replies, timeouts, crashes>>
      /\ views \in [Army -> View] /\ pushes \in [Army -> Seq(Report)]
      /\ pushes[a] # <<>> /\ replies[a] = <<>>
  BY DEF ReceivePush, Idle, marchVars, worldVars, boundVars, OrdersInv, AlwaysInv,
         OrdersTypeOK
<1>2. /\ views'[a] = [report |-> pushes[a][1], frozen |-> FALSE]
      /\ \A b \in Army \ {a} : views'[b] = views[b] /\ pushes'[b] = pushes[b]
  BY <1>1, QueueFacts DEF ReceivePush, Thawed
<1>3. /\ pushes[a][1] \in Report /\ 1 \in DOMAIN pushes[a] /\ Len(pushes[a]) \in Nat \ {0}
      /\ Len(pushes'[a]) = Len(pushes[a]) - 1 /\ DOMAIN pushes'[a] = 1 .. Len(pushes[a]) - 1
      /\ \A i \in DOMAIN pushes'[a] :
           i \in Int /\ pushes'[a][i] = pushes[a][i + 1] /\ i + 1 \in DOMAIN pushes[a]
      /\ pushes'[a] = <<>> <=> Len(pushes[a]) = 1
      /\ IF pushes'[a] = <<>> THEN LastOf(pushes[a]) = pushes[a][1]
         ELSE LastOf(pushes'[a]) = LastOf(pushes[a])
  <2>1. /\ pushes'[a] = Tail(pushes[a]) /\ pushes[a] # <<>>
        /\ pushes[a] \in Seq(Report)
    BY <1>1 DEF ReceivePush
  <2> QED BY <2>1, TakenFacts
<1>5. InboxOrdered' /\ MailSays'
  <2>1. InboxOrdered'
    BY <1>1 DEF OrdersInv, MailInv, InboxOrdered, OnTime
  <2>2. MailSays'
    <3> SUFFICES ASSUME NEW b \in Army
                 PROVE  /\ \A i \in DOMAIN replies'[b] : replies'[b][i].cmd # "idle"
                        /\ \A i \in DOMAIN pushes'[b] : pushes'[b][i].cmd # "attack"
      BY DEF MailSays
    <3>1. /\ \A i \in DOMAIN replies[b] : replies[b][i].cmd # "idle"
          /\ \A i \in DOMAIN pushes[b] : pushes[b][i].cmd # "attack"
      BY DEF OrdersInv, MailInv, MailSays
    <3>2. CASE b # a
      BY <1>1, <1>2, <3>1, <3>2
    <3>3. CASE b = a
      BY <1>1, <1>3, <3>1, <3>3
    <3> QED BY <3>2, <3>3
  <2> QED BY <2>1, <2>2
<1>6. ASSUME NoCrash' PROVE (FrozenIsOut /\ UnknownIsQuiet /\ RestIsTold)'
  <2>1. FrozenIsOut /\ UnknownIsQuiet /\ RestIsTold
    BY <1>1, <1>6 DEF OrdersInv, MailInv, CrashFreeInv, NoCrash
  <2>2. FrozenIsOut'
    BY <1>1, <1>2, <2>1 DEF FrozenIsOut, Runs
  <2>3. UnknownIsQuiet'
    BY <1>1, <1>2, <2>1 DEF UnknownIsQuiet
  <2>4. RestIsTold'
    <3> SUFFICES ASSUME NEW b \in Army, Rests(b)'
                 PROVE  IF pushes'[b] = <<>>
                        THEN views'[b] = [report |-> ReportOf(armies'[b]),
                                          frozen |-> FALSE]
                        ELSE LastOf(pushes'[b]) = ReportOf(armies'[b])
      BY DEF RestIsTold, LastOf, ReportOf
    <3>1. Rests(b) /\ ReportOf(armies'[b]) = ReportOf(armies[b])
      BY <1>1 DEF Rests
    <3>2. CASE b # a
      BY <1>1, <1>2, <2>1, <3>1, <3>2 DEF RestIsTold
    <3>3. CASE b = a
      BY <1>1, <1>2, <1>3, <2>1, <3>1, <3>3 DEF RestIsTold
    <3> QED BY <3>2, <3>3
  <2> QED BY <2>2, <2>3, <2>4
<1>7. ASSUME (OnTime /\ NoCrash)'
      PROVE  (MarchIsTold /\ HomeIsLast /\ IdleIsHome /\ AttackIsPrompt)'
  <2>1. /\ MarchIsTold /\ HomeIsLast /\ IdleIsHome /\ AttackIsPrompt
        /\ MailSays
    BY <1>1, <1>7 DEF OrdersInv, MailInv, TimelyInv, OnTime, NoCrash
  <2>2. /\ pushes[a][1].cmd \in {"back", "idle"}
        /\ pushes[a][1].cmd = "idle" => pushes'[a] = <<>> /\ Rests(a)
    BY <1>3, <2>1 DEF HomeIsLast, MailSays, Report
  <2>3. MarchIsTold'
    <3> SUFFICES ASSUME NEW b \in Army, Runs(b)'
                 PROVE  /\ pushes'[b] # <<>> => armies'[b].cmd = "back"
                        /\ pushes'[b] = <<>> /\ replies'[b] # <<>> =>
                             LastOf(replies'[b]).cmd = armies'[b].cmd
                        /\ pushes'[b] = <<>> /\ replies'[b] = <<>> =>
                             /\ views'[b].report.cmd = armies'[b].cmd
                             /\ armies'[b].cmd = "attack" => views'[b].frozen
      BY DEF MarchIsTold, LastOf
    <3>1. Runs(b)
      BY <1>1 DEF Runs
    <3>2. CASE b # a
      BY <1>1, <1>2, <2>1, <3>1, <3>2 DEF MarchIsTold
    <3>3. CASE b = a
      <4>1. ~Rests(a) /\ armies[a].cmd = "back"
        BY <1>1, <2>1, <3>1, <3>3 DEF Runs, Rests, MarchIsTold
      <4> QED BY <1>1, <1>2, <2>2, <3>3, <4>1
    <3> QED BY <3>2, <3>3
  <2>4. HomeIsLast'
    <3> SUFFICES ASSUME NEW b \in Army, NEW i \in DOMAIN pushes'[b],
                        pushes'[b][i].cmd = "idle"
                 PROVE  i = Len(pushes'[b]) /\ Rests(b)'
      BY DEF HomeIsLast
    <3>1. Rests(b)' <=> Rests(b)
      BY <1>1 DEF Rests
    <3>2. CASE b # a
      BY <1>2, <2>1, <3>1, <3>2 DEF HomeIsLast
    <3>3. CASE b = a
      <4>1. i \in DOMAIN pushes'[a] /\ pushes[a][i + 1].cmd = "idle"
        BY <1>3, <3>3
      <4>2. i + 1 = Len(pushes[a]) /\ Rests(a)
        BY <1>3, <2>1, <4>1 DEF HomeIsLast
      <4>3. i \in Int /\ Len(pushes'[b]) = Len(pushes[a]) - 1
        BY <1>3, <3>3, <4>1
      <4> QED BY <1>3, <3>1, <3>3, <4>2, <4>3
    <3> QED BY <3>2, <3>3
  <2>5. IdleIsHome'
    <3> SUFFICES ASSUME NEW b \in Army, views'[b].report.cmd = "idle",
                        replies'[b] = <<>>
                 PROVE  pushes'[b] = <<>> /\ ~Runs(b)'
      BY DEF IdleIsHome
    <3>1. Runs(b)' <=> Runs(b)
      BY <1>1 DEF Runs
    <3>2. CASE b # a
      BY <1>1, <1>2, <2>1, <3>1, <3>2 DEF IdleIsHome
    <3>3. CASE b = a
      BY <1>2, <2>2, <3>1, <3>3 DEF Runs, Rests
    <3> QED BY <3>2, <3>3
  <2>6. AttackIsPrompt'
    <3>1. \A i \in DOMAIN inbox : inbox[i].cmd = "attack" => inbox[i].army # a
      BY <1>1, <2>1 DEF AttackIsPrompt
    <3>2. \A i \in DOMAIN inbox : inbox[i].army \in Army
      BY InboxFacts DEF OrdersInv, AlwaysInv
    <3> QED BY <1>1, <1>2, <2>1, <3>1, <3>2 DEF AttackIsPrompt, Runs
  <2> QED BY <2>3, <2>4, <2>5, <2>6
<1> QED BY <1>5, <1>6, <1>7 DEF MailInv, CrashFreeInv, TimelyInv

\* The world takes an order out of its mailbox.
LEMMA TakenOrder ==
  ASSUME OrdersInv, HandleOrder
  PROVE  /\ InboxOrdered'
         /\ Head(inbox) = inbox[1] /\ 1 \in DOMAIN inbox /\ Head(inbox) \in OrderMsg
         /\ OnTime => Head(inbox).id \in waiting
         /\ \A i \in DOMAIN inbox' :
              inbox'[i] = inbox[i + 1] /\ i + 1 \in DOMAIN inbox
         /\ UNCHANGED <<orders, views, pushes, stored, timeouts, crashes>>
<1>1. /\ inbox \in Seq(OrderMsg) /\ inbox # <<>>
      /\ inbox' = Tail(inbox) /\ waiting' = waiting \ {Head(inbox).id}
      /\ UNCHANGED <<orders, views, pushes, stored, timeouts, crashes>>
      /\ InboxOrdered
  BY DEF HandleOrder, OrdersInv, AlwaysInv, OrdersTypeOK, MailInv, boundVars
<1>2. /\ Head(inbox) = inbox[1] /\ 1 \in DOMAIN inbox /\ Head(inbox) \in OrderMsg
      /\ DOMAIN inbox' = 1 .. Len(inbox) - 1
      /\ \A i \in DOMAIN inbox' :
           inbox'[i] = inbox[i + 1] /\ i + 1 \in DOMAIN inbox
  BY <1>1, QueueFacts
<1>3. OnTime => Head(inbox).id \in waiting
  BY <1>1, <1>2 DEF InboxOrdered
<1>4. \A i \in DOMAIN inbox' : inbox'[i].id # Head(inbox).id
  <2> SUFFICES ASSUME NEW i \in DOMAIN inbox'
               PROVE  inbox[i + 1].id # inbox[1].id
    BY <1>2
  <2>1. inbox[1].id < inbox[i + 1].id
    BY <1>1, <1>2 DEF InboxOrdered
  <2>2. inbox[1].id \in Nat /\ inbox[i + 1].id \in Nat
    BY <1>2, InboxFacts DEF OrdersInv, AlwaysInv
  <2> QED BY <2>1, <2>2
<1>5. \A i, j \in DOMAIN inbox' : i < j => inbox'[i].id < inbox'[j].id
  BY <1>1, <1>2 DEF InboxOrdered
<1>6. \A i \in DOMAIN inbox' : inbox'[i].id <= orders'
  BY <1>1, <1>2 DEF InboxOrdered
<1>7. OnTime' => \A i \in DOMAIN inbox' : inbox'[i].id \in waiting'
  BY <1>1, <1>2, <1>4 DEF InboxOrdered, OnTime
<1>8. InboxOrdered'
  BY <1>5, <1>6, <1>7 DEF InboxOrdered
<1> QED BY <1>1, <1>2, <1>3, <1>8

\* The world refuses an order.
LEMMA RefuseMail ==
  ASSUME OrdersInv, HandleOrder, Refuse(Head(inbox))
  PROVE  MailInv'
<1>1. /\ UNCHANGED <<armies, marches, views, pushes, replies, timeouts, crashes>>
      /\ InboxOrdered'
      /\ \A i \in DOMAIN inbox' :
           inbox'[i] = inbox[i + 1] /\ i + 1 \in DOMAIN inbox
  BY TakenOrder DEF Refuse, worldVars
<1>2. MailSays' /\ CrashFreeInv'
  BY <1>1 DEF OrdersInv, MailInv, MailSays, CrashFreeInv, FrozenIsOut,
              UnknownIsQuiet, RestIsTold, Runs, Rests, NoCrash, ReportOf
<1>3. ASSUME (OnTime /\ NoCrash)'
      PROVE  (MarchIsTold /\ HomeIsLast /\ IdleIsHome /\ AttackIsPrompt)'
  <2>1. MarchIsTold /\ HomeIsLast /\ IdleIsHome /\ AttackIsPrompt
    BY <1>1, <1>3 DEF OrdersInv, MailInv, TimelyInv, OnTime, NoCrash
  <2>2. (MarchIsTold /\ HomeIsLast /\ IdleIsHome)'
    BY <1>1, <2>1 DEF MarchIsTold, HomeIsLast, IdleIsHome, Runs, Rests
  <2>3. AttackIsPrompt'
    BY <1>1, <2>1 DEF AttackIsPrompt, Runs
  <2> QED BY <2>2, <2>3
<1> QED BY <1>1, <1>2, <1>3 DEF MailInv, TimelyInv

\* The world carries out an order.
LEMMA AcceptMail ==
  ASSUME OrdersInv, HandleOrder, NEW o \in OrderMsg, o = Head(inbox),
         NEW a \in Army, a = o.army, Accept(o)
  PROVE  MailInv'
<1>1. /\ UNCHANGED <<views, pushes, timeouts, crashes>>
      /\ InboxOrdered' /\ o = inbox[1] /\ 1 \in DOMAIN inbox
      /\ OnTime => o.id \in waiting
      /\ \A i \in DOMAIN inbox' :
           inbox'[i] = inbox[i + 1] /\ i + 1 \in DOMAIN inbox
      /\ orders' = orders /\ OrdersTypeOK /\ MarchInv
  BY TakenOrder DEF OrdersInv, AlwaysInv
<1>2. /\ Runs(a)' /\ armies'[a].cmd = o.cmd /\ armies'[a] # None
      /\ marches'[a] # None /\ marches'[a].age = 0
      /\ o.cmd = "back" => Runs(a)
      /\ \A b \in Army \ {a} :
           armies'[b] = armies[b] /\ marches'[b] = marches[b]
      /\ ReportOf(armies'[a]) \in Report
  <2>1. /\ Runs(a)' /\ armies'[a].cmd = o.cmd /\ armies'[a] \in ArmyState
        /\ marches'[a] # None /\ marches'[a].age = 0
        /\ o.cmd = "back" => Runs(a)
        /\ \A b \in Army \ {a} :
             armies'[b] = armies[b] /\ marches'[b] = marches[b]
    BY <1>1, AcceptArmy
  <2>2. ReportOf(armies'[a]) \in Report
    BY <2>1, ReportType
  <2> QED BY <2>1, <2>2 DEF Runs
<1>3. a \in Army /\ o.cmd \in {"attack", "back"} /\ replies[a] \in Seq(Report)
  BY <1>1 DEF OrderMsg, OrdersInv, AlwaysInv, OrdersTypeOK
<1>4. replies' = IF o.id \in waiting
                 THEN [replies EXCEPT ![a] = Append(@, ReportOf(armies'[a]))]
                 ELSE replies
  BY <1>1 DEF Accept
<1>5. replies \in [Army -> Seq(Report)]
  BY DEF OrdersInv, AlwaysInv, OrdersTypeOK
<1>6. /\ \A b \in Army \ {a} : replies'[b] = replies[b]
      /\ \/ replies'[a] = replies[a] /\ ~OnTime
         \/ replies'[a] = Append(replies[a], ReportOf(armies'[a]))
  BY <1>1, <1>3, <1>4, <1>5
<1>7. ReportOf(armies'[a]).cmd = o.cmd
  BY <1>2 DEF ReportOf
<1>8. LET q == Append(replies[a], ReportOf(armies'[a])) IN
      /\ q # <<>> /\ LastOf(q) = ReportOf(armies'[a])
      /\ \A i \in DOMAIN q :
           \/ q[i].cmd = o.cmd
           \/ i \in DOMAIN replies[a] /\ q[i] = replies[a][i]
  <2> DEFINE m == ReportOf(armies'[a])
             p == replies[a]
  <2>1. m \in Report /\ p \in Seq(Report) /\ m.cmd = o.cmd
    BY <1>2, <1>3, <1>7
  <2> HIDE DEF m, p
  <2>2. /\ Append(p, m) # <<>> /\ Len(Append(p, m)) = Len(p) + 1
        /\ DOMAIN p = 1 .. Len(p) /\ DOMAIN Append(p, m) = 1 .. Len(p) + 1
        /\ \A i \in DOMAIN p : Append(p, m)[i] = p[i]
        /\ Append(p, m)[Len(p) + 1] = m /\ Len(p) \in Nat
    BY <2>1, AddedFacts
  <2>3. LastOf(Append(p, m)) = m
    BY <2>2 DEF LastOf
  <2>4. \A i \in DOMAIN Append(p, m) :
          \/ Append(p, m)[i].cmd = o.cmd
          \/ i \in DOMAIN p /\ Append(p, m)[i] = p[i]
    <3> SUFFICES ASSUME NEW i \in DOMAIN Append(p, m)
                 PROVE  \/ Append(p, m)[i].cmd = o.cmd
                        \/ i \in DOMAIN p /\ Append(p, m)[i] = p[i]
      OBVIOUS
    <3>1. i \in DOMAIN p \/ i = Len(p) + 1
      BY <2>2
    <3>2. CASE i = Len(p) + 1
      <4>1. Append(p, m)[i] = m
        BY <2>2, <3>2
      <4> QED BY <2>1, <4>1
    <3> QED BY <2>2, <3>1, <3>2
  <2> QED BY <2>2, <2>3, <2>4 DEF m, p
<1>9. MailSays'
  <2> SUFFICES ASSUME NEW b \in Army
               PROVE  \A i \in DOMAIN replies'[b] : replies'[b][i].cmd # "idle"
    BY <1>1 DEF OrdersInv, MailInv, MailSays
  <2>1. \A i \in DOMAIN replies[b] : replies[b][i].cmd # "idle"
    BY DEF OrdersInv, MailInv, MailSays
  <2>2. CASE replies'[b] = replies[b]
    BY <2>1, <2>2
  <2>3. CASE b = a /\ replies'[a] = Append(replies[a], ReportOf(armies'[a]))
    BY <1>3, <1>8, <2>1, <2>3
  <2> QED BY <1>6, <2>2, <2>3
<1>10. ASSUME NoCrash' PROVE (FrozenIsOut /\ UnknownIsQuiet /\ RestIsTold)'
  <2>1. FrozenIsOut /\ UnknownIsQuiet /\ RestIsTold
    BY <1>1, <1>10 DEF OrdersInv, MailInv, CrashFreeInv, NoCrash
  <2>2. ~Rests(a)'
    BY <1>2 DEF Runs, Rests
  <2>3. FrozenIsOut'
    <3> SUFFICES ASSUME NEW b \in Army, views[b].frozen \/ replies'[b] # <<>>
                 PROVE  Runs(b)' \/ pushes[b] # <<>>
      BY <1>1 DEF FrozenIsOut
    <3>1. CASE b = a
      BY <1>2, <3>1
    <3>2. CASE b # a
      BY <1>2, <1>6, <2>1, <3>2 DEF FrozenIsOut, Runs
    <3> QED BY <3>1, <3>2
  <2>4. UnknownIsQuiet'
    BY <1>1, <1>2, <2>1 DEF UnknownIsQuiet
  <2>5. RestIsTold'
    <3> SUFFICES ASSUME NEW b \in Army, Rests(b)'
                 PROVE  IF pushes[b] = <<>>
                        THEN views[b] = [report |-> ReportOf(armies'[b]),
                                         frozen |-> FALSE]
                        ELSE LastOf(pushes[b]) = ReportOf(armies'[b])
      BY <1>1 DEF RestIsTold, LastOf, ReportOf
    <3>1. b # a
      BY <2>2
    <3>2. armies'[b] = armies[b] /\ Rests(b)
      BY <1>2, <3>1 DEF Rests
    <3> QED BY <2>1, <3>2 DEF RestIsTold
  <2> QED BY <2>3, <2>4, <2>5
<1>11. ASSUME (OnTime /\ NoCrash)'
       PROVE  (MarchIsTold /\ HomeIsLast /\ IdleIsHome /\ AttackIsPrompt)'
  <2>1. /\ MarchIsTold /\ HomeIsLast /\ IdleIsHome /\ AttackIsPrompt
        /\ OnTime
    BY <1>1, <1>11 DEF OrdersInv, MailInv, TimelyInv, OnTime, NoCrash
  <2>2. replies'[a] # <<>> /\ LastOf(replies'[a]).cmd = o.cmd
    BY <1>6, <1>7, <1>8, <2>1
  <2>3. pushes[a] # <<>> => o.cmd = "back"
    BY <1>1, <1>3, <2>1 DEF AttackIsPrompt
  <2>4. MarchIsTold'
    <3> SUFFICES ASSUME NEW b \in Army, Runs(b)'
                 PROVE  /\ pushes'[b] # <<>> => armies'[b].cmd = "back"
                        /\ pushes'[b] = <<>> /\ replies'[b] # <<>> =>
                             LastOf(replies'[b]).cmd = armies'[b].cmd
                        /\ pushes'[b] = <<>> /\ replies'[b] = <<>> =>
                             /\ views'[b].report.cmd = armies'[b].cmd
                             /\ armies'[b].cmd = "attack" => views'[b].frozen
      BY DEF MarchIsTold, LastOf
    <3>1. CASE b = a
      BY <1>1, <1>2, <2>2, <2>3, <3>1
    <3>2. CASE b # a
      <4>1. Runs(b)
        BY <1>2, <3>2 DEF Runs
      <4> QED BY <1>1, <1>2, <1>6, <2>1, <3>2, <4>1 DEF MarchIsTold
    <3> QED BY <3>1, <3>2
  <2>5. HomeIsLast'
    <3> SUFFICES ASSUME NEW b \in Army, NEW i \in DOMAIN pushes[b],
                        pushes[b][i].cmd = "idle"
                 PROVE  i = Len(pushes[b]) /\ Rests(b)'
      BY <1>1 DEF HomeIsLast
    <3>1. i = Len(pushes[b]) /\ Rests(b)
      BY <2>1 DEF HomeIsLast
    <3>2. b # a
      <4>1. ASSUME b = a PROVE pushes[a] # <<>>
        BY <1>5, <4>1, EmptySeq
           DEF OrdersInv, AlwaysInv, OrdersTypeOK
      <4> QED BY <1>2, <2>3, <3>1, <4>1 DEF Runs, Rests
    <3> QED BY <1>2, <3>1, <3>2 DEF Rests
  <2>6. IdleIsHome'
    <3> SUFFICES ASSUME NEW b \in Army, views[b].report.cmd = "idle",
                        replies'[b] = <<>>
                 PROVE  pushes[b] = <<>> /\ ~Runs(b)'
      BY <1>1 DEF IdleIsHome
    <3>1. b # a
      BY <2>2
    <3> QED BY <1>2, <1>6, <2>1, <3>1 DEF IdleIsHome, Runs
  <2>7. AttackIsPrompt'
    <3> SUFFICES ASSUME NEW i \in DOMAIN inbox', inbox'[i].cmd = "attack"
                 PROVE  LET b == inbox'[i].army IN
                        /\ pushes'[b] = <<>>
                        /\ armies'[b] # None /\ armies'[b].running =>
                             marches'[b] # None /\ marches'[b].age = 0
      BY DEF AttackIsPrompt, Runs
    <3> DEFINE b == inbox[i + 1].army
    <3>1. /\ inbox'[i].army = b
          /\ pushes[b] = <<>>
          /\ Runs(b) => marches[b] # None /\ marches[b].age = 0
      BY <1>1, <2>1 DEF AttackIsPrompt
    <3>2. b \in Army
      BY <1>1, InboxFacts DEF OrdersInv, AlwaysInv
    <3> HIDE DEF b
    <3>3. CASE b = a
      BY <1>1, <1>2, <3>1, <3>3
    <3>4. CASE b # a
      BY <1>1, <1>2, <3>1, <3>2, <3>4 DEF Runs
    <3> QED BY <3>3, <3>4
  <2> QED BY <2>4, <2>5, <2>6, <2>7
<1> QED BY <1>1, <1>9, <1>10, <1>11 DEF MailInv, CrashFreeInv, TimelyInv

\* The world tells players what became of the armies that arrived.
LEMMA TickMail ==
  ASSUME OrdersInv, TickAndPush
  PROVE  MailInv'
<1>1. /\ UNCHANGED <<views, inbox, waiting, orders, replies, timeouts, crashes>>
      /\ MarchInv /\ Tick /\ pushes \in [Army -> Seq(Report)]
  BY DEF TickAndPush, boundVars, OrdersInv, AlwaysInv, OrdersTypeOK
<1>2. ASSUME NEW a \in Army, a \notin Reported
      PROVE  armies'[a] = armies[a] /\ pushes'[a] = pushes[a]
  BY <1>1, <1>2, TickReports DEF TickAndPush
<1>3. ASSUME NEW a \in Army, a \in Reported
      PROVE  /\ Runs(a) /\ marches[a].age = MarchTime /\ armies'[a] # None
             /\ \/ Runs(a)' /\ armies'[a].cmd = "back"
                \/ Rests(a)' /\ armies'[a].cmd = "idle"
             /\ pushes'[a] # <<>> /\ LastOf(pushes'[a]) = ReportOf(armies'[a])
             /\ \A i \in DOMAIN pushes'[a] :
                  \/ i = Len(pushes'[a]) /\ pushes'[a][i] = ReportOf(armies'[a])
                  \/ i \in DOMAIN pushes[a] /\ pushes'[a][i] = pushes[a][i]
  <2>1. /\ Runs(a) /\ marches[a].age = MarchTime /\ armies'[a] # None
        /\ \/ Runs(a)' /\ armies'[a].cmd = "back"
           \/ Rests(a)' /\ armies'[a].cmd = "idle"
        /\ armies'[a] \in ArmyState
    BY <1>1, <1>3, TickReports
  <2> DEFINE m == ReportOf(armies'[a])
  <2>2. m \in Report /\ pushes[a] \in Seq(Report)
    BY <1>1, <2>1, ReportType
  <2>3. pushes'[a] = Append(pushes[a], m)
    BY <1>3 DEF TickAndPush
  <2> HIDE DEF m
  <2>4. /\ Append(pushes[a], m) # <<>>
        /\ Len(Append(pushes[a], m)) = Len(pushes[a]) + 1
        /\ DOMAIN pushes[a] = 1 .. Len(pushes[a]) /\ Len(pushes[a]) \in Nat
        /\ DOMAIN Append(pushes[a], m) = 1 .. Len(pushes[a]) + 1
        /\ \A i \in DOMAIN pushes[a] : Append(pushes[a], m)[i] = pushes[a][i]
        /\ Append(pushes[a], m)[Len(pushes[a]) + 1] = m
    BY <2>2, AddedFacts
  <2>5. \A i \in DOMAIN Append(pushes[a], m) :
          i \in DOMAIN pushes[a] \/ i = Len(Append(pushes[a], m))
    BY <2>4
  <2> QED BY <2>1, <2>3, <2>4, <2>5 DEF LastOf, m
<1>4. InboxOrdered'
  BY <1>1 DEF OrdersInv, MailInv, InboxOrdered, OnTime
<1>5. MailSays'
  <2> SUFFICES ASSUME NEW a \in Army, NEW i \in DOMAIN pushes'[a]
               PROVE  pushes'[a][i].cmd # "attack"
    BY <1>1 DEF OrdersInv, MailInv, MailSays
  <2>1. \A j \in DOMAIN pushes[a] : pushes[a][j].cmd # "attack"
    BY DEF OrdersInv, MailInv, MailSays
  <2>2. CASE a \in Reported
    <3>1. armies'[a].cmd # "attack"
      BY <1>3, <2>2
    <3>2. ReportOf(armies'[a]).cmd # "attack"
      BY <3>1 DEF ReportOf
    <3> QED BY <1>3, <2>1, <2>2, <3>2
  <2>3. CASE a \notin Reported
    BY <1>2, <2>1, <2>3
  <2> QED BY <2>2, <2>3
<1>6. ASSUME NoCrash' PROVE (FrozenIsOut /\ UnknownIsQuiet /\ RestIsTold)'
  <2>1. FrozenIsOut /\ UnknownIsQuiet /\ RestIsTold
    BY <1>1, <1>6 DEF OrdersInv, MailInv, CrashFreeInv, NoCrash
  <2>2. FrozenIsOut'
    <3> SUFFICES ASSUME NEW a \in Army, views[a].frozen \/ replies[a] # <<>>
                 PROVE  Runs(a)' \/ pushes'[a] # <<>>
      BY <1>1 DEF FrozenIsOut
    <3>1. CASE a \in Reported
      BY <1>3, <3>1
    <3>2. CASE a \notin Reported
      BY <1>2, <2>1, <3>2 DEF FrozenIsOut, Runs
    <3> QED BY <3>1, <3>2
  <2>3. UnknownIsQuiet'
    BY <1>2, <1>3, <2>1 DEF UnknownIsQuiet
  <2>4. RestIsTold'
    <3> SUFFICES ASSUME NEW a \in Army, Rests(a)'
                 PROVE  IF pushes'[a] = <<>>
                        THEN views[a] = [report |-> ReportOf(armies'[a]),
                                         frozen |-> FALSE]
                        ELSE LastOf(pushes'[a]) = ReportOf(armies'[a])
      BY <1>1 DEF RestIsTold, LastOf, ReportOf
    <3>1. CASE a \in Reported
      BY <1>3, <3>1
    <3>2. CASE a \notin Reported
      <4>1. Rests(a) /\ armies'[a] = armies[a] /\ pushes'[a] = pushes[a]
        BY <1>2, <3>2 DEF Rests
      <4> QED BY <2>1, <4>1 DEF RestIsTold
    <3> QED BY <3>1, <3>2
  <2> QED BY <2>2, <2>3, <2>4
<1>7. ASSUME (OnTime /\ NoCrash)'
      PROVE  (MarchIsTold /\ HomeIsLast /\ IdleIsHome /\ AttackIsPrompt)'
  <2>1. MarchIsTold /\ HomeIsLast /\ IdleIsHome /\ AttackIsPrompt
    BY <1>1, <1>7 DEF OrdersInv, MailInv, TimelyInv, OnTime, NoCrash
  <2>2. MarchIsTold'
    <3> SUFFICES ASSUME NEW a \in Army, Runs(a)'
                 PROVE  /\ pushes'[a] # <<>> => armies'[a].cmd = "back"
                        /\ pushes'[a] = <<>> /\ replies[a] # <<>> =>
                             LastOf(replies[a]).cmd = armies'[a].cmd
                        /\ pushes'[a] = <<>> /\ replies[a] = <<>> =>
                             /\ views[a].report.cmd = armies'[a].cmd
                             /\ armies'[a].cmd = "attack" => views[a].frozen
      BY <1>1 DEF MarchIsTold, LastOf
    <3>1. CASE a \in Reported
      BY <1>3, <3>1 DEF Runs, Rests
    <3>2. CASE a \notin Reported
      <4>1. Runs(a) /\ armies'[a] = armies[a] /\ pushes'[a] = pushes[a]
        BY <1>2, <3>2 DEF Runs
      <4> QED BY <2>1, <4>1 DEF MarchIsTold
    <3> QED BY <3>1, <3>2
  <2>3. HomeIsLast'
    <3> SUFFICES ASSUME NEW a \in Army, NEW i \in DOMAIN pushes'[a],
                        pushes'[a][i].cmd = "idle"
                 PROVE  i = Len(pushes'[a]) /\ Rests(a)'
      BY DEF HomeIsLast
    <3>1. CASE a \in Reported
      <4>1. i \notin DOMAIN pushes[a] \/ pushes[a][i].cmd # "idle"
        BY <1>3, <2>1, <3>1 DEF HomeIsLast, Runs, Rests
      <4>2. i = Len(pushes'[a]) /\ pushes'[a][i] = ReportOf(armies'[a])
        BY <1>3, <3>1, <4>1
      <4>3. armies'[a].cmd = "idle"
        BY <4>2 DEF ReportOf
      <4> QED BY <1>3, <3>1, <4>2, <4>3
    <3>2. CASE a \notin Reported
      <4>1. armies'[a] = armies[a] /\ pushes'[a] = pushes[a]
        BY <1>2, <3>2
      <4> QED BY <2>1, <4>1 DEF HomeIsLast, Rests
    <3> QED BY <3>1, <3>2
  <2>4. IdleIsHome'
    <3> SUFFICES ASSUME NEW a \in Army, views[a].report.cmd = "idle",
                        replies[a] = <<>>
                 PROVE  pushes'[a] = <<>> /\ ~Runs(a)'
      BY <1>1 DEF IdleIsHome
    <3>1. pushes[a] = <<>> /\ ~Runs(a)
      BY <2>1 DEF IdleIsHome
    <3>2. a \notin Reported
      BY <1>3, <3>1
    <3> QED BY <1>2, <3>1, <3>2 DEF Runs
  <2>5. AttackIsPrompt'
    <3> SUFFICES ASSUME NEW a \in Army,
                        NEW i \in DOMAIN inbox, inbox[i].army = a,
                        inbox[i].cmd = "attack"
                 PROVE  /\ pushes'[a] = <<>>
                        /\ Runs(a)' => marches'[a] # None /\ marches'[a].age = 0
      <4>1. \A i \in DOMAIN inbox : inbox[i].army \in Army
        BY InboxFacts DEF OrdersInv, AlwaysInv
      <4> QED BY <1>1, <4>1 DEF AttackIsPrompt, Runs
    <3>1. /\ pushes[a] = <<>>
          /\ Runs(a) => marches[a] # None /\ marches[a].age = 0
      BY <2>1 DEF AttackIsPrompt
    <3>2. a \notin Arrived
      <4>1. MarchTime # 0
        BY WorldOK
      <4> QED BY <1>1, <3>1, <4>1
              DEF Arrived, MarchInv, MarchesMatchArmies, Runs
    <3>3. a \notin Reported
      BY <3>2 DEF Reported, Turning, Landing
    <3>4. marches'[a] = marches[a]
      BY <1>1, <3>2, TickReports
    <3> QED BY <1>2, <3>1, <3>3, <3>4 DEF Runs
  <2> QED BY <2>2, <2>3, <2>4, <2>5
<1> QED BY <1>4, <1>5, <1>6, <1>7 DEF MailInv, CrashFreeInv, TimelyInv

\* Time passes, when no answer is waited for.
LEMMA TimePassesMail ==
  ASSUME OrdersInv, TimePasses
  PROVE  MailInv'
<1>1. /\ UNCHANGED <<views, inbox, waiting, orders, replies, pushes, timeouts, crashes>>
      /\ waiting = {} /\ Elapse /\ MarchInv
  BY DEF TimePasses, mailVars, boundVars, OrdersInv, AlwaysInv
<1>2. \A a \in Army :
        /\ Runs(a)' <=> Runs(a)
        /\ Rests(a)' <=> Rests(a)
        /\ (armies'[a] = None) <=> (armies[a] = None)
        /\ Runs(a) => armies'[a].cmd = armies[a].cmd
        /\ Rests(a) => armies'[a] = armies[a]
  BY <1>1, ElapseArmy
<1>3. InboxOrdered' /\ MailSays'
  <2>1. InboxOrdered'
    BY <1>1 DEF OrdersInv, MailInv, InboxOrdered, OnTime
  <2> QED BY <1>1, <2>1 DEF OrdersInv, MailInv, MailSays
<1>4. ASSUME NoCrash' PROVE (FrozenIsOut /\ UnknownIsQuiet /\ RestIsTold)'
  <2>1. FrozenIsOut /\ UnknownIsQuiet /\ RestIsTold
    BY <1>1, <1>4 DEF OrdersInv, MailInv, CrashFreeInv, NoCrash
  <2>2. FrozenIsOut' /\ UnknownIsQuiet'
    BY <1>1, <1>2, <2>1 DEF FrozenIsOut, UnknownIsQuiet
  <2>3. RestIsTold'
    BY <1>1, <1>2, <2>1 DEF RestIsTold, ReportOf, LastOf
  <2> QED BY <2>2, <2>3
<1>5. ASSUME (OnTime /\ NoCrash)'
      PROVE  (MarchIsTold /\ HomeIsLast /\ IdleIsHome /\ AttackIsPrompt)'
  <2>1. /\ MarchIsTold /\ HomeIsLast /\ IdleIsHome /\ OnTime
    BY <1>1, <1>5 DEF OrdersInv, MailInv, TimelyInv, OnTime, NoCrash
  <2>2. MarchIsTold'
    BY <1>1, <1>2, <2>1 DEF MarchIsTold, LastOf
  <2>3. HomeIsLast' /\ IdleIsHome'
    BY <1>1, <1>2, <2>1 DEF HomeIsLast, IdleIsHome
  <2>4. DOMAIN inbox' = {}
    BY <1>1, <2>1 DEF OrdersInv, MailInv, InboxOrdered
  <2>5. AttackIsPrompt'
    BY <2>4 DEF AttackIsPrompt
  <2> QED BY <2>2, <2>3, <2>5
<1> QED BY <1>3, <1>4, <1>5 DEF MailInv, CrashFreeInv, TimelyInv

\* A request is given up, or the process crashes: from then on only the
\* weaker parts are claimed.
LEMMA FaultMail ==
  ASSUME OrdersInv, (\E n \in waiting : TimeOut(n)) \/ Crash
  PROVE  MailInv'
<1>1. CASE \E n \in waiting : TimeOut(n)
  <2>1. /\ UNCHANGED <<armies, marches, views, inbox, orders, replies, pushes, crashes>>
        /\ timeouts' = timeouts + 1 /\ timeouts \in Nat
    BY <1>1 DEF TimeOut, marchVars, worldVars, OrdersInv, AlwaysInv, OrdersTypeOK
  <2>2. ~OnTime'
    BY <2>1 DEF OnTime
  <2>3. InboxOrdered'
    BY <2>1, <2>2 DEF OrdersInv, MailInv, InboxOrdered
  <2>4. MailSays' /\ CrashFreeInv'
    BY <2>1 DEF OrdersInv, MailInv, MailSays, CrashFreeInv, FrozenIsOut,
                UnknownIsQuiet, RestIsTold, Runs, Rests, NoCrash, ReportOf
  <2> QED BY <2>2, <2>3, <2>4 DEF MailInv, TimelyInv
<1>2. CASE Crash
  <2>1. /\ inbox' = <<>> /\ crashes' = crashes + 1 /\ crashes \in Nat
        /\ replies' = [a \in Army |-> <<>>] /\ pushes' = [a \in Army |-> <<>>]
    BY <1>2 DEF Crash, OrdersInv, AlwaysInv, OrdersTypeOK
  <2>2. ~NoCrash' /\ InboxOrdered' /\ MailSays'
    BY <2>1 DEF NoCrash, InboxOrdered, MailSays
  <2> QED BY <2>2 DEF MailInv, CrashFreeInv, TimelyInv
<1> QED BY <1>1, <1>2

\* Nothing of this changes.
LEMMA StillMail ==
  ASSUME OrdersInv,
         UNCHANGED <<armies, marches, orders, views, inbox, waiting, replies,
                     pushes, timeouts, crashes>>
  PROVE  MailInv'
<1>1. InboxOrdered' /\ MailSays' /\ CrashFreeInv'
  BY DEF OrdersInv, MailInv, InboxOrdered, MailSays, CrashFreeInv, FrozenIsOut,
         UnknownIsQuiet, RestIsTold, Runs, Rests, NoCrash, ReportOf, OnTime
<1>2. TimelyInv'
  BY DEF OrdersInv, MailInv, TimelyInv, MarchIsTold, HomeIsLast, IdleIsHome,
         AttackIsPrompt, Runs, Rests, NoCrash, OnTime
<1> QED BY <1>1, <1>2 DEF MailInv

LEMMA OrdersInvStep ==
  OrdersInv /\ [OrdersNext]_orderVars => OrdersInv'
<1> SUFFICES ASSUME OrdersInv, [OrdersNext]_orderVars
             PROVE  MailInv'
  BY WorldStep, OrdersTypeStep DEF OrdersInv, AlwaysInv
<1>1. CASE \E a \in Army, x \in Cell : AssignAttack(a, x)
  BY <1>1, SendMail DEF AssignAttack
<1>2. CASE \E a \in Army : AssignBack(a)
  BY <1>2, CellFacts, SendMail DEF AssignBack
<1>3. CASE \E a \in Army : Resume(a)
  BY <1>3, ResumeMail
<1>4. CASE \E a \in Army : ReceivePush(a)
  BY <1>4, ReceivePushMail
<1>5. CASE HandleOrder
  <2>1. Head(inbox) \in OrderMsg
    BY <1>5, TakenOrder
  <2>2. Head(inbox).army \in Army
    BY <2>1 DEF OrderMsg
  <2> QED BY <1>5, <2>1, <2>2, AcceptMail, RefuseMail DEF HandleOrder
<1>6. CASE TickAndPush
  BY <1>6, TickMail
<1>7. CASE TimePasses
  BY <1>7, TimePassesMail
<1>8. CASE (\E n \in waiting : TimeOut(n)) \/ Crash
  BY <1>8, FaultMail
<1>9. CASE Store \/ UNCHANGED orderVars
  BY <1>9, StillMail DEF Store, orderVars, marchVars, worldVars, mailVars, boundVars
<1> QED BY <1>1, <1>2, <1>3, <1>4, <1>5, <1>6, <1>7, <1>8, <1>9 DEF OrdersNext

LEMMA OrdersInvInit ==
  OrdersInit => OrdersInv
<1> SUFFICES ASSUME OrdersInit PROVE OrdersInv
  OBVIOUS
<1>1. MarchInv /\ armies = [a \in Army |-> None]
  BY MarchInvInit DEF OrdersInit, MarchInit
<1>2. <<>> \in Seq(OrderMsg) /\ <<>> \in Seq(Report)
  BY EmptySeq
<1>3. views \in [Army -> View]
  BY CellFacts DEF OrdersInit, View, Report
<1>4. /\ stored.armies = armies /\ stored.marches = marches
      /\ stored.cellToMarch = cellToMarch
      /\ stored \in Stored
  BY <1>1, <1>3 DEF OrdersInit, Stored, MarchInv, MarchTypeOK
<1>5. StoredTables
  BY <1>1, <1>4, MarchInvIsTablesInv DEF StoredTables
<1>6. OrdersTypeOK
  BY <1>1, <1>2, <1>3, <1>4 DEF OrdersInit, OrdersTypeOK, MarchInv
<1>7. InboxOrdered /\ MailSays
  BY DEF OrdersInit, InboxOrdered, MailSays
<1>8. \A a \in Army : ~Runs(a) /\ ~Rests(a) /\ ~views[a].frozen
                      /\ replies[a] = <<>> /\ pushes[a] = <<>>
  BY <1>1 DEF OrdersInit, Runs, Rests
<1>9. CrashFreeInv
  BY <1>8 DEF CrashFreeInv, FrozenIsOut, UnknownIsQuiet, RestIsTold
<1>10. TimelyInv
  BY <1>8 DEF TimelyInv, MarchIsTold, HomeIsLast, IdleIsHome, AttackIsPrompt,
              OrdersInit
<1> QED BY <1>1, <1>5, <1>6, <1>7, <1>9, <1>10 DEF OrdersInv, AlwaysInv, MailInv

\* The inductive invariant of the orders: whatever is sent, answered, given
\* up, pushed, stored or lost in a crash.
THEOREM OrdersInvariance ==
  OrdersSpec => []OrdersInv
BY OrdersInvInit, OrdersInvStep, PTL DEF OrdersSpec

-----------------------------------------------------------------------------
(* What follows.                                                           *)

\* The mailboxes, the views and the documents of orders have their types.
THEOREM OrdersTypeCorrect ==
  OrdersSpec => []OrdersTypeOK
<1>1. OrdersInv => OrdersTypeOK
  BY DEF OrdersInv, AlwaysInv
<1> QED BY <1>1, OrdersInvariance, PTL

LEMMA QuietHasNoMail ==
  ASSUME NEW a \in Army, Quiet(a)
  PROVE  replies[a] = <<>> /\ pushes[a] = <<>>
BY DEF Quiet

\* AssignPreCheck and the continuation of an order: a frozen army is one that
\* the world has on its way or is about to be thawed, and an attack under way
\* is one its player cannot change.
THEOREM FrozenOnlyWhileOut ==
  OrdersSpec => []FrozenWhileOut
<1>1. OrdersInv => FrozenWhileOut
  <2> SUFFICES ASSUME OrdersInv PROVE FrozenWhileOut
    OBVIOUS
  <2>1. FrozenIsServed
    BY DEF OrdersInv, MailInv, CrashFreeInv, FrozenIsOut, FrozenIsServed, Runs
  <2>2. ASSUME OnTime, NoCrash PROVE AttackIsFrozen
    <3> SUFFICES ASSUME NEW a \in Army, armies[a] # None,
                        armies[a].cmd = "attack", Quiet(a)
                 PROVE  views[a].frozen
      BY DEF AttackIsFrozen
    <3>1. MarchIsTold /\ RunningUnderOrder
      BY <2>2 DEF OrdersInv, AlwaysInv, MailInv, TimelyInv, MarchInv
    <3>2. Runs(a)
      BY <3>1 DEF RunningUnderOrder, Runs
    <3>3. replies[a] = <<>> /\ pushes[a] = <<>>
      BY QuietHasNoMail
    <3> QED BY <3>1, <3>2, <3>3 DEF MarchIsTold
  <2> QED BY <2>1, <2>2 DEF FrozenWhileOut
<1> QED BY <1>1, OrdersInvariance, PTL

\* Answers, battles and homecomings reach a player in an order that leaves it
\* with the right view of each army.
THEOREM PlayersSeeTheWorld ==
  OrdersSpec => []ViewsAgree
<1>1. OrdersInv => ViewsAgree
  <2> SUFFICES ASSUME OrdersInv PROVE ViewsAgree
    OBVIOUS
  <2>1. RestingViewsAgree
    BY QuietHasNoMail DEF OrdersInv, MailInv, CrashFreeInv, RestIsTold,
                          RestingViewsAgree, Rests
  <2>2. QuietViewsAgree
    <3> SUFFICES ASSUME OnTime, NoCrash, NEW a \in Army, armies[a] # None, Quiet(a)
                 PROVE  views[a].report.cmd = armies[a].cmd
      BY DEF QuietViewsAgree
    <3>1. MarchIsTold /\ RestIsTold
      BY DEF OrdersInv, MailInv, TimelyInv, CrashFreeInv
    <3>2. replies[a] = <<>> /\ pushes[a] = <<>>
      BY QuietHasNoMail
    <3>3. CASE Runs(a)
      BY <3>1, <3>2, <3>3 DEF MarchIsTold
    <3>4. CASE Rests(a)
      <4>1. views[a] = [report |-> ReportOf(armies[a]), frozen |-> FALSE]
        BY <3>1, <3>2, <3>4 DEF RestIsTold
      <4> QED BY <4>1 DEF ReportOf
    <3> QED BY <3>3, <3>4 DEF Runs, Rests
  <2> QED BY <2>1, <2>2 DEF ViewsAgree
<1> QED BY <1>1, OrdersInvariance, PTL

\* The document of the world holds all tables of one moment: what comes back
\* from it after a crash agrees, and stays so.
THEOREM TablesSurviveCrash ==
  OrdersSpec => []MarchesSurviveCrash
<1>1. OrdersInv => MarchesSurviveCrash
  BY DEF OrdersInv, AlwaysInv, MarchInv, MarchesSurviveCrash
<1> QED BY <1>1, OrdersInvariance, PTL
=============================================================================
