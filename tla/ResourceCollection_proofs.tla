---------------------- MODULE ResourceCollection_proofs ---------------------
(***************************************************************************)
(* Proofs about ResourceCollection.                                        *)
(***************************************************************************)
EXTENDS ResourceCollection, SequenceTheorems, TLAPS

-----------------------------------------------------------------------------
(* Days.                                                                   *)

\* The definition of the quotient.
LEMMA Quotient ==
  ASSUME NEW x \in Int, NEW n \in Nat \ {0}
  PROVE  /\ x \div n \in Int
         /\ (x \div n) * n <= x /\ x < (x \div n) * n + n
<1>1. x \div n \in Int
  OBVIOUS
<1>2. (x \div n) * n <= x /\ x < (x \div n) * n + n
  OBVIOUS
<1> QED BY <1>1, <1>2

\* A greater factor gives a product that is greater by one factor or more.
LEMMA Multiples ==
  ASSUME NEW a \in Int, NEW b \in Int, a < b, NEW n \in Nat \ {0}
  PROVE  a * n \in Int /\ b * n \in Int /\ a * n + n <= b * n
<1>1. PICK d \in Nat : b = a + 1 + d
  <2>1. b - a - 1 \in Nat /\ b = a + 1 + (b - a - 1)
    OBVIOUS
  <2> QED BY <2>1
<1>2. b * n = a * n + n + d * n
  BY <1>1
<1>3. d * n \in Nat
  OBVIOUS
<1>4. a * n \in Int
  OBVIOUS
<1> QED BY <1>2, <1>3, <1>4

\* Days are numbers, and do not go back in time.
LEMMA DaysFollow ==
  ASSUME NEW t \in Int, NEW u \in Int, t <= u
  PROVE  Day(t) \in Int /\ Day(u) \in Int /\ Day(t) <= Day(u)
<1> DEFINE a == Day(t)
           b == Day(u)
<1>1. /\ a \in Int /\ b \in Int
      /\ a * DayLength <= t + Offset /\ u + Offset < b * DayLength + DayLength
  <2>1. t + Offset \in Int /\ u + Offset \in Int /\ DayLength \in Nat \ {0}
    BY CollectionAssumption
  <2> QED BY <2>1, Quotient DEF Day
<1> HIDE DEF a, b
<1>2. ~(b < a)
  <2>1. SUFFICES ASSUME b < a PROVE FALSE
    OBVIOUS
  <2>2. b * DayLength + DayLength <= a * DayLength /\ a * DayLength \in Int /\ b * DayLength \in Int
    BY <1>1, <2>1, Multiples, CollectionAssumption
  <2> QED BY <1>1, <2>2, CollectionAssumption
<1> QED BY <1>1, <1>2 DEF a, b

\* Midnight is of the day that it begins, and not after any time of it.
LEMMA Midnight ==
  ASSUME NEW t \in Int
  PROVE  /\ TodayZeroCST(t) \in Int
         /\ TodayZeroCST(t) <= t
         /\ Day(TodayZeroCST(t)) = Day(t)
<1> DEFINE d == Day(t)
           z == TodayZeroCST(t)
           e == Day(z)
<1>1. d \in Int /\ d * DayLength <= t + Offset
  BY Quotient, CollectionAssumption DEF Day
<1>2. d * DayLength \in Int /\ DayLength \in Nat \ {0} /\ Offset \in Int
  BY <1>1, CollectionAssumption
<1>3. z = d * DayLength - Offset
  BY DEF TodayZeroCST
<1> HIDE DEF d
<1>4. z \in Int /\ z <= t /\ z + Offset = d * DayLength
  BY <1>1, <1>2, <1>3
<1> HIDE DEF z
<1>5. e \in Int /\ e * DayLength <= d * DayLength /\ d * DayLength < e * DayLength + DayLength
  BY <1>2, <1>4, Quotient DEF Day
<1> HIDE DEF e
<1>6. ~(e < d) /\ ~(d < e)
  <2>1. ASSUME e < d PROVE FALSE
    <3>1. e * DayLength + DayLength <= d * DayLength /\ e * DayLength \in Int
      BY <1>1, <1>2, <1>5, <2>1, Multiples
    <3> QED BY <1>2, <1>5, <3>1
  <2>2. ASSUME d < e PROVE FALSE
    <3>1. d * DayLength + DayLength <= e * DayLength /\ e * DayLength \in Int
      BY <1>1, <1>2, <1>5, <2>2, Multiples
    <3> QED BY <1>2, <1>5, <3>1
  <2> QED BY <2>1, <2>2
<1>7. e = d
  BY <1>1, <1>5, <1>6
<1> QED BY <1>4, <1>7 DEF d, e, z

-----------------------------------------------------------------------------
(* The invariant.                                                          *)

\* The date of the last collection is not in the future, no collection is
\* later than it, those of its day have been counted, and without one the
\* count is zero.
Counted(p, now) ==
  /\ p.last <= now
  /\ p.opened <= now /\ Day(p.opened) <= Day(p.last)
  /\ \A i \in DOMAIN p.taken :
       /\ p.taken[i] <= p.last
       /\ Day(p.taken[i]) = Day(p.last) => Len(p.taken) - i < p.times
  /\ (\A i \in DOMAIN p.taken : Day(p.taken[i]) # Day(p.last)) => p.times = 0
  /\ Spaced(p)

CollectionInv ==
  CollectionTypeOK /\ Counted(player, clock) /\ Counted(stored, clock)

LEMMA PlayerFacts ==
  ASSUME NEW p \in Player
  PROVE  /\ p.times \in Nat /\ p.last \in Int /\ p.gold \in Nat /\ p.opened \in Nat
         /\ p.taken \in Seq(Nat) /\ Len(p.taken) \in Nat
         /\ DOMAIN p.taken = 1 .. Len(p.taken)
         /\ \A i \in DOMAIN p.taken : p.taken[i] \in Nat
<1>1. p.taken \in Seq(Nat)
  BY DEF Player
<1>2. Len(p.taken) \in Nat /\ DOMAIN p.taken = 1 .. Len(p.taken)
      /\ \A i \in DOMAIN p.taken : p.taken[i] \in Nat
  BY <1>1, LenProperties, ElementOfSeq
<1> QED BY <1>1, <1>2 DEF Player

\* What is counted stays counted while time goes on.
LEMMA CountedLater ==
  ASSUME NEW p \in Player, NEW now \in Nat, NEW later \in Nat, now <= later,
         Counted(p, now)
  PROVE  Counted(p, later)
BY PlayerFacts DEF Counted

LEMMA OpeningCounts ==
  ASSUME NEW p \in Player, NEW now \in Nat, Counted(p, now), p.times <= Limit,
         NEW q, q = [Opened(p, now) EXCEPT !.opened = now]
  PROVE  q \in Player /\ q.times <= Limit /\ Counted(q, now)
<1>1. /\ p.times \in Nat /\ p.last \in Int /\ p.gold \in Nat /\ p.opened \in Nat
      /\ p.taken \in Seq(Nat) /\ Len(p.taken) \in Nat
      /\ DOMAIN p.taken = 1 .. Len(p.taken)
      /\ \A i \in DOMAIN p.taken : p.taken[i] \in Nat
  BY PlayerFacts
<1>2. CASE Day(now) = Day(p.last)
  <2>1. q = [p EXCEPT !.opened = now]
    BY <1>2 DEF Opened, IsSameDayCST
  <2>2. /\ q \in Player /\ q.times = p.times /\ q.last = p.last
        /\ q.taken = p.taken /\ q.opened = now
    BY <2>1 DEF Player
  <2>3. Day(now) \in Int
    BY DaysFollow
  <2>4. Counted(q, now)
    <3>1. q.last <= now /\ q.opened <= now /\ Day(q.opened) <= Day(q.last)
      BY <1>1, <1>2, <2>2, <2>3 DEF Counted
    <3>2. Spaced(q)
      BY <2>2 DEF Counted, Spaced
    <3> QED BY <2>2, <3>1, <3>2 DEF Counted
  <2> QED BY <2>2, <2>4
<1>3. CASE Day(now) # Day(p.last)
  <2> DEFINE z == TodayZeroCST(now)
  <2>1. q = [[p EXCEPT !.last = z, !.times = 0] EXCEPT !.opened = now]
    BY <1>3 DEF Opened, IsSameDayCST
  <2>2. z \in Int /\ z <= now /\ Day(z) = Day(now)
    BY Midnight
  <2> HIDE DEF z
  <2>3. /\ q \in Player /\ q.times = 0 /\ q.last = z
        /\ q.taken = p.taken /\ q.opened = now
    <3>1. q = [times |-> 0, last |-> z, gold |-> p.gold, taken |-> p.taken, opened |-> now]
      BY <2>1 DEF Player
    <3>2. 0 \in Nat /\ z \in Int /\ now \in Nat
      BY <2>2
    <3>3. q \in Player
      <4>1. p.gold \in Nat /\ p.taken \in Seq(Nat)
        BY <1>1
      <4> QED BY ONLY <3>1, <3>2, <4>1 DEF Player
    <3> QED BY <3>1, <3>3
  <2>4. ASSUME NEW i \in DOMAIN p.taken
        PROVE  p.taken[i] <= z /\ Day(p.taken[i]) # Day(z)
    <3>1. p.taken[i] \in Int /\ p.taken[i] <= p.last /\ p.last <= now
      BY <1>1 DEF Counted
    <3>2. /\ Day(p.taken[i]) <= Day(p.last) /\ Day(p.last) <= Day(now)
          /\ Day(p.taken[i]) \in Int /\ Day(p.last) \in Int /\ Day(now) \in Int
      BY <1>1, <3>1, DaysFollow
    <3>3. Day(p.taken[i]) < Day(z)
      BY <1>3, <2>2, <3>2
    <3>4. ~(z <= p.taken[i])
      <4>1. SUFFICES ASSUME z <= p.taken[i] PROVE FALSE
        OBVIOUS
      <4>2. Day(z) <= Day(p.taken[i]) /\ Day(z) \in Int
        BY <2>2, <3>1, <4>1, DaysFollow
      <4> QED BY <3>2, <3>3, <4>2
    <3> QED BY <2>2, <3>1, <3>2, <3>3, <3>4
  <2>5. Day(now) \in Int
    BY DaysFollow
  <2>6. Counted(q, now)
    BY <2>2, <2>3, <2>4, <2>5 DEF Counted, Spaced
  <2> QED BY <2>3, <2>6, CollectionAssumption
<1> QED BY <1>2, <1>3

LEMMA NotLater ==
  ASSUME NEW t \in Int, NEW u \in Int, NEW v \in Int, NEW d \in Int,
         t <= u, u + d <= v
  PROVE  t + d <= v
OBVIOUS

LEMMA CollectingCounts ==
  ASSUME NEW p \in Player, NEW now \in Nat, Counted(p, now), p.times <= Limit,
         Collectable(p, now), NEW yield \in Nat,
         NEW q, q = [p EXCEPT !.last = now, !.times = @ + 1, !.gold = @ + yield,
                              !.taken = Append(@, now)]
  PROVE  q \in Player /\ q.times <= Limit /\ Counted(q, now)
<1>1. /\ p.times \in Nat /\ p.last \in Int /\ p.gold \in Nat /\ p.opened \in Nat
      /\ p.taken \in Seq(Nat) /\ Len(p.taken) \in Nat
      /\ DOMAIN p.taken = 1 .. Len(p.taken)
      /\ \A i \in DOMAIN p.taken : p.taken[i] \in Nat
  BY PlayerFacts
<1> DEFINE l == Len(p.taken)
<1>2. /\ Append(p.taken, now) \in Seq(Nat) /\ Len(Append(p.taken, now)) = l + 1
      /\ Append(p.taken, now)[l + 1] = now
      /\ \A i \in 1 .. l : Append(p.taken, now)[i] = p.taken[i]
  BY <1>1, AppendProperties
<1>3. /\ q \in Player /\ q.times = p.times + 1 /\ q.last = now
      /\ q.taken = Append(p.taken, now) /\ q.opened = p.opened
  <2>1. q = [times |-> p.times + 1, last |-> now, gold |-> p.gold + yield,
             taken |-> Append(p.taken, now), opened |-> p.opened]
    BY DEF Player
  <2>2. p.times + 1 \in Nat /\ now \in Int /\ p.gold + yield \in Nat
    BY <1>1
  <2> QED BY <1>1, <1>2, <2>1, <2>2 DEF Player
<1>4. /\ q.taken[l + 1] = now /\ \A i \in 1 .. l : q.taken[i] = p.taken[i]
      /\ Len(q.taken) = l + 1 /\ DOMAIN q.taken = 1 .. l + 1
  BY <1>2, <1>3, PlayerFacts
<1>5. p.times < Limit /\ (p.times = 0 \/ p.last + Interval <= now)
  BY DEF Collectable
<1>6. p.last <= now /\ Day(p.last) <= Day(now) /\ Day(p.last) \in Int /\ Day(now) \in Int
  BY <1>1, DaysFollow DEF Counted
<1>7. ASSUME NEW i \in 1 .. l
      PROVE  /\ p.taken[i] <= p.last
             /\ Day(p.taken[i]) = Day(now) =>
                  l - i < p.times /\ p.taken[i] + Interval <= now
  <2>1. p.taken[i] \in Nat /\ p.taken[i] <= p.last
    BY <1>1 DEF Counted
  <2>2. Day(p.taken[i]) \in Int /\ Day(p.taken[i]) <= Day(p.last)
    BY <1>1, <2>1, DaysFollow
  <2>3. ASSUME Day(p.taken[i]) = Day(now)
        PROVE  l - i < p.times /\ p.taken[i] + Interval <= now
    <3>1. Day(p.taken[i]) = Day(p.last)
      BY <1>6, <2>2, <2>3
    <3>2. l - i < p.times
      BY <1>1, <3>1 DEF Counted
    <3>3. p.times # 0
      BY <1>1, <3>2
    <3>4. p.last + Interval <= now
      BY <1>5, <3>3
    <3>5. p.taken[i] + Interval <= now
      <4>1. p.taken[i] \in Int /\ p.last \in Int /\ now \in Int /\ Interval \in Int
        BY <1>1, <2>1, CollectionAssumption
      <4> QED BY <2>1, <3>4, <4>1, NotLater
    <3> QED BY <3>2, <3>5
  <2> QED BY <2>1, <2>3
<1>8. l \in Nat
  BY <1>1
<1> HIDE DEF l
<1>9. Spaced(q)
  <2>1. SUFFICES ASSUME NEW i \in 1 .. l + 1, NEW j \in 1 .. l + 1, i < j,
                        Day(q.taken[i]) = Day(q.taken[j])
                 PROVE  q.taken[i] + Interval <= q.taken[j] /\ j - i < Limit
    BY <1>4 DEF Spaced, IsSameDayCST
  <2>2. i \in 1 .. l
    BY <1>8, <2>1
  <2>3. CASE j = l + 1
    <3>1. q.taken[i] + Interval <= q.taken[j] /\ l - i < p.times
      BY <1>4, <1>7, <2>1, <2>2, <2>3
    <3>2. j - i < Limit
      BY <1>1, <1>5, <1>8, <2>2, <2>3, <3>1, CollectionAssumption
    <3> QED BY <3>1, <3>2
  <2>4. CASE j # l + 1
    <3>1. j \in 1 .. l
      BY <1>8, <2>4
    <3> QED BY <1>1, <1>4, <2>1, <2>2, <3>1 DEF Counted, Spaced, IsSameDayCST, l
  <2> QED BY <2>3, <2>4
<1>10. Counted(q, now)
  <2>1. q.last <= now /\ q.opened <= now /\ Day(q.opened) <= Day(q.last)
    <3>1. Day(p.opened) <= Day(p.last) /\ p.opened <= now
      BY DEF Counted
    <3>2. Day(p.opened) \in Int
      BY <1>1, <3>1, DaysFollow
    <3> QED BY <1>3, <1>6, <3>1, <3>2
  <2>2. ASSUME NEW i \in 1 .. l + 1
        PROVE  /\ q.taken[i] <= q.last
               /\ Day(q.taken[i]) = Day(q.last) => Len(q.taken) - i < q.times
    <3>1. CASE i = l + 1
      BY <1>1, <1>3, <1>4, <1>8, <3>1
    <3>2. CASE i # l + 1
      <4>1. i \in 1 .. l /\ q.taken[i] = p.taken[i] /\ p.taken[i] \in Nat
        BY <1>1, <1>4, <1>8, <3>2 DEF l
      <4>2. p.taken[i] <= p.last /\ (Day(p.taken[i]) = Day(now) => l - i < p.times)
        BY <1>7, <4>1
      <4>3. q.taken[i] <= q.last
        <5>1. p.taken[i] \in Int /\ p.last \in Int /\ now \in Int /\ p.last + 0 <= now
          BY <1>1, <1>6, <4>1
        <5>2. p.taken[i] + 0 <= now
          BY <4>2, <5>1, NotLater
        <5>3. p.taken[i] <= now
          BY <5>1, <5>2
        <5> QED BY ONLY <1>3, <4>1, <5>3
      <4>4. ASSUME Day(q.taken[i]) = Day(q.last)
            PROVE  Len(q.taken) - i < q.times
        <5>1. l - i < p.times
          BY <1>3, <4>1, <4>2, <4>4
        <5> QED BY <1>1, <1>3, <1>4, <1>8, <4>1, <5>1
      <4> QED BY <4>3, <4>4
    <3> QED BY <3>1, <3>2
  <2>3. l + 1 \in 1 .. l + 1 /\ Day(q.taken[l + 1]) = Day(q.last)
    BY <1>3, <1>4, <1>8
  <2> QED BY <1>4, <1>9, <2>1, <2>2, <2>3 DEF Counted
<1> QED BY <1>1, <1>3, <1>5, <1>10, CollectionAssumption

LEMMA CollectionInvInit ==
  ASSUME CollectionInit
  PROVE  CollectionInv
<1>1. <<>> \in Seq(Nat) /\ Len(<<>>) = 0 /\ DOMAIN <<>> = {}
  OBVIOUS
<1>2. NewPlayer \in Player /\ NewPlayer.taken = <<>> /\ NewPlayer.times = 0
      /\ NewPlayer.last = 0 /\ NewPlayer.opened = 0
  BY <1>1 DEF NewPlayer, Player
<1>3. clock \in Nat /\ crashes \in Nat /\ player = NewPlayer /\ stored = NewPlayer
  BY CollectionAssumption DEF CollectionInit
<1>4. CollectionTypeOK
  BY <1>2, <1>3, CollectionAssumption DEF CollectionTypeOK
<1>5. Day(0) \in Int /\ 0 <= clock
  BY <1>3, DaysFollow
<1>6. Counted(NewPlayer, clock)
  BY <1>1, <1>2, <1>3, <1>5 DEF Counted, Spaced
<1> QED BY <1>3, <1>4, <1>6 DEF CollectionInv

LEMMA CollectionInvStep ==
  ASSUME CollectionInv, [CollectionNext]_collectionVars
  PROVE  CollectionInv'
<1>0. /\ player \in Player /\ player.times <= Limit /\ Counted(player, clock)
      /\ stored \in Player /\ stored.times <= Limit /\ Counted(stored, clock)
      /\ clock \in Nat /\ crashes \in Nat
  BY DEF CollectionInv, CollectionTypeOK
<1>1. CASE OpenCollection
  <2>1. /\ player' = [Opened(player, clock) EXCEPT !.opened = clock]
        /\ UNCHANGED <<clock, stored, crashes>>
    BY <1>1 DEF OpenCollection
  <2>2. player' \in Player /\ player'.times <= Limit /\ Counted(player', clock)
    BY <1>0, <2>1, OpeningCounts
  <2>3. CollectionTypeOK'
    BY <1>0, <2>1, <2>2 DEF CollectionTypeOK
  <2>4. Counted(player', clock') /\ Counted(stored', clock')
    BY <1>0, <2>1, <2>2
  <2> QED BY <2>3, <2>4 DEF CollectionInv, Counted, Spaced
<1>2. CASE Collection
  <2>1. PICK yield \in Yields :
          player' = [player EXCEPT !.last = clock, !.times = @ + 1, !.gold = @ + yield,
                                   !.taken = Append(@, clock)]
    BY <1>2 DEF Collection
  <2>2. Collectable(player, clock) /\ UNCHANGED <<clock, stored, crashes>> /\ yield \in Nat
    BY <1>2, CollectionAssumption DEF Collection
  <2>3. player' \in Player /\ player'.times <= Limit /\ Counted(player', clock)
    BY <1>0, <2>1, <2>2, CollectingCounts
  <2>4. CollectionTypeOK'
    BY <1>0, <2>2, <2>3 DEF CollectionTypeOK
  <2>5. Counted(player', clock') /\ Counted(stored', clock')
    BY <1>0, <2>2, <2>3
  <2> QED BY <2>4, <2>5 DEF CollectionInv, Counted, Spaced
<1>3. CASE Store
  BY <1>0, <1>3 DEF Store, CollectionInv, CollectionTypeOK, Counted, Spaced
<1>4. CASE Tick
  <2>1. clock' \in Nat /\ clock <= clock' /\ UNCHANGED <<player, stored, crashes>>
    BY <1>0, <1>4 DEF Tick
  <2>2. Counted(player, clock') /\ Counted(stored, clock')
    BY <1>0, <2>1, CountedLater
  <2>3. CollectionTypeOK'
    BY <1>0, <2>1 DEF CollectionTypeOK
  <2> QED BY <2>1, <2>2, <2>3 DEF CollectionInv, Counted, Spaced
<1>5. CASE Crash
  BY <1>0, <1>5 DEF Crash, CollectionInv, CollectionTypeOK, Counted, Spaced
<1>6. CASE UNCHANGED collectionVars
  BY <1>0, <1>6 DEF collectionVars, CollectionInv, CollectionTypeOK, Counted, Spaced
<1> QED BY <1>1, <1>2, <1>3, <1>4, <1>5, <1>6 DEF CollectionNext

LEMMA CollectionInvHolds == CollectionSpec => []CollectionInv
<1>1. CollectionInit => CollectionInv
  BY CollectionInvInit
<1>2. CollectionInv /\ [CollectionNext]_collectionVars => CollectionInv'
  BY CollectionInvStep
<1> QED BY <1>1, <1>2, PTL DEF CollectionSpec

-----------------------------------------------------------------------------
(* The theorems.                                                           *)

\* The types hold, and no count is above the limit.
THEOREM CollectionTypesHold == CollectionSpec => []CollectionTypeOK
BY CollectionInvHolds, PTL DEF CollectionInv

\* The collections of a day are Interval apart and no more than Limit, for
\* any interval, limit, length of the day and offset of its beginning.
THEOREM CollectionsKeepTheirDistance == CollectionSpec => []CollectionsAreSpaced
<1>1. CollectionInv => CollectionsAreSpaced
  BY DEF CollectionInv, Counted, CollectionsAreSpaced
<1> QED BY <1>1, CollectionInvHolds, PTL

\* Opening the window on a day without collections makes one possible.
THEOREM OpeningBeginsADay == CollectionSpec => []OpeningReopens
<1>1. ASSUME CollectionInv PROVE OpeningReopens
  <2>1. SUFFICES ASSUME Limit > 0, Day(player.opened) = Day(clock),
                        \A i \in DOMAIN player.taken : Day(player.taken[i]) # Day(clock)
                 PROVE  player.times < Limit /\ player.times = 0
    BY DEF OpeningReopens, IsSameDayCST, Collectable
  <2>2. /\ player \in Player /\ clock \in Nat /\ Counted(player, clock)
    BY <1>1 DEF CollectionInv, CollectionTypeOK
  <2>3. player.last \in Int /\ player.last <= clock /\ Day(player.opened) <= Day(player.last)
    BY <2>2, PlayerFacts DEF Counted
  <2>4. Day(player.last) <= Day(clock) /\ Day(player.last) \in Int /\ Day(clock) \in Int
    BY <2>2, <2>3, DaysFollow
  <2>5. Day(player.last) = Day(clock)
    BY <2>1, <2>3, <2>4
  <2>6. player.times = 0
    BY <2>1, <2>2, <2>5 DEF Counted
  <2> QED BY <2>1, <2>6
<1> QED BY <1>1, CollectionInvHolds, PTL
=============================================================================
