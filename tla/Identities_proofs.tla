-------------------------- MODULE Identities_proofs --------------------------
(***************************************************************************)
(* Proofs about what the servers give out and must never give out twice:   *)
(* the snowflake ids of cities, generals and reports, for any processes,   *)
(* widths of the fields and bounds; and the names of accounts, with the    *)
(* records of their logins, for any requests.                              *)
(* The two components share no state: each has an invariant of its own.    *)
(***************************************************************************)
EXTENDS Snowflake, AccountLogins, SequenceTheorems, TLAPS

USE DEF snowflakeVars, genVars

-----------------------------------------------------------------------------
(* The order of ids.                                                       *)

LEMMA TimesIsNat ==
  ASSUME NEW d \in Nat, NEW k \in Nat
  PROVE  d * k \in Nat
OBVIOUS

LEMMA TimesGrows ==
  ASSUME NEW a \in Nat, NEW b \in Nat, NEW k \in Nat, a < b
  PROVE  a * k + k <= b * k
<1> DEFINE d == b - (a + 1)
<1>1. d \in Nat /\ b = (a + 1) + d
  OBVIOUS
<1> HIDE DEF d
<1>2. b * k = ((a + 1) + d) * k
  BY <1>1
<1>3. ((a + 1) + d) * k = a * k + k + d * k
  BY <1>1
<1>4. d * k \in Nat /\ a * k \in Nat /\ b * k \in Nat
  BY <1>1, TimesIsNat
<1> QED BY <1>2, <1>3, <1>4

\* What stands before decides, whatever stands after it.
LEMMA FirstDecides ==
  ASSUME NEW a \in Nat, NEW b \in Nat, NEW m \in Nat,
         NEW r \in 0 .. m, NEW s \in 0 .. m, a < b
  PROVE  a * (m + 1) + r < b * (m + 1) + s
<1>1. a * (m + 1) + (m + 1) <= b * (m + 1)
  BY TimesGrows
<1>2. a * (m + 1) \in Nat /\ b * (m + 1) \in Nat
  BY TimesIsNat
<1> DEFINE x == a * (m + 1)
           y == b * (m + 1)
<1> HIDE DEF x, y
<1>3. x + (m + 1) <= y /\ x \in Nat /\ y \in Nat
  BY <1>1, <1>2 DEF x, y
<1>4. x + r < y + s
  BY <1>3
<1> QED BY <1>4 DEF x, y

LEMMA IDIsNat ==
  ASSUME NEW t \in Nat, NEW n \in 0 .. MaxNode, NEW s \in 0 .. MaxSeq
  PROVE  ID(t, n, s) \in Nat /\ t * (MaxNode + 1) + n \in Nat
<1>1. t * (MaxNode + 1) \in Nat
  BY SnowflakeAssumption, TimesIsNat
<1>2. t * (MaxNode + 1) + n \in Nat
  BY <1>1, SnowflakeAssumption
<1>3. (t * (MaxNode + 1) + n) * (MaxSeq + 1) \in Nat
  BY <1>2, SnowflakeAssumption, TimesIsNat
<1> QED BY <1>2, <1>3, SnowflakeAssumption DEF ID

\* An id of a later time is greater, whichever node has made it.
LEMMA LaterIsGreater ==
  ASSUME NEW t \in Nat, NEW u \in Nat, t < u,
         NEW n \in 0 .. MaxNode, NEW o \in 0 .. MaxNode,
         NEW r \in 0 .. MaxSeq, NEW s \in 0 .. MaxSeq
  PROVE  ID(t, n, r) < ID(u, o, s)
<1> DEFINE a == t * (MaxNode + 1) + n
           b == u * (MaxNode + 1) + o
<1>1. a < b
  BY FirstDecides, SnowflakeAssumption
<1>2. a \in Nat /\ b \in Nat
  BY IDIsNat
<1> HIDE DEF a, b
<1>3. a * (MaxSeq + 1) + r < b * (MaxSeq + 1) + s
  BY <1>1, <1>2, FirstDecides, SnowflakeAssumption
<1> QED BY <1>3 DEF ID, a, b

\* In one millisecond the number decides.
LEMMA NextIsGreater ==
  ASSUME NEW t \in Nat, NEW n \in 0 .. MaxNode,
         NEW r \in 0 .. MaxSeq, NEW s \in 0 .. MaxSeq, r < s
  PROVE  ID(t, n, r) < ID(t, n, s)
<1> DEFINE x == (t * (MaxNode + 1) + n) * (MaxSeq + 1)
<1>1. x \in Nat
  BY IDIsNat, TimesIsNat, SnowflakeAssumption
<1> HIDE DEF x
<1>2. x + r < x + s
  BY <1>1, SnowflakeAssumption
<1> QED BY <1>2 DEF ID, x

\* Two nodes never make the same id.
LEMMA NodesAreApart ==
  ASSUME NEW t \in Nat, NEW u \in Nat,
         NEW n \in 0 .. MaxNode, NEW o \in 0 .. MaxNode, n # o,
         NEW r \in 0 .. MaxSeq, NEW s \in 0 .. MaxSeq
  PROVE  ID(t, n, r) # ID(u, o, s)
<1> DEFINE a == t * (MaxNode + 1) + n
           b == u * (MaxNode + 1) + o
<1>1. a \in Nat /\ b \in Nat
  BY IDIsNat
<1>2. a # b
  <2>1. CASE t = u
    <3>1. t * (MaxNode + 1) \in Nat
      BY SnowflakeAssumption, TimesIsNat
    <3> QED BY <2>1, <3>1, SnowflakeAssumption
  <2>2. CASE t < u
    <3>1. a < b
      BY <2>2, FirstDecides, SnowflakeAssumption
    <3> QED BY <1>1, <3>1
  <2>3. CASE u < t
    <3>1. b < a
      BY <2>3, FirstDecides, SnowflakeAssumption
    <3> QED BY <1>1, <3>1
  <2> QED BY <2>1, <2>2, <2>3
<1> HIDE DEF a, b
<1>3. a * (MaxSeq + 1) + r # b * (MaxSeq + 1) + s
  <2>0. /\ a * (MaxSeq + 1) \in Nat /\ b * (MaxSeq + 1) \in Nat
    BY <1>1, TimesIsNat, SnowflakeAssumption
  <2>1. CASE a < b
    <3>1. a * (MaxSeq + 1) + r < b * (MaxSeq + 1) + s
      BY <1>1, <2>1, FirstDecides, SnowflakeAssumption
    <3> QED BY <2>0, <3>1, SnowflakeAssumption
  <2>2. CASE b < a
    <3>1. b * (MaxSeq + 1) + s < a * (MaxSeq + 1) + r
      BY <1>1, <2>2, FirstDecides, SnowflakeAssumption
    <3> QED BY <2>0, <3>1, SnowflakeAssumption
  <2> QED BY <1>1, <1>2, <2>1, <2>2
<1> QED BY <1>3 DEF ID, a, b

(* The invariant.                                                          *)

\* The greatest id that the generator of process p may have returned.
Latest(p) == ID(lastTS[p], Node[p], IF waiting[p] THEN MaxSeq ELSE seq[p])

\* The ids of a process have its node, and those of its present life are not
\* greater than the latest.
OwnIds ==
  \A p \in Processes :
    /\ before[p] <= Len(ids[p])
    /\ \A i \in 1 .. Len(ids[p]) :
         /\ \E t \in Nat, n \in 0 .. MaxSeq : ids[p][i] = ID(t, Node[p], n)
         /\ before[p] < i => ids[p][i] <= Latest(p)

\* With a clock that has not been set back, the generator is not ahead of
\* it, and the ids of earlier lives are of earlier times.
Forwards ==
  setBacks = 0 =>
    \A p \in Processes :
      /\ lastTS[p] <= clock
      /\ \A i \in 1 .. before[p] : ids[p][i] < ID(clock, 0, 0)
      /\ \A i, j \in 1 .. Len(ids[p]) : i < j => ids[p][i] < ids[p][j]

IdsInv == SnowflakeTypeOK /\ OwnIds /\ IdsIncrease /\ Forwards

LEMMA LatestIsNat ==
  ASSUME SnowflakeTypeOK, NEW p \in Processes
  PROVE  Latest(p) \in Nat
<1>1. /\ lastTS[p] \in Nat /\ Node[p] \in 0 .. MaxNode
      /\ (IF waiting[p] THEN MaxSeq ELSE seq[p]) \in 0 .. MaxSeq
  BY SnowflakeAssumption DEF SnowflakeTypeOK
<1> QED BY <1>1, IDIsNat DEF Latest

LEMMA TypeFacts ==
  ASSUME SnowflakeTypeOK, NEW p \in Processes
  PROVE  /\ ids[p] \in Seq(Nat) /\ Len(ids[p]) \in Nat
         /\ DOMAIN ids[p] = 1 .. Len(ids[p])
         /\ \A i \in 1 .. Len(ids[p]) : ids[p][i] \in Nat
         /\ before[p] \in Nat /\ lastTS[p] \in Nat /\ seq[p] \in 0 .. MaxSeq
         /\ clock \in Nat /\ Node[p] \in 0 .. MaxNode
<1>1. ids[p] \in Seq(Nat)
  BY DEF SnowflakeTypeOK
<1>2. /\ Len(ids[p]) \in Nat /\ DOMAIN ids[p] = 1 .. Len(ids[p])
      /\ \A i \in 1 .. Len(ids[p]) : ids[p][i] \in Nat
  BY <1>1, LenProperties, ElementOfSeq
<1> QED BY <1>1, <1>2, SnowflakeAssumption DEF SnowflakeTypeOK

\* A step that makes no id, does not lower the latest one of any process and
\* does not restart anything.
LEMMA QuietStep ==
  ASSUME IdsInv, SnowflakeTypeOK', UNCHANGED <<ids, before>>,
         \A p \in Processes : Latest(p)' = Latest(p),
         setBacks' = 0 =>
           /\ setBacks = 0 /\ clock <= clock'
           /\ \A p \in Processes : lastTS'[p] <= clock'
  PROVE  IdsInv'
<1>1. OwnIds'
  BY DEF IdsInv, OwnIds
<1>2. IdsIncrease'
  BY DEF IdsInv, IdsIncrease
<1>3. Forwards'
  <2>1. SUFFICES ASSUME setBacks' = 0, NEW p \in Processes,
                        NEW i \in 1 .. before[p]
                 PROVE  ids[p][i] < ID(clock', 0, 0)
    BY DEF IdsInv, Forwards
  <2>2. /\ clock \in Nat /\ clock' \in Nat /\ clock <= clock'
        /\ 0 \in 0 .. MaxNode /\ 0 \in 0 .. MaxSeq
        /\ i \in 1 .. Len(ids[p]) /\ ids[p][i] \in Nat
    <3>1. before[p] <= Len(ids[p]) /\ before[p] \in Nat /\ Len(ids[p]) \in Nat
      BY TypeFacts DEF IdsInv, OwnIds
    <3>2. i \in 1 .. Len(ids[p])
      BY <3>1
    <3> QED BY <2>1, <3>2, TypeFacts, SnowflakeAssumption DEF IdsInv, SnowflakeTypeOK
  <2>3. ids[p][i] < ID(clock, 0, 0)
    BY <2>1 DEF IdsInv, Forwards
  <2>4. clock < clock' => ID(clock, 0, 0) < ID(clock', 0, 0)
    BY <2>2, LaterIsGreater
  <2>5. ID(clock, 0, 0) \in Nat /\ ID(clock', 0, 0) \in Nat
    BY <2>2, IDIsNat
  <2>6. CASE clock = clock'
    BY <2>3, <2>6
  <2>7. CASE clock < clock'
    BY <2>2, <2>3, <2>4, <2>5, <2>7
  <2> QED BY <2>2, <2>6, <2>7
<1> QED BY <1>1, <1>2, <1>3 DEF IdsInv

\* NextID returns an id that is greater than the latest.
LEMMA ReturnStep ==
  ASSUME IdsInv, SnowflakeTypeOK', NEW p \in Processes,
         NEW t \in Nat, NEW n \in 0 .. MaxSeq, Return(p, t, n),
         Latest(p) < ID(t, Node[p], n), setBacks = 0 => t = clock,
         ~waiting'[p], \A q \in Processes \ {p} : waiting'[q] = waiting[q]
  PROVE  IdsInv'
<1> DEFINE x == ID(t, Node[p], n)
           l == Len(ids[p])
<1>0. /\ Node[p] \in 0 .. MaxNode /\ l \in Nat /\ ids[p] \in Seq(Nat)
      /\ before[p] \in Nat /\ before[p] <= l
  BY TypeFacts DEF IdsInv, OwnIds
<1>1. x \in Nat /\ Latest(p) \in Nat
  BY <1>0, IDIsNat, LatestIsNat DEF IdsInv
<1>2. /\ lastTS'[p] = t /\ seq'[p] = n
      /\ ids'[p] = Append(ids[p], x)
      /\ \A q \in Processes \ {p} :
           lastTS'[q] = lastTS[q] /\ seq'[q] = seq[q] /\ ids'[q] = ids[q]
      /\ UNCHANGED <<clock, before, setBacks>>
  BY DEF Return, IdsInv, SnowflakeTypeOK
<1>3. Latest(p)' = x /\ \A q \in Processes \ {p} : Latest(q)' = Latest(q)
  BY <1>2 DEF Latest
<1>4. /\ Len(ids'[p]) = l + 1 /\ ids'[p][l + 1] = x
      /\ \A i \in 1 .. l : ids'[p][i] = ids[p][i]
  BY <1>0, <1>1, <1>2, AppendProperties
<1> HIDE DEF x, l
<1>5. \A i \in 1 .. l : before[p] < i => ids[p][i] < x
  <2>1. ASSUME NEW i \in 1 .. l, before[p] < i PROVE ids[p][i] < x
    <3>1. ids[p][i] <= Latest(p) /\ ids[p][i] \in Nat
      BY <2>1, TypeFacts DEF IdsInv, OwnIds, l
    <3> QED BY <1>1, <3>1 DEF x
  <2> QED BY <2>1
<1>6. OwnIds'
  <2>1. ASSUME NEW q \in Processes, q # p
        PROVE  /\ before'[q] <= Len(ids'[q])
               /\ \A i \in 1 .. Len(ids'[q]) :
                    /\ \E u \in Nat, m \in 0 .. MaxSeq :
                         ids'[q][i] = ID(u, Node[q], m)
                    /\ before'[q] < i => ids'[q][i] <= Latest(q)'
    BY <1>2, <1>3, <2>1 DEF IdsInv, OwnIds
  <2>2. before'[p] <= Len(ids'[p])
    BY <1>0, <1>2, <1>4
  <2>3. ASSUME NEW i \in 1 .. Len(ids'[p])
        PROVE  /\ \E u \in Nat, m \in 0 .. MaxSeq : ids'[p][i] = ID(u, Node[p], m)
               /\ before'[p] < i => ids'[p][i] <= Latest(p)'
    <3>1. CASE i = l + 1
      BY <1>1, <1>3, <1>4, <3>1 DEF x
    <3>2. CASE i # l + 1
      <4>1. i \in 1 .. l
        BY <1>0, <1>4, <3>2
      <4>2. /\ ids'[p][i] = ids[p][i] /\ ids[p][i] \in Nat
            /\ \E u \in Nat, m \in 0 .. MaxSeq : ids[p][i] = ID(u, Node[p], m)
        BY <1>4, <4>1, TypeFacts DEF IdsInv, OwnIds, l
      <4>3. before'[p] < i => ids'[p][i] <= Latest(p)'
        BY <1>1, <1>2, <1>3, <1>5, <4>1, <4>2
      <4> QED BY <4>2, <4>3
    <3> QED BY <3>1, <3>2
  <2> QED BY <2>1, <2>2, <2>3 DEF OwnIds
<1>7. IdsIncrease'
  <2>1. SUFFICES ASSUME NEW q \in Processes, NEW i \in DOMAIN ids'[q],
                        NEW j \in DOMAIN ids'[q], before'[q] < i, i < j
                 PROVE  ids'[q][i] < ids'[q][j]
    BY DEF IdsIncrease
  <2>2. CASE q # p
    <3>1. ids'[q] = ids[q] /\ before'[q] = before[q]
      BY <1>2, <2>2
    <3> QED BY <2>1, <3>1 DEF IdsInv, IdsIncrease
  <2>3. CASE q = p
    <3>1. i \in 1 .. l + 1 /\ j \in 1 .. l + 1 /\ i \in 1 .. l
      BY <1>0, <1>4, <2>1, <2>3, TypeFacts DEF IdsInv, SnowflakeTypeOK
    <3>2. CASE j = l + 1
      BY <1>2, <1>4, <1>5, <2>1, <2>3, <3>1, <3>2
    <3>3. CASE j # l + 1
      <4>0. l \in Nat
        BY <1>0 DEF l
      <4>1. j \in 1 .. l
        BY <3>1, <3>3, <4>0
      <4>2. i \in DOMAIN ids[p] /\ j \in DOMAIN ids[p]
        BY <3>1, <4>1, TypeFacts DEF IdsInv, l
      <4> QED BY <1>2, <1>4, <2>1, <2>3, <3>1, <4>1, <4>2 DEF IdsInv, IdsIncrease
    <3> QED BY <3>2, <3>3
  <2> QED BY <2>2, <2>3
<1>8. Forwards'
  <2>1. SUFFICES ASSUME setBacks' = 0, NEW q \in Processes
                 PROVE  /\ lastTS'[q] <= clock'
                        /\ \A i \in 1 .. before'[q] : ids'[q][i] < ID(clock', 0, 0)
                        /\ \A i, j \in 1 .. Len(ids'[q]) :
                             i < j => ids'[q][i] < ids'[q][j]
    BY DEF Forwards
  <2>2. setBacks = 0 /\ t = clock /\ clock' = clock
    BY <1>2, <2>1
  <2>3. CASE q # p
    BY <1>2, <2>2, <2>3 DEF IdsInv, Forwards
  <2>4. CASE q = p
    <3>1. lastTS'[p] <= clock'
      BY <1>2, <2>2, TypeFacts DEF IdsInv
    <3>2. ASSUME NEW i \in 1 .. before[p]
          PROVE  ids'[p][i] = ids[p][i] /\ ids[p][i] < ID(clock, 0, 0)
                 /\ ids[p][i] \in Nat
      <4>1. i \in 1 .. l
        BY <1>0
      <4> QED BY <1>4, <2>2, <4>1, TypeFacts DEF IdsInv, Forwards, l
    <3>3. ID(clock, 0, 0) <= x
      <4>1. x = ID(clock, Node[p], n)
        BY <2>2 DEF x
      <4>2. ID(clock, 0, 0) = (clock * (MaxNode + 1) + 0) * (MaxSeq + 1) + 0
        BY DEF ID
      <4>3. CASE Node[p] = 0
        <5>1. CASE n = 0
          BY <1>1, <4>1, <4>3, <5>1
        <5>2. CASE n # 0
          <6>1. 0 < n /\ 0 \in 0 .. MaxSeq /\ 0 \in 0 .. MaxNode /\ clock \in Nat
            BY <5>2, SnowflakeAssumption, TypeFacts DEF IdsInv
          <6>2. ID(clock, 0, 0) < ID(clock, 0, n)
            BY <6>1, NextIsGreater
          <6>3. ID(clock, 0, 0) \in Nat
            BY <6>1, IDIsNat
          <6> QED BY <1>1, <4>1, <4>3, <6>2, <6>3
        <5> QED BY <5>1, <5>2
      <4>4. CASE Node[p] # 0
        <5>1. /\ clock \in Nat /\ clock * (MaxNode + 1) \in Nat
              /\ Node[p] \in Nat /\ 0 < Node[p]
          BY <1>0, <4>4, TimesIsNat, TypeFacts, SnowflakeAssumption DEF IdsInv
        <5> DEFINE a == clock * (MaxNode + 1) + 0
                   b == clock * (MaxNode + 1) + Node[p]
        <5>2. a \in Nat /\ b \in Nat /\ a < b
          BY <5>1
        <5> HIDE DEF a, b
        <5>3. a * (MaxSeq + 1) + 0 < b * (MaxSeq + 1) + n
          BY <5>2, FirstDecides, SnowflakeAssumption
        <5>4. ID(clock, 0, 0) < x
          <6>1. ID(clock, 0, 0) = a * (MaxSeq + 1) + 0
            BY <4>2 DEF a
          <6>2. x = b * (MaxSeq + 1) + n
            BY <4>1 DEF b, ID
          <6> QED
            BY <5>3, <6>1, <6>2
        <5>5. ID(clock, 0, 0) \in Nat
          <6>1. 0 \in 0 .. MaxNode /\ 0 \in 0 .. MaxSeq
            BY SnowflakeAssumption
          <6> QED BY <5>1, <6>1, IDIsNat
        <5> QED BY <1>1, <5>4, <5>5
      <4> QED BY <4>3, <4>4
    <3>4. ID(clock, 0, 0) \in Nat
      <4>1. clock \in Nat /\ 0 \in 0 .. MaxNode /\ 0 \in 0 .. MaxSeq
        BY SnowflakeAssumption DEF IdsInv, SnowflakeTypeOK
      <4> QED BY <4>1, IDIsNat
    <3>5. ASSUME NEW i \in 1 .. l + 1, NEW j \in 1 .. l + 1, i < j
          PROVE  ids'[p][i] < ids'[p][j]
      <4>1. i \in 1 .. l /\ ids'[p][i] = ids[p][i]
        BY <1>0, <1>4, <3>5
      <4>2. CASE j = l + 1
        <5>1. CASE before[p] < i
          BY <1>4, <1>5, <4>1, <4>2, <5>1
        <5>2. CASE ~(before[p] < i)
          <6>1. i \in 1 .. before[p]
            BY <1>0, <4>1, <5>2
          <6>2. ids[p][i] < ID(clock, 0, 0) /\ ids[p][i] \in Nat
            BY <3>2, <6>1
          <6> QED BY <1>1, <1>4, <3>3, <3>4, <4>1, <4>2, <6>2
        <5> QED BY <5>1, <5>2
      <4>3. CASE j # l + 1
        <5>1. j \in 1 .. l /\ ids'[p][j] = ids[p][j]
          BY <1>0, <1>4, <4>3
        <5> QED BY <2>2, <3>5, <4>1, <5>1 DEF IdsInv, Forwards, l
      <4> QED BY <4>2, <4>3
    <3> QED BY <1>2, <1>4, <2>2, <2>4, <3>1, <3>2, <3>5
  <2> QED BY <2>3, <2>4
<1> QED BY <1>6, <1>7, <1>8 DEF IdsInv

\* A step of Return keeps the types.
LEMMA ReturnTypes ==
  ASSUME SnowflakeTypeOK, NEW p \in Processes,
         NEW t \in Nat, NEW n \in 0 .. MaxSeq, Return(p, t, n),
         waiting' \in [Processes -> BOOLEAN]
  PROVE  SnowflakeTypeOK'
<1>1. Node[p] \in 0 .. MaxNode /\ ids[p] \in Seq(Nat)
  BY SnowflakeAssumption DEF SnowflakeTypeOK
<1>2. ID(t, Node[p], n) \in Nat
  BY <1>1, IDIsNat
<1>3. Append(ids[p], ID(t, Node[p], n)) \in Seq(Nat)
  BY <1>1, <1>2, AppendProperties
<1> QED BY <1>3 DEF SnowflakeTypeOK, Return

LEMMA TypeStep ==
  ASSUME SnowflakeTypeOK, [SnowflakeNext]_snowflakeVars
  PROVE  SnowflakeTypeOK'
<1>1. ASSUME NEW p \in Processes, NextInNewMillisecond(p)
      PROVE  SnowflakeTypeOK'
  <2>1. clock \in Nat /\ 0 \in 0 .. MaxSeq /\ Return(p, clock, 0)
        /\ waiting' \in [Processes -> BOOLEAN]
    BY <1>1, SnowflakeAssumption DEF NextInNewMillisecond, SnowflakeTypeOK
  <2> QED BY <2>1, ReturnTypes
<1>2. ASSUME NEW p \in Processes, NextInSameMillisecond(p)
      PROVE  SnowflakeTypeOK'
  <2>1. /\ lastTS[p] \in Nat /\ seq[p] + 1 \in 0 .. MaxSeq
        /\ Return(p, lastTS[p], seq[p] + 1)
        /\ waiting' \in [Processes -> BOOLEAN]
    BY <1>2, SnowflakeAssumption DEF NextInSameMillisecond, SnowflakeTypeOK
  <2> QED BY <2>1, ReturnTypes
<1>3. ASSUME NEW p \in Processes, waitNextMillisecond(p)
      PROVE  SnowflakeTypeOK'
  <2>1. clock \in Nat /\ 0 \in 0 .. MaxSeq /\ Return(p, clock, 0)
        /\ waiting' \in [Processes -> BOOLEAN]
    BY <1>3, SnowflakeAssumption DEF waitNextMillisecond, SnowflakeTypeOK
  <2> QED BY <2>1, ReturnTypes
<1>4. ASSUME NEW p \in Processes, Exhausted(p)
      PROVE  SnowflakeTypeOK'
  BY <1>4, SnowflakeAssumption DEF Exhausted, SnowflakeTypeOK
<1>5. ASSUME NEW p \in Processes, Restart(p)
      PROVE  SnowflakeTypeOK'
  <2>1. Len(ids[p]) \in Nat
    BY TypeFacts
  <2> QED BY <1>5, <2>1, SnowflakeAssumption DEF Restart, SnowflakeTypeOK
<1>6. CASE Advance
  BY <1>6 DEF Advance, genVars, SnowflakeTypeOK
<1>7. CASE SetBack
  BY <1>7 DEF SetBack, genVars, SnowflakeTypeOK
<1>8. CASE UNCHANGED snowflakeVars
  BY <1>8 DEF snowflakeVars, genVars, SnowflakeTypeOK
<1> QED BY <1>1, <1>2, <1>3, <1>4, <1>5, <1>6, <1>7, <1>8 DEF SnowflakeNext

\* The latest id of every process is older than the start of the next
\* millisecond, when the clock has not been set back.
LEMMA LatestIsOlder ==
  ASSUME IdsInv, NEW p \in Processes, NEW t \in Nat, lastTS[p] < t,
         NEW n \in 0 .. MaxNode
  PROVE  Latest(p) < ID(t, n, 0)
<1>1. /\ lastTS[p] \in Nat /\ Node[p] \in 0 .. MaxNode /\ 0 \in 0 .. MaxSeq
      /\ (IF waiting[p] THEN MaxSeq ELSE seq[p]) \in 0 .. MaxSeq
  BY SnowflakeAssumption DEF IdsInv, SnowflakeTypeOK
<1> QED BY <1>1, LaterIsGreater DEF Latest

LEMMA RestartStep ==
  ASSUME IdsInv, SnowflakeTypeOK', NEW p \in Processes, Restart(p)
  PROVE  IdsInv'
<1>1. /\ \A q \in Processes \ {p} : Latest(q)' = Latest(q)
      /\ before'[p] = Len(ids[p]) /\ \A q \in Processes \ {p} : before'[q] = before[q]
      /\ lastTS'[p] = 0 /\ \A q \in Processes \ {p} : lastTS'[q] = lastTS[q]
      /\ clock' = clock + 1 /\ UNCHANGED <<ids, setBacks>>
  BY DEF Restart, IdsInv, SnowflakeTypeOK, Latest
<1>2. OwnIds'
  <2>1. ASSUME NEW q \in Processes
        PROVE  /\ before'[q] <= Len(ids'[q])
               /\ \A i \in 1 .. Len(ids'[q]) :
                    /\ \E t \in Nat, n \in 0 .. MaxSeq : ids'[q][i] = ID(t, Node[q], n)
                    /\ before'[q] < i => ids'[q][i] <= Latest(q)'
    <3>1. CASE q # p
      BY <1>1, <3>1 DEF IdsInv, OwnIds
    <3>2. CASE q = p
      BY <1>1, <3>2, TypeFacts DEF IdsInv, OwnIds
    <3> QED BY <3>1, <3>2
  <2> QED BY <2>1 DEF OwnIds
<1>3. IdsIncrease'
  <2>1. SUFFICES ASSUME NEW q \in Processes, NEW i \in DOMAIN ids[q],
                        NEW j \in DOMAIN ids[q], before'[q] < i, i < j
                 PROVE  ids[q][i] < ids[q][j]
    BY <1>1 DEF IdsIncrease
  <2>2. CASE q # p
    BY <1>1, <2>1, <2>2 DEF IdsInv, IdsIncrease
  <2>3. CASE q = p
    BY <1>1, <2>1, <2>3, TypeFacts DEF IdsInv
  <2> QED BY <2>2, <2>3
<1>4. Forwards'
  <2>1. SUFFICES ASSUME setBacks = 0, NEW q \in Processes
                 PROVE  /\ lastTS'[q] <= clock'
                        /\ \A i \in 1 .. before'[q] : ids[q][i] < ID(clock', 0, 0)
                        /\ \A i, j \in 1 .. Len(ids[q]) : i < j => ids[q][i] < ids[q][j]
    BY <1>1 DEF Forwards
  <2>2. /\ clock \in Nat /\ clock' \in Nat /\ clock < clock'
        /\ 0 \in 0 .. MaxNode /\ 0 \in 0 .. MaxSeq
        /\ lastTS[q] \in Nat /\ lastTS[q] <= clock
    BY <1>1, <2>1, SnowflakeAssumption DEF IdsInv, Forwards, SnowflakeTypeOK
  <2>3. lastTS'[q] <= clock'
    BY <1>1, <2>2
  <2>4. \A i, j \in 1 .. Len(ids[q]) : i < j => ids[q][i] < ids[q][j]
    BY <2>1 DEF IdsInv, Forwards
  <2>5. ID(clock, 0, 0) < ID(clock', 0, 0)
    BY <2>2, LaterIsGreater
  <2>6. ID(clock, 0, 0) \in Nat /\ ID(clock', 0, 0) \in Nat
    BY <2>2, IDIsNat
  <2>7. Latest(q) < ID(clock', 0, 0)
    <3>1. lastTS[q] < clock'
      BY <2>2
    <3> QED BY <2>2, <3>1, LatestIsOlder
  <2>8. Latest(q) \in Nat
    BY LatestIsNat DEF IdsInv
  <2>9. ASSUME NEW i \in 1 .. before'[q]
        PROVE  ids[q][i] < ID(clock', 0, 0)
    <3>1. /\ Len(ids[q]) \in Nat /\ before[q] \in Nat
          /\ before[q] <= Len(ids[q])
          /\ before'[q] \in Nat /\ before'[q] <= Len(ids[q])
      BY <1>1, TypeFacts DEF IdsInv, OwnIds
    <3>2. i \in 1 .. Len(ids[q]) /\ ids[q][i] \in Nat
      <4>1. i \in 1 .. Len(ids[q])
        BY <3>1
      <4> QED BY <4>1, TypeFacts DEF IdsInv
    <3>3. CASE i \in 1 .. before[q]
      <4>1. ids[q][i] < ID(clock, 0, 0)
        BY <2>1, <3>3 DEF IdsInv, Forwards
      <4> QED BY <2>5, <2>6, <3>2, <4>1
    <3>4. CASE i \notin 1 .. before[q]
      <4>1. before[q] < i
        BY <3>1, <3>2, <3>4
      <4>2. ids[q][i] <= Latest(q)
        BY <3>2, <4>1 DEF IdsInv, OwnIds
      <4> QED BY <2>6, <2>7, <2>8, <3>2, <4>2
    <3> QED BY <3>3, <3>4
  <2> QED BY <2>3, <2>4, <2>9
<1> QED BY <1>2, <1>3, <1>4 DEF IdsInv

LEMMA IdsInvInit ==
  ASSUME SnowflakeInit
  PROVE  IdsInv
<1>1. SnowflakeTypeOK
  BY EmptySeq, SnowflakeAssumption DEF SnowflakeInit, SnowflakeTypeOK
<1>2. \A p \in Processes :
        /\ before[p] = 0 /\ lastTS[p] = 0
        /\ Len(ids[p]) = 0 /\ 1 .. Len(ids[p]) = {} /\ DOMAIN ids[p] = {}
  <2>1. ASSUME NEW p \in Processes
        PROVE  ids[p] = <<>> /\ before[p] = 0 /\ lastTS[p] = 0
    BY DEF SnowflakeInit
  <2>2. Len(<<>>) = 0
    OBVIOUS
  <2>3. 1 .. Len(<<>>) = {}
    BY <2>2
  <2>4. DOMAIN <<>> = {}
    BY <2>3
  <2> QED BY <2>1, <2>2, <2>3, <2>4
<1>3. OwnIds
  <2>1. SUFFICES ASSUME NEW p \in Processes
                 PROVE  /\ before[p] <= Len(ids[p])
                        /\ \A i \in 1 .. Len(ids[p]) : FALSE
    BY DEF OwnIds
  <2> QED BY <1>2
<1>4. IdsIncrease
  BY <1>2 DEF IdsIncrease
<1>5. Forwards
  <2>1. SUFFICES ASSUME NEW p \in Processes
                 PROVE  /\ lastTS[p] <= clock
                        /\ \A i \in 1 .. before[p] : FALSE
                        /\ \A i \in 1 .. Len(ids[p]) : FALSE
    BY DEF Forwards
  <2>2. clock = 1
    BY DEF SnowflakeInit
  <2> QED BY <1>2, <2>2
<1> QED BY <1>1, <1>3, <1>4, <1>5 DEF IdsInv

LEMMA IdsInvStep ==
  ASSUME IdsInv, [SnowflakeNext]_snowflakeVars
  PROVE  IdsInv'
<1>0. SnowflakeTypeOK'
  BY TypeStep DEF IdsInv
<1>1. ASSUME NEW p \in Processes, NextInNewMillisecond(p)
      PROVE  IdsInv'
  <2>1. /\ clock \in Nat /\ 0 \in 0 .. MaxSeq /\ Node[p] \in 0 .. MaxNode
        /\ lastTS[p] < clock /\ Return(p, clock, 0)
        /\ ~waiting'[p] /\ waiting' = waiting
    BY <1>1, SnowflakeAssumption
    DEF NextInNewMillisecond, Called, IdsInv, SnowflakeTypeOK
  <2>2. Latest(p) < ID(clock, Node[p], 0)
    BY <2>1, LatestIsOlder
  <2> QED BY <1>0, <2>1, <2>2, ReturnStep
<1>2. ASSUME NEW p \in Processes, waitNextMillisecond(p)
      PROVE  IdsInv'
  <2>0. /\ waiting \in [Processes -> BOOLEAN]
        /\ waiting' = [waiting EXCEPT ![p] = FALSE]
    BY <1>2 DEF waitNextMillisecond, IdsInv, SnowflakeTypeOK
  <2>1. /\ clock \in Nat /\ 0 \in 0 .. MaxSeq /\ Node[p] \in 0 .. MaxNode
        /\ lastTS[p] < clock /\ Return(p, clock, 0)
        /\ ~waiting'[p] /\ \A q \in Processes \ {p} : waiting'[q] = waiting[q]
    <3>1. ~waiting'[p] /\ \A q \in Processes \ {p} : waiting'[q] = waiting[q]
      BY <2>0
    <3>2. clock \in Nat /\ lastTS[p] \in Nat /\ clock > lastTS[p] /\ Return(p, clock, 0)
      BY <1>2 DEF waitNextMillisecond, IdsInv, SnowflakeTypeOK
    <3> QED BY <3>1, <3>2, SnowflakeAssumption
  <2>2. Latest(p) < ID(clock, Node[p], 0)
    BY <2>1, LatestIsOlder
  <2> QED BY <1>0, <2>1, <2>2, ReturnStep
<1>3. ASSUME NEW p \in Processes, NextInSameMillisecond(p)
      PROVE  IdsInv'
  <2>1. /\ lastTS[p] \in Nat /\ seq[p] \in 0 .. MaxSeq /\ seq[p] + 1 \in 0 .. MaxSeq
        /\ seq[p] < seq[p] + 1 /\ Node[p] \in 0 .. MaxNode
        /\ Return(p, lastTS[p], seq[p] + 1)
        /\ ~waiting[p] /\ ~waiting'[p] /\ waiting' = waiting
    BY <1>3, SnowflakeAssumption
    DEF NextInSameMillisecond, Called, IdsInv, SnowflakeTypeOK
  <2>2. Latest(p) < ID(lastTS[p], Node[p], seq[p] + 1)
    <3>1. Latest(p) = ID(lastTS[p], Node[p], seq[p])
      BY <2>1 DEF Latest
    <3> QED BY <2>1, <3>1, NextIsGreater
  <2>3. setBacks = 0 => lastTS[p] = clock
    <3>1. clock \in Nat /\ clock <= lastTS[p]
      BY <1>3 DEF NextInSameMillisecond, IdsInv, SnowflakeTypeOK
    <3> QED BY <2>1, <3>1 DEF IdsInv, Forwards
  <2> QED BY <1>0, <2>1, <2>2, <2>3, ReturnStep
<1>4. ASSUME NEW p \in Processes, Exhausted(p)
      PROVE  IdsInv'
  <2>1. /\ UNCHANGED <<clock, lastTS, ids, before, setBacks>>
        /\ seq[p] = MaxSeq /\ waiting'[p]
        /\ \A q \in Processes \ {p} : seq'[q] = seq[q] /\ waiting'[q] = waiting[q]
    BY <1>4 DEF Exhausted, IdsInv, SnowflakeTypeOK
  <2>2. \A q \in Processes : Latest(q)' = Latest(q)
    BY <1>4, <2>1 DEF Latest, Exhausted, Called
  <2>3. setBacks' = 0 => /\ setBacks = 0 /\ clock <= clock'
                         /\ \A q \in Processes : lastTS'[q] <= clock'
    BY <2>1 DEF IdsInv, Forwards, SnowflakeTypeOK
  <2> QED BY <1>0, <2>1, <2>2, <2>3, QuietStep
<1>5. ASSUME NEW p \in Processes, Restart(p)
      PROVE  IdsInv'
  BY <1>0, <1>5, RestartStep
<1>6. CASE Advance
  <2>1. /\ UNCHANGED <<lastTS, seq, waiting, ids, before, setBacks>>
        /\ clock' = clock + 1 /\ clock \in Nat
    BY <1>6 DEF Advance, genVars, IdsInv, SnowflakeTypeOK
  <2>2. \A q \in Processes : Latest(q)' = Latest(q)
    BY <2>1 DEF Latest
  <2>3. ASSUME setBacks' = 0
        PROVE  /\ setBacks = 0 /\ clock <= clock'
               /\ \A q \in Processes : lastTS'[q] <= clock'
    BY <2>1, <2>3 DEF IdsInv, Forwards, SnowflakeTypeOK
  <2> QED BY <1>0, <2>1, <2>2, <2>3, QuietStep
<1>7. CASE SetBack
  <2>1. /\ UNCHANGED <<lastTS, seq, waiting, ids, before>>
        /\ setBacks' # 0
    BY <1>7 DEF SetBack, genVars, IdsInv, SnowflakeTypeOK
  <2>2. \A q \in Processes : Latest(q)' = Latest(q)
    BY <2>1 DEF Latest
  <2> QED BY <1>0, <2>1, <2>2, QuietStep
<1>8. CASE UNCHANGED snowflakeVars
  BY <1>8 DEF snowflakeVars, genVars, IdsInv, SnowflakeTypeOK, OwnIds,
              IdsIncrease, Forwards, Latest
<1> QED BY <1>1, <1>2, <1>3, <1>4, <1>5, <1>6, <1>7, <1>8 DEF SnowflakeNext

LEMMA IdsInvHolds == SnowflakeSpec => []IdsInv
<1>1. SnowflakeInit => IdsInv
  BY IdsInvInit
<1>2. IdsInv /\ [SnowflakeNext]_snowflakeVars => IdsInv'
  BY IdsInvStep
<1> QED BY <1>1, <1>2, PTL DEF SnowflakeSpec

-----------------------------------------------------------------------------
(* The theorems.                                                           *)

\* The state of every generator keeps its types; above all, the number within
\* a millisecond stays within its bits.
THEOREM GeneratorTypesHold == SnowflakeSpec => []SnowflakeTypeOK
BY IdsInvHolds, PTL DEF IdsInv

\* The ids of one life of a process increase, whatever the clock does.
THEOREM IdsAreIncreasing == SnowflakeSpec => []IdsIncrease
BY IdsInvHolds, PTL DEF IdsInv

\* No id is made twice while the clock is not set back, by any processes with
\* different nodes, however often they are restarted.
THEOREM NoIdTwice == SnowflakeSpec => []IdsAreUnique
<1>1. ASSUME IdsInv PROVE IdsAreUnique
  <2>1. SUFFICES ASSUME setBacks = 0, NEW p \in Processes, NEW q \in Processes,
                        NEW i \in DOMAIN ids[p], NEW j \in DOMAIN ids[q],
                        ids[p][i] = ids[q][j]
                 PROVE  p = q /\ i = j
    BY DEF IdsAreUnique
  <2>2. /\ i \in 1 .. Len(ids[p]) /\ j \in 1 .. Len(ids[q])
        /\ ids[p][i] \in Nat /\ Node[p] \in 0 .. MaxNode /\ Node[q] \in 0 .. MaxNode
    BY <1>1, <2>1, TypeFacts DEF IdsInv
  <2>3. p = q
    <3>1. SUFFICES ASSUME p # q PROVE FALSE
      OBVIOUS
    <3>2. Node[p] # Node[q]
      BY <3>1, SnowflakeAssumption
    <3>3. PICK t \in Nat, m \in 0 .. MaxSeq : ids[p][i] = ID(t, Node[p], m)
      BY <1>1, <2>2 DEF IdsInv, OwnIds
    <3>4. PICK u \in Nat, n \in 0 .. MaxSeq : ids[q][j] = ID(u, Node[q], n)
      BY <1>1, <2>2 DEF IdsInv, OwnIds
    <3> QED BY <2>1, <2>2, <3>2, <3>3, <3>4, NodesAreApart
  <2>4. i = j
    <3>1. ~(i < j) /\ ~(j < i)
      BY <1>1, <2>1, <2>2, <2>3 DEF IdsInv, Forwards
    <3> QED BY <2>2, <2>3, <3>1
  <2> QED BY <2>3, <2>4
<1> QED BY <1>1, IdsInvHolds, PTL

\* Ids increase in one life of a process, and differ between all of them.
THEOREM FreshIds == SnowflakeSpec => []IdsAreFresh
BY IdsAreIncreasing, NoIdTwice, PTL DEF IdsAreFresh

-----------------------------------------------------------------------------
(* Accounts: what a request under way has found stays true.                *)

\* A request has been sent, has not been answered, and what it has found so
\* far is still true; a user keeps the password, and a row is never removed.
Underway ==
  \A r \in Requests :
    /\ pc[r] = "idle" => call[r] = None
    /\ pc[r] # "idle" => call[r] \in Call
    /\ pc[r] # "over" => answer[r] = "none"
    /\ pc[r] = "SaveUser" => call[r].kind = "register"
    /\ pc[r] \in {"SaveHistory", "GetLoginLast", "SaveLast"} =>
         call[r].kind = "login" /\ user_info[Name(r)] = call[r].password
    /\ pc[r] \in {"GetLoginLast", "SaveLast"} => r \in login_history
    /\ answer[r] = "exists" => user_info[Name(r)] # None
    /\ \A q \in earlier[r] : pc[q] = "over"

\* What a successful registration and a login on record stand for.
Registered ==
  \A r \in Requests : answer[r] = "ok" /\ call[r].kind = "register" =>
    /\ user_info[Name(r)] = call[r].password
    /\ \A q \in Requests :
         (answer[q] = "ok" /\ call[q].kind = "register" /\ Name(q) = Name(r)) => q = r

AccountInv ==
  AccountTypeOK /\ Underway /\ Registered /\ LoginsAreRecorded /\ LastIsNotStale

\* Where a request that ends, or goes on, leaves the others.
LEMMA OthersStay ==
  ASSUME AccountTypeOK, NEW r \in Requests, NEW s \in Running \cup {"idle", "over"},
         NEW a \in {"none", "ok", "exists", "invalid", "unavailable"},
         pc' = [pc EXCEPT ![r] = s], answer' = [answer EXCEPT ![r] = a]
  PROVE  /\ pc' \in [Requests -> Running \cup {"idle", "over"}]
         /\ answer' \in [Requests -> {"none", "ok", "exists", "invalid", "unavailable"}]
         /\ pc'[r] = s /\ answer'[r] = a
         /\ \A q \in Requests \ {r} : pc'[q] = pc[q] /\ answer'[q] = answer[q]
BY DEF AccountTypeOK

LEMMA AccountInvInit ==
  ASSUME AccountInit
  PROVE  AccountInv
BY AccountAssumption
DEF AccountInit, AccountInv, AccountTypeOK, Underway, Registered, LoginsAreRecorded,
    LastIsNotStale, Login, Running

\* A request that ends without having written anything.
LEMMA JustEnds ==
  ASSUME AccountInv, NEW r \in Requests, pc[r] \in Running,
         NEW a \in {"exists", "invalid", "unavailable"}, Reply(r, a),
         a = "exists" => user_info[Name(r)] # None,
         found' \in [Requests -> BOOLEAN], failures' \in Nat,
         UNCHANGED <<call, database, crashes, earlier>>
  PROVE  AccountInv'
<1>1. /\ pc' \in [Requests -> Running \cup {"idle", "over"}]
      /\ answer' \in [Requests -> {"none", "ok", "exists", "invalid", "unavailable"}]
      /\ pc'[r] = "over" /\ answer'[r] = a
      /\ \A q \in Requests \ {r} : pc'[q] = pc[q] /\ answer'[q] = answer[q]
      /\ pc[r] # "idle" /\ pc[r] # "over"
  BY OthersStay DEF AccountInv, Reply, Running
<1>2. AccountTypeOK'
  BY <1>1 DEF AccountInv, AccountTypeOK, database
<1>3. Underway'
  BY <1>1 DEF AccountInv, Underway, database, Name, AccountTypeOK
<1>4. Registered'
  BY <1>1 DEF AccountInv, Registered, database, Name
<1>5. LoginsAreRecorded' /\ LastIsNotStale'
  BY <1>1 DEF AccountInv, LoginsAreRecorded, LastIsNotStale, database, Name, Login
<1> QED BY <1>2, <1>3, <1>4, <1>5 DEF AccountInv

LEMMA FailureEnds ==
  ASSUME AccountInv, NEW r \in Requests, pc[r] \in Running, CallFails(r),
         UNCHANGED <<call, found, database, crashes, earlier>>
  PROVE  AccountInv'
<1>1. Reply(r, "unavailable") /\ failures' \in Nat /\ found' \in [Requests -> BOOLEAN]
  BY DEF CallFails, AccountInv, AccountTypeOK
<1> QED BY <1>1, JustEnds

\* A request that goes on without having written anything.
LEMMA JustGoesOn ==
  ASSUME AccountInv, NEW r \in Requests, pc[r] \in Running,
         NEW s \in Running, GoOn(r, s),
         s = "SaveUser" => call[r].kind = "register",
         s \in {"SaveHistory", "GetLoginLast", "SaveLast"} =>
           call[r].kind = "login" /\ user_info[Name(r)] = call[r].password,
         s \in {"GetLoginLast", "SaveLast"} => r \in login_history,
         found' \in [Requests -> BOOLEAN],
         UNCHANGED <<call, database, failures, crashes, earlier>>
  PROVE  AccountInv'
<1>1. /\ pc' \in [Requests -> Running \cup {"idle", "over"}]
      /\ answer' = answer
      /\ pc'[r] = s /\ \A q \in Requests \ {r} : pc'[q] = pc[q]
      /\ pc[r] # "idle" /\ pc[r] # "over" /\ s # "idle" /\ s # "over"
  BY DEF AccountInv, AccountTypeOK, GoOn, Running
<1>2. AccountTypeOK'
  BY <1>1 DEF AccountInv, AccountTypeOK, database
<1>3. Underway'
  BY <1>1 DEF AccountInv, Underway, database, Name, AccountTypeOK
<1>4. Registered'
  BY <1>1 DEF AccountInv, Registered, database, Name
<1>5. LoginsAreRecorded' /\ LastIsNotStale'
  BY <1>1 DEF AccountInv, LoginsAreRecorded, LastIsNotStale, database, Name, Login
<1> QED BY <1>2, <1>3, <1>4, <1>5 DEF AccountInv

LEMMA SendStep ==
  ASSUME AccountInv, NEW r \in Requests, Send(r)
  PROVE  AccountInv'
<1>1. PICK c \in Call : call' = [call EXCEPT ![r] = c]
  BY DEF Send
<1>2. /\ pc[r] = "idle" /\ pc' = [pc EXCEPT ![r] = "GetUserByUserName"]
      /\ earlier' = [earlier EXCEPT ![r] = {q \in Requests : pc[q] = "over"}]
      /\ UNCHANGED <<found, answer, user_info, login_history, login_last, failures, crashes>>
  BY DEF Send, database
<1>3. AccountTypeOK'
  BY <1>1, <1>2 DEF AccountInv, AccountTypeOK, Running
<1>4. /\ call'[r] = c /\ pc'[r] = "GetUserByUserName"
      /\ earlier'[r] = {q \in Requests : pc[q] = "over"}
      /\ \A q \in Requests \ {r} :
           call'[q] = call[q] /\ pc'[q] = pc[q] /\ earlier'[q] = earlier[q]
      /\ call[r] = None /\ answer[r] = "none"
      /\ \A q \in Requests : earlier[q] \subseteq Requests
  BY <1>1, <1>2 DEF AccountInv, AccountTypeOK, Underway
<1>5. Underway'
  BY <1>2, <1>4 DEF AccountInv, Underway, Name
<1>6. Registered'
  BY <1>2, <1>4 DEF AccountInv, Registered, Name
<1>7. r \notin login_history /\ \A n \in Names : login_last[n] # r
  <2>1. ~Login(r)
    BY <1>4 DEF Login
  <2>2. r # None
    BY AccountAssumption
  <2> QED BY <2>1, <2>2 DEF AccountInv, LoginsAreRecorded
<1>8. LoginsAreRecorded'
  <2>1. \A q \in login_history : q \in Requests /\ q # r
    BY <1>7 DEF AccountInv, AccountTypeOK
  <2>2. \A n \in Names : login_last[n] # None => login_last[n] \in Requests /\ login_last[n] # r
    BY <1>7 DEF AccountInv, AccountTypeOK
  <2> QED BY <1>2, <1>4, <2>1, <2>2 DEF AccountInv, LoginsAreRecorded, Login, Name
<1>9. LastIsNotStale'
  BY <1>2, <1>4 DEF AccountInv, LastIsNotStale, Login, Name
<1> QED BY <1>3, <1>5, <1>6, <1>8, <1>9 DEF AccountInv

LEMMA GetUserStep ==
  ASSUME AccountInv, NEW r \in Requests, GetUserByUserName(r)
  PROVE  AccountInv'
<1>1. /\ pc[r] \in Running /\ call[r] \in Call
      /\ UNCHANGED <<call, found, database, crashes, earlier>>
      /\ found' \in [Requests -> BOOLEAN] /\ failures \in Nat
      /\ user_info[Name(r)] \in Passwords \cup {None}
  BY DEF GetUserByUserName, Running, AccountInv, AccountTypeOK, Underway, Call, Name
<1>2. CASE call[r].kind = "register" /\ RegisterFinds(r) /\ UNCHANGED failures
  <2>1. CASE user_info[Name(r)] = None
    BY <1>1, <1>2, <2>1, JustGoesOn DEF RegisterFinds, Running
  <2>2. CASE user_info[Name(r)] # None
    BY <1>1, <1>2, <2>2, JustEnds DEF RegisterFinds
  <2> QED BY <2>1, <2>2
<1>3. CASE call[r].kind = "login" /\ LoginFinds(r) /\ UNCHANGED failures
  <2>1. CASE user_info[Name(r)] = call[r].password
    BY <1>1, <1>3, <2>1, JustGoesOn DEF LoginFinds, Running
  <2>2. CASE user_info[Name(r)] # call[r].password
    BY <1>1, <1>3, <2>2, JustEnds DEF LoginFinds
  <2> QED BY <2>1, <2>2
<1>4. CASE CallFails(r)
  BY <1>1, <1>4, FailureEnds
<1> QED BY <1>2, <1>3, <1>4 DEF GetUserByUserName

LEMMA GetLoginLastStep ==
  ASSUME AccountInv, NEW r \in Requests, GetLoginLast(r)
  PROVE  AccountInv'
<1>1. /\ pc[r] \in Running /\ pc[r] = "GetLoginLast"
      /\ UNCHANGED <<call, database, crashes, earlier>>
  BY DEF GetLoginLast, Running
<1>2. CASE /\ found' = [found EXCEPT ![r] = login_last[Name(r)] # None]
           /\ GoOn(r, "SaveLast") /\ UNCHANGED failures
  <2>1. found' \in [Requests -> BOOLEAN]
    BY <1>2 DEF AccountInv, AccountTypeOK
  <2>2. r \in login_history /\ call[r].kind = "login" /\ user_info[Name(r)] = call[r].password
    BY <1>1 DEF AccountInv, Underway
  <2> QED BY <1>1, <1>2, <2>1, <2>2, JustGoesOn DEF Running
<1>3. CASE CallFails(r) /\ UNCHANGED found
  BY <1>1, <1>3, FailureEnds
<1> QED BY <1>2, <1>3 DEF GetLoginLast

\* A write to user_info of a name without a user, by a registration that then
\* ends, successfully or not.
LEMMA SaveUserStep ==
  ASSUME AccountInv, NEW r \in Requests, SaveUser(r)
  PROVE  AccountInv'
<1>1. /\ pc[r] \in Running /\ pc[r] = "SaveUser" /\ call[r] \in Call
      /\ call[r].kind = "register" /\ Name(r) \in Names
      /\ call[r].password \in Passwords /\ call[r].password # None
      /\ UNCHANGED <<call, found, login_history, login_last, crashes, earlier>>
  BY AccountAssumption DEF SaveUser, Running, AccountInv, Underway, Call, Name
<1>2. CASE user_info[Name(r)] # None /\ Duplicate(r) /\ UNCHANGED user_info
  <2>1. found' \in [Requests -> BOOLEAN] /\ failures' \in Nat
    BY <1>1, <1>2 DEF Duplicate, AccountInv, AccountTypeOK
  <2> QED BY <1>1, <1>2, <2>1, JustEnds DEF Duplicate, database
<1>3. CASE CallFails(r) /\ UNCHANGED user_info
  BY <1>1, <1>3, FailureEnds DEF database
<1>4. ASSUME user_info[Name(r)] = None,
             user_info' = [user_info EXCEPT ![Name(r)] = call[r].password],
             NEW a \in {"ok", "unavailable"}, Reply(r, a), failures' \in Nat
      PROVE  AccountInv'
  <2>1. /\ pc' \in [Requests -> Running \cup {"idle", "over"}]
        /\ answer' \in [Requests -> {"none", "ok", "exists", "invalid", "unavailable"}]
        /\ pc'[r] = "over" /\ answer'[r] = a
        /\ \A q \in Requests \ {r} : pc'[q] = pc[q] /\ answer'[q] = answer[q]
    BY <1>4, OthersStay DEF AccountInv, Reply
  <2>2. /\ user_info' \in [Names -> Passwords \cup {None}]
        /\ user_info'[Name(r)] = call[r].password
        /\ \A n \in Names \ {Name(r)} : user_info'[n] = user_info[n]
    BY <1>1, <1>4 DEF AccountInv, AccountTypeOK
  <2>3. AccountTypeOK'
    BY <1>1, <1>4, <2>1, <2>2 DEF AccountInv, AccountTypeOK
  <2>4. ASSUME NEW q \in Requests, call[q] # None,
               user_info[Name(q)] = call[q].password
        PROVE  Name(q) # Name(r) /\ user_info'[Name(q)] = call[q].password
    <3>1. call[q] \in Call
      BY <2>4 DEF AccountInv, AccountTypeOK
    <3>2. call[q].password # None /\ Name(q) \in Names
      BY <3>1, AccountAssumption DEF Call, Name
    <3> QED BY <1>4, <2>2, <2>4, <3>2
  <2>5. ASSUME NEW q \in Requests, pc[q] # "idle" \/ call[q] # None
        PROVE  call[q] \in Call /\ call[q] # None /\ Name(q) \in Names
    <3>1. call[q] \in Call
      BY <2>5 DEF AccountInv, Underway, AccountTypeOK
    <3> QED BY <3>1, AccountAssumption DEF Call, Name
  <2>6. ASSUME NEW q \in Requests, q # r
        PROVE  /\ pc'[q] \in {"SaveHistory", "GetLoginLast", "SaveLast"} =>
                    user_info'[Name(q)] = call[q].password
               /\ answer'[q] = "exists" => user_info'[Name(q)] # None
    <3>1. ASSUME pc'[q] \in {"SaveHistory", "GetLoginLast", "SaveLast"}
          PROVE  user_info'[Name(q)] = call[q].password
      <4>1. pc[q] # "idle" /\ user_info[Name(q)] = call[q].password
        BY <2>1, <2>6, <3>1 DEF AccountInv, Underway
      <4>2. call[q] # None
        BY <2>5, <4>1
      <4> QED BY <2>4, <4>1, <4>2
    <3>2. ASSUME answer'[q] = "exists"
          PROVE  user_info'[Name(q)] # None
      <4>1. answer[q] = "exists" /\ user_info[Name(q)] # None
        BY <2>1, <2>6, <3>2 DEF AccountInv, Underway
      <4>2. pc[q] = "over"
        BY <4>1 DEF AccountInv, Underway
      <4>3. Name(q) \in Names
        BY <2>5, <4>2
      <4> QED BY <1>1, <1>4, <2>2, <4>1, <4>3
    <3> QED BY <3>1, <3>2
  <2>7. Underway'
    <3>1. /\ call' = call /\ earlier' = earlier /\ login_history' = login_history
          /\ \A q \in Requests : Name(q)' = Name(q) /\ earlier[q] \subseteq Requests
      BY <1>1 DEF Name, AccountInv, AccountTypeOK
    <3>2. \A q \in Requests : pc[q] = "over" => pc'[q] = "over"
      BY <2>1
    <3>3. ASSUME NEW q \in Requests
          PROVE  /\ pc'[q] = "idle" => call[q] = None
                 /\ pc'[q] # "idle" => call[q] \in Call
                 /\ pc'[q] # "over" => answer'[q] = "none"
                 /\ pc'[q] = "SaveUser" => call[q].kind = "register"
                 /\ pc'[q] \in {"SaveHistory", "GetLoginLast", "SaveLast"} =>
                      call[q].kind = "login"
                 /\ pc'[q] \in {"GetLoginLast", "SaveLast"} => q \in login_history
                 /\ \A p \in earlier[q] : pc'[p] = "over"
      <4>1. CASE q = r
        BY <1>1, <2>1, <3>1, <3>2, <4>1 DEF AccountInv, Underway
      <4>2. CASE q # r
        BY <2>1, <3>1, <3>2, <4>2 DEF AccountInv, Underway
      <4> QED BY <4>1, <4>2
    <3>4. ASSUME NEW q \in Requests
          PROVE  /\ pc'[q] \in {"SaveHistory", "GetLoginLast", "SaveLast"} =>
                      user_info'[Name(q)] = call[q].password
                 /\ answer'[q] = "exists" => user_info'[Name(q)] # None
      BY <2>1, <2>6
    <3> QED BY <3>1, <3>3, <3>4 DEF Underway
  <2>8. ASSUME NEW q \in Requests, q # r, answer[q] = "ok", call[q].kind = "register"
        PROVE  Name(q) # Name(r) /\ user_info'[Name(q)] = call[q].password
    <3>1. user_info[Name(q)] = call[q].password
      BY <2>8 DEF AccountInv, Registered
    <3>2. pc[q] = "over"
      BY <2>8 DEF AccountInv, Underway
    <3>3. call[q] # None
      BY <2>5, <3>2
    <3> QED BY <2>4, <3>1, <3>3
  <2>9. Registered'
    <3>1. call' = call /\ \A q \in Requests : Name(q)' = Name(q)
      BY <1>1 DEF Name
    <3> QED BY <2>1, <2>2, <2>8, <3>1 DEF AccountInv, Registered
  <2>10. LoginsAreRecorded'
    <3>1. ASSUME NEW q \in login_history
          PROVE  Login(q) /\ user_info'[Name(q)] = call[q].password
      <4>1. Login(q) /\ user_info[Name(q)] = call[q].password /\ q \in Requests
        BY DEF AccountInv, LoginsAreRecorded, AccountTypeOK
      <4> QED BY <2>4, <4>1 DEF Login
    <3>2. \A q \in Requests : Login(q)' = Login(q) /\ Name(q)' = Name(q)
      BY <1>1 DEF Login, Name
    <3>3. \A q \in Requests : Login(q) /\ answer'[q] = "ok" => q \in login_history
      BY <1>1, <2>1 DEF AccountInv, LoginsAreRecorded, Login
    <3>4. login_history \subseteq Requests /\ login_last \in [Names -> Requests \cup {None}]
      BY DEF AccountInv, AccountTypeOK
    <3>5. \A n \in Names : login_last[n] # None =>
            login_last[n] \in login_history /\ Name(login_last[n]) = n
      BY DEF AccountInv, LoginsAreRecorded
    <3> QED BY <1>1, <3>1, <3>2, <3>3, <3>4, <3>5 DEF LoginsAreRecorded
  <2>11. LastIsNotStale'
    BY <1>1, <2>1 DEF AccountInv, LastIsNotStale, Login, Name
  <2> QED BY <2>3, <2>7, <2>9, <2>10, <2>11 DEF AccountInv
<1>5. CASE /\ user_info[Name(r)] = None
           /\ user_info' = [user_info EXCEPT ![Name(r)] = call[r].password]
           /\ (Reply(r, "ok") /\ UNCHANGED failures) \/ CallFails(r)
  <2>1. failures' \in Nat
    BY <1>5 DEF CallFails, AccountInv, AccountTypeOK
  <2>2. Reply(r, "ok") \/ Reply(r, "unavailable")
    BY <1>5 DEF CallFails
  <2> QED BY <1>4, <1>5, <2>1, <2>2
<1> QED BY <1>2, <1>3, <1>5 DEF SaveUser

\* A login that goes on, or ends, once it is in the history.
LEMMA SaveHistoryStep ==
  ASSUME AccountInv, NEW r \in Requests, SaveHistory(r)
  PROVE  AccountInv'
<1>1. /\ pc[r] \in Running /\ pc[r] = "SaveHistory"
      /\ call[r] \in Call /\ call[r] # None /\ call[r].kind = "login"
      /\ user_info[Name(r)] = call[r].password
      /\ UNCHANGED <<call, found, user_info, login_last, crashes, earlier>>
  BY AccountAssumption DEF SaveHistory, Running, AccountInv, Underway
<1>2. CASE CallFails(r) /\ UNCHANGED login_history
  BY <1>1, <1>2, FailureEnds DEF database
<1>3. ASSUME login_history' = login_history \cup {r}, failures' \in Nat,
             NEW s \in {"GetLoginLast", "over"}, NEW a \in {"none", "unavailable"},
             pc' = [pc EXCEPT ![r] = s], answer' = [answer EXCEPT ![r] = a],
             s = "GetLoginLast" => a = "none"
      PROVE  AccountInv'
  <2>1. /\ pc' \in [Requests -> Running \cup {"idle", "over"}]
        /\ answer' \in [Requests -> {"none", "ok", "exists", "invalid", "unavailable"}]
        /\ pc'[r] = s /\ answer'[r] = a
        /\ \A q \in Requests \ {r} : pc'[q] = pc[q] /\ answer'[q] = answer[q]
    <3>1. s \in Running \cup {"idle", "over"}
      BY DEF Running
    <3> QED BY <1>3, <3>1, OthersStay DEF AccountInv
  <2>2. AccountTypeOK'
    BY <1>1, <1>3, <2>1 DEF AccountInv, AccountTypeOK
  <2>3. \A q \in Requests : Name(q)' = Name(q) /\ Login(q)' = Login(q)
    BY <1>1 DEF Name, Login
  <2>4. \A q \in Requests : (pc[q] = "over" => pc'[q] = "over") /\ earlier[q] \subseteq Requests
    BY <1>1, <2>1 DEF AccountInv, AccountTypeOK
  <2>5. Underway'
    <3>1. ASSUME NEW q \in Requests
          PROVE  /\ pc'[q] = "idle" => call[q] = None
                 /\ pc'[q] # "idle" => call[q] \in Call
                 /\ pc'[q] # "over" => answer'[q] = "none"
                 /\ pc'[q] = "SaveUser" => call[q].kind = "register"
                 /\ pc'[q] \in {"SaveHistory", "GetLoginLast", "SaveLast"} =>
                      call[q].kind = "login" /\ user_info[Name(q)] = call[q].password
                 /\ pc'[q] \in {"GetLoginLast", "SaveLast"} => q \in login_history'
                 /\ answer'[q] = "exists" => user_info[Name(q)] # None
                 /\ \A p \in earlier[q] : pc'[p] = "over"
      <4>1. CASE q = r
        BY <1>1, <1>3, <2>1, <2>4, <4>1 DEF AccountInv, Underway
      <4>2. CASE q # r
        BY <1>3, <2>1, <2>4, <4>2 DEF AccountInv, Underway
      <4> QED BY <4>1, <4>2
    <3> QED BY <1>1, <2>3, <3>1 DEF Underway
  <2>6. \A q \in Requests : answer'[q] = "ok" => answer[q] = "ok"
    BY <2>1
  <2>7. Registered'
    BY <1>1, <2>3, <2>6 DEF AccountInv, Registered
  <2>8. LoginsAreRecorded'
    <3>1. Login(r)
      BY <1>1 DEF Login
    <3>2. login_history \subseteq Requests /\ login_last \in [Names -> Requests \cup {None}]
      BY DEF AccountInv, AccountTypeOK
    <3>3. \A q \in login_history' : q \in Requests /\ Login(q) /\ user_info[Name(q)] = call[q].password
      BY <1>1, <1>3, <3>1, <3>2 DEF AccountInv, LoginsAreRecorded
    <3>4. \A n \in Names : login_last[n] # None =>
            login_last[n] \in login_history' /\ login_last[n] \in Requests /\ Name(login_last[n]) = n
      BY <1>3, <3>2 DEF AccountInv, LoginsAreRecorded
    <3>5. \A q \in Requests : Login(q) /\ answer'[q] = "ok" => q \in login_history'
      BY <1>3, <2>6 DEF AccountInv, LoginsAreRecorded
    <3> QED BY <1>1, <2>3, <3>3, <3>4, <3>5 DEF LoginsAreRecorded
  <2>9. LastIsNotStale'
    BY <1>1, <2>3, <2>6 DEF AccountInv, LastIsNotStale
  <2> QED BY <2>2, <2>5, <2>7, <2>8, <2>9 DEF AccountInv
<1>4. CASE /\ login_history' = login_history \cup {r}
           /\ GoOn(r, "GetLoginLast") /\ UNCHANGED failures
  <2>1. answer' = [answer EXCEPT ![r] = "none"]
    BY <1>1, <1>4 DEF GoOn, AccountInv, AccountTypeOK, Underway
  <2>2. failures' \in Nat
    BY <1>4 DEF AccountInv, AccountTypeOK
  <2> QED BY <1>3, <1>4, <2>1, <2>2 DEF GoOn
<1>5. CASE login_history' = login_history \cup {r} /\ CallFails(r)
  <2>1. failures' \in Nat
    BY <1>5 DEF CallFails, AccountInv, AccountTypeOK
  <2> QED BY <1>3, <1>5, <2>1 DEF CallFails, Reply
<1> QED BY <1>2, <1>4, <1>5 DEF SaveHistory

\* The row of the last login becomes this login's, which no login that is
\* already answered was preceded by.
LEMMA SaveLastStep ==
  ASSUME AccountInv, NEW r \in Requests, SaveLast(r)
  PROVE  AccountInv'
<1>1. /\ pc[r] \in Running /\ pc[r] = "SaveLast"
      /\ call[r] \in Call /\ call[r].kind = "login" /\ Name(r) \in Names
      /\ r \in login_history /\ r # None
      /\ UNCHANGED <<call, found, user_info, login_history, crashes, earlier>>
  BY AccountAssumption DEF SaveLast, Running, AccountInv, Underway, Call, Name
<1>2. CASE CallFails(r) /\ UNCHANGED login_last
  BY <1>1, <1>2, FailureEnds DEF database
<1>3. CASE ~found[r] /\ Reply(r, "unavailable") /\ UNCHANGED <<login_last, failures>>
  <2>1. found' \in [Requests -> BOOLEAN] /\ failures' \in Nat
    BY <1>1, <1>3 DEF AccountInv, AccountTypeOK
  <2> QED BY <1>1, <1>3, <2>1, JustEnds DEF database
<1>4. ASSUME login_last' = Written(r), failures' \in Nat,
             NEW a \in {"ok", "unavailable"}, Reply(r, a)
      PROVE  AccountInv'
  <2>1. /\ pc' \in [Requests -> Running \cup {"idle", "over"}]
        /\ answer' \in [Requests -> {"none", "ok", "exists", "invalid", "unavailable"}]
        /\ pc'[r] = "over" /\ answer'[r] = a
        /\ \A q \in Requests \ {r} : pc'[q] = pc[q] /\ answer'[q] = answer[q]
    BY <1>4, OthersStay DEF AccountInv, Reply
  <2>2. /\ login_last' \in [Names -> Requests \cup {None}]
        /\ login_last'[Name(r)] = r
        /\ \A n \in Names \ {Name(r)} : login_last'[n] = login_last[n]
    BY <1>1, <1>4 DEF AccountInv, AccountTypeOK, Written
  <2>3. AccountTypeOK'
    BY <1>1, <1>4, <2>1, <2>2 DEF AccountInv, AccountTypeOK
  <2>4. \A q \in Requests : Name(q)' = Name(q) /\ Login(q)' = Login(q)
    BY <1>1 DEF Name, Login
  <2>5. \A q \in Requests : (pc[q] = "over" => pc'[q] = "over") /\ earlier[q] \subseteq Requests
    BY <1>1, <2>1 DEF AccountInv, AccountTypeOK
  <2>6. Underway'
    <3>1. ASSUME NEW q \in Requests
          PROVE  /\ pc'[q] = "idle" => call[q] = None
                 /\ pc'[q] # "idle" => call[q] \in Call
                 /\ pc'[q] # "over" => answer'[q] = "none"
                 /\ pc'[q] = "SaveUser" => call[q].kind = "register"
                 /\ pc'[q] \in {"SaveHistory", "GetLoginLast", "SaveLast"} =>
                      call[q].kind = "login" /\ user_info[Name(q)] = call[q].password
                 /\ pc'[q] \in {"GetLoginLast", "SaveLast"} => q \in login_history
                 /\ answer'[q] = "exists" => user_info[Name(q)] # None
                 /\ \A p \in earlier[q] : pc'[p] = "over"
      <4>1. CASE q = r
        BY <1>1, <2>1, <2>5, <4>1 DEF AccountInv, Underway
      <4>2. CASE q # r
        BY <2>1, <2>5, <4>2 DEF AccountInv, Underway
      <4> QED BY <4>1, <4>2
    <3> QED BY <1>1, <2>4, <3>1 DEF Underway
  <2>7. Registered'
    <3>1. \A q \in Requests : answer'[q] = "ok" /\ call[q].kind = "register" => answer[q] = "ok"
      BY <1>1, <2>1
    <3> QED BY <1>1, <2>4, <3>1 DEF AccountInv, Registered
  <2>8. LoginsAreRecorded'
    <3>1. login_history \subseteq Requests /\ login_last \in [Names -> Requests \cup {None}]
      BY DEF AccountInv, AccountTypeOK
    <3>2. \A q \in login_history : Login(q) /\ user_info[Name(q)] = call[q].password
      BY DEF AccountInv, LoginsAreRecorded
    <3>3. ASSUME NEW n \in Names, login_last'[n] # None
          PROVE  login_last'[n] \in login_history /\ Name(login_last'[n]) = n
      <4>1. CASE n = Name(r)
        BY <1>1, <2>2, <4>1
      <4>2. CASE n # Name(r)
        BY <2>2, <3>3, <4>2 DEF AccountInv, LoginsAreRecorded
      <4> QED BY <4>1, <4>2
    <3>4. \A q \in Requests : Login(q) /\ answer'[q] = "ok" => q \in login_history
      BY <1>1, <2>1 DEF AccountInv, LoginsAreRecorded
    <3> QED BY <1>1, <2>2, <2>4, <3>1, <3>2, <3>3, <3>4 DEF LoginsAreRecorded
  <2>9. LastIsNotStale'
    <3>1. ASSUME NEW q \in Requests, Login(q), answer'[q] = "ok"
          PROVE  login_last'[Name(q)] # None /\ login_last'[Name(q)] \notin earlier[q]
      <4>1. r \notin earlier[q]
        BY <1>1 DEF AccountInv, Underway
      <4>2. CASE Name(q) = Name(r)
        BY <1>1, <2>2, <4>1, <4>2
      <4>3. CASE Name(q) # Name(r)
        <5>1. q # r /\ answer[q] = "ok" /\ pc[q] # "idle"
          BY <2>1, <3>1, <4>3 DEF AccountInv, Underway
        <5>2. Name(q) \in Names
          BY <5>1 DEF AccountInv, Underway, Call, Name
        <5> QED BY <2>2, <3>1, <4>3, <5>1, <5>2 DEF AccountInv, LastIsNotStale
      <4> QED BY <4>2, <4>3
    <3> QED BY <1>1, <2>4, <3>1 DEF LastIsNotStale
  <2> QED BY <2>3, <2>6, <2>7, <2>8, <2>9 DEF AccountInv
<1>5. CASE /\ login_last' = Written(r)
           /\ (Reply(r, "ok") /\ UNCHANGED failures) \/ CallFails(r)
  <2>1. failures' \in Nat
    BY <1>5 DEF CallFails, AccountInv, AccountTypeOK
  <2>2. Reply(r, "ok") \/ Reply(r, "unavailable")
    BY <1>5 DEF CallFails
  <2> QED BY <1>4, <1>5, <2>1, <2>2
<1> QED BY <1>2, <1>3, <1>5 DEF SaveLast

LEMMA AccountCrashStep ==
  ASSUME AccountInv, Crash
  PROVE  AccountInv'
<1>1. /\ pc' = [r \in Requests |-> IF pc[r] \in Running THEN "over" ELSE pc[r]]
      /\ crashes' = crashes + 1
      /\ UNCHANGED <<call, found, answer, user_info, login_history, login_last, failures, earlier>>
  BY DEF Crash, database
<1>2. AccountTypeOK'
  BY <1>1 DEF AccountInv, AccountTypeOK, Running
<1>3. \A r \in Requests :
        /\ pc'[r] # "idle" => pc[r] # "idle"
        /\ pc'[r] = "idle" => pc[r] = "idle"
        /\ pc'[r] \in Running => FALSE
        /\ pc[r] = "over" => pc'[r] = "over"
        /\ pc'[r] # "over" => pc[r] # "over"
        /\ earlier[r] \subseteq Requests
  BY <1>1 DEF AccountInv, AccountTypeOK, Running
<1>4. Underway'
  BY <1>1, <1>3 DEF AccountInv, Underway, Running, Name
<1>5. Registered' /\ LoginsAreRecorded' /\ LastIsNotStale'
  BY <1>1 DEF AccountInv, Registered, LoginsAreRecorded, LastIsNotStale, Login, Name
<1> QED BY <1>2, <1>4, <1>5 DEF AccountInv

LEMMA AccountInvStep ==
  ASSUME AccountInv, [AccountNext]_accountVars
  PROVE  AccountInv'
<1>1. CASE AccountNext
  BY <1>1, SendStep, GetUserStep, SaveUserStep, SaveHistoryStep, GetLoginLastStep,
     SaveLastStep, AccountCrashStep
  DEF AccountNext
<1>2. CASE UNCHANGED accountVars
  BY <1>2
  DEF accountVars, database, AccountInv, AccountTypeOK, Underway, Registered,
      LoginsAreRecorded, LastIsNotStale, Login, Name
<1> QED BY <1>1, <1>2

LEMMA AccountInvHolds == AccountSpec => []AccountInv
BY AccountInvInit, AccountInvStep, PTL DEF AccountSpec

\* The type invariant of the account service.
THEOREM AccountTypesHold == AccountSpec => []AccountTypeOK
<1>1. AccountInv => AccountTypeOK
  BY DEF AccountInv
<1> QED BY <1>1, AccountInvHolds, PTL

\* However registrations of a name race, fail or are sent again, one at most
\* is answered with success, and its password is the account's.
THEOREM NamesHaveOneOwner == AccountSpec => []OneOwner
<1>1. AccountInv => OneOwner
  BY DEF AccountInv, OneOwner, Registered, Underway
<1> QED BY <1>1, AccountInvHolds, PTL

\* A session is given to a user with the password only, and is on record.
THEOREM LoginsStayRecorded == AccountSpec => []LoginsAreRecorded
<1>1. AccountInv => LoginsAreRecorded
  BY DEF AccountInv
<1> QED BY <1>1, AccountInvHolds, PTL

\* Once a login has succeeded, the row of the last login is its own, or that
\* of a login that it did not follow.
THEOREM LastStaysRecent == AccountSpec => []LastIsNotStale
<1>1. AccountInv => LastIsNotStale
  BY DEF AccountInv
<1> QED BY <1>1, AccountInvHolds, PTL

\* The two tables tell the logins that took place, whatever fails or crashes
\* between the calls of a login.
THEOREM TablesTellLogins == AccountSpec => []LoginsAreTold
BY LoginsStayRecorded, LastStaysRecent, PTL DEF LoginsAreTold
=============================================================================
