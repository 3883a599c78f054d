----------------------------- MODULE Snowflake ------------------------------
(***************************************************************************)
(* The ids of cities, generals, war reports.                               *)
(*                                                                         *)
(* Every process has one generator.  An id is made of the time in          *)
(* milliseconds, of the node of the process, and of a number that counts   *)
(* the ids of one millisecond.  When the numbers of a millisecond are used *)
(* up, NextID waits for the next one, with the lock held.  The clock of    *)
(* the machine may be set back: the generator then stays at the latest     *)
(* time it has used.  It forgets it when the process is restarted.         *)
(***************************************************************************)
EXTENDS Naturals, Sequences

CONSTANTS
  Processes,    \* the processes that make ids
  Node,         \* SNOWFLAKE_NODE_ID of each of them
  MaxNode,      \* maxNodeID (code: 1023)
  MaxSeq,       \* maxSeq (code: 4095)
  MaxTime,      \* bounds of the runs: the clock,
  MaxIds,       \* the ids that a process makes,
  MaxRestarts,  \* how often processes are restarted
  MaxSetBacks   \* and the clock is set back

ASSUME SnowflakeAssumption ==
  /\ MaxNode \in Nat /\ MaxSeq \in Nat
  /\ Node \in [Processes -> 0 .. MaxNode]
  /\ \A p, q \in Processes : Node[p] = Node[q] => p = q
  /\ MaxTime \in Nat /\ MaxIds \in Nat /\ MaxRestarts \in Nat /\ MaxSetBacks \in Nat

VARIABLES
  clock,     \* of the machine, milliseconds since the epoch of the ids
  lastTS,    \* per process: the time of its latest id, 0 when it has none
  seq,       \* and the number in that millisecond
  waiting,   \* does NextID wait for the next millisecond?
  ids,       \* history: the ids the process has made, in all its lives
  before,    \* history: how many of them in earlier lives
  setBacks, restarts

genVars == <<lastTS, seq, waiting>>
snowflakeVars == <<clock, genVars, ids, before, setBacks, restarts>>

SnowflakeTypeOK ==
  /\ clock \in Nat \ {0}
  /\ lastTS \in [Processes -> Nat]
  /\ seq \in [Processes -> 0 .. MaxSeq]
  /\ waiting \in [Processes -> BOOLEAN]
  /\ ids \in [Processes -> Seq(Nat)]
  /\ before \in [Processes -> Nat]
  /\ setBacks \in Nat /\ restarts \in Nat

SnowflakeInit ==
  /\ clock = 1
  /\ lastTS = [p \in Processes |-> 0] /\ seq = [p \in Processes |-> 0]
  /\ waiting = [p \in Processes |-> FALSE]
  /\ ids = [p \in Processes |-> <<>>] /\ before = [p \in Processes |-> 0]
  /\ setBacks = 0 /\ restarts = 0

\* The time, the node and the number, shifted next to each other.
ID(ts, node, n) == (ts * (MaxNode + 1) + node) * (MaxSeq + 1) + n

\* NextID returns.
Return(p, ts, n) ==
  /\ lastTS' = [lastTS EXCEPT ![p] = ts]
  /\ seq' = [seq EXCEPT ![p] = n]
  /\ ids' = [ids EXCEPT ![p] = Append(@, ID(ts, Node[p], n))]
  /\ UNCHANGED <<clock, before, setBacks, restarts>>

Called(p) == ~waiting[p] /\ Len(ids[p]) < MaxIds

\* Mutation of NextInNewMillisecond: a clock that was set back is followed.
NextWhateverTheClock(p) ==
  /\ Called(p)
  /\ clock # lastTS[p]
  /\ Return(p, clock, 0)
  /\ UNCHANGED waiting

\* The clock is past the latest id.
NextInNewMillisecond(p) ==
  /\ Called(p)
  /\ clock > lastTS[p]
  /\ Return(p, clock, 0)
  /\ UNCHANGED waiting

\* Mutation of NextInSameMillisecond: the number may pass its bits.
NextBeyondTheMask(p) ==
  /\ Called(p)
  /\ clock <= lastTS[p]
  /\ Return(p, lastTS[p], seq[p] + 1)
  /\ UNCHANGED waiting

\* It is not: the next number of the latest millisecond.
NextInSameMillisecond(p) ==
  /\ Called(p)
  /\ clock <= lastTS[p]
  /\ seq[p] < MaxSeq
  /\ Return(p, lastTS[p], seq[p] + 1)
  /\ UNCHANGED waiting

\* There is none left: NextID begins to wait.
Exhausted(p) ==
  /\ Called(p)
  /\ clock <= lastTS[p]
  /\ seq[p] = MaxSeq
  /\ seq' = [seq EXCEPT ![p] = 0]
  /\ waiting' = [waiting EXCEPT ![p] = TRUE]
  /\ UNCHANGED <<clock, lastTS, ids, before, setBacks, restarts>>

\* Mutation of waitNextMillisecond: it does not wait for the next one.
WaitNotAtAll(p) ==
  /\ waiting[p]
  /\ clock >= lastTS[p]
  /\ Return(p, clock, 0)
  /\ waiting' = [waiting EXCEPT ![p] = FALSE]

waitNextMillisecond(p) ==
  /\ waiting[p]
  /\ clock > lastTS[p]
  /\ Return(p, clock, 0)
  /\ waiting' = [waiting EXCEPT ![p] = FALSE]

\* Time goes on.
Advance ==
  /\ clock < MaxTime
  /\ clock' = clock + 1
  /\ UNCHANGED <<genVars, ids, before, setBacks, restarts>>

\* The clock of the machine is set back.
SetBack ==
  /\ setBacks < MaxSetBacks
  /\ setBacks' = setBacks + 1
  /\ \E t \in 1 .. clock - 1 : clock' = t
  /\ UNCHANGED <<genVars, ids, before, restarts>>

\* Mutation of Restart: the process is back within the millisecond.
RestartAtOnce(p) ==
  /\ restarts < MaxRestarts
  /\ restarts' = restarts + 1
  /\ lastTS' = [lastTS EXCEPT ![p] = 0]
  /\ seq' = [seq EXCEPT ![p] = 0]
  /\ waiting' = [waiting EXCEPT ![p] = FALSE]
  /\ before' = [before EXCEPT ![p] = Len(ids[p])]
  /\ UNCHANGED <<clock, ids, setBacks>>

\* The process dies and is started again, which takes a millisecond or more;
\* its new generator knows nothing of the old one.
Restart(p) ==
  /\ restarts < MaxRestarts /\ clock < MaxTime
  /\ restarts' = restarts + 1
  /\ clock' = clock + 1
  /\ lastTS' = [lastTS EXCEPT ![p] = 0]
  /\ seq' = [seq EXCEPT ![p] = 0]
  /\ waiting' = [waiting EXCEPT ![p] = FALSE]
  /\ before' = [before EXCEPT ![p] = Len(ids[p])]
  /\ UNCHANGED <<ids, setBacks>>

SnowflakeNext ==
  \/ Advance \/ SetBack
  \/ \E p \in Processes :
       \/ NextInNewMillisecond(p) \/ NextInSameMillisecond(p)
       \/ Exhausted(p) \/ waitNextMillisecond(p)
       \/ Restart(p)

SnowflakeSpec == SnowflakeInit /\ [][SnowflakeNext]_snowflakeVars

-----------------------------------------------------------------------------
(* Properties.                                                             *)

\* The ids that a process makes in one life increase, whatever the clock
\* does, and however many it makes in one millisecond.
IdsIncrease ==
  \A p \in Processes : \A i, j \in DOMAIN ids[p] :
    before[p] < i /\ i < j => ids[p][i] < ids[p][j]

\* No id is made twice, by whichever processes in whichever of their lives,
\* as long as the clock has not been set back.
IdsAreUnique ==
  setBacks = 0 =>
    \A p, q \in Processes : \A i \in DOMAIN ids[p], j \in DOMAIN ids[q] :
      ids[p][i] = ids[q][j] => p = q /\ i = j

\* The ids name what they are given to, and tell its age.
IdsAreFresh == IdsIncrease /\ IdsAreUnique
=============================================================================
