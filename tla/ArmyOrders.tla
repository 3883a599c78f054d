----------------------------- MODULE ArmyOrders -----------------------------
(***************************************************************************)
(* The orders of a player to an army, end to end: the player actor checks  *)
(* its own view of the army, asks the world actor for an attack or a       *)
(* return and goes on with other messages, the answer comes back as a      *)
(* continuation, and battles and homecomings are pushed to the player.     *)
(* Requests may time out, and the process may crash.  The world itself is  *)
(* WorldMarch; here `orders' counts the requests that were sent.           *)
(*                                                                         *)
(* Every actor has a mailbox, which is handled in order; continuations     *)
(* come before other messages.  The mailbox of a player is kept apart for  *)
(* each army: messages about different armies touch different state.       *)
(***************************************************************************)
EXTENDS WorldMarch, Sequences

CONSTANTS
  MaxTimeouts,  \* bound: requests that are given up
  MaxCrashes    \* bound: crashes of the process

ASSUME OrdersOK == MaxTimeouts \in Nat /\ MaxCrashes \in Nat

VARIABLES
  views,        \* PlayerEntity.armies
  inbox,        \* mailbox of the world actor: orders
  waiting,      \* the orders whose future is still open
  replies,      \* continuations posted to the player, by army
  pushes,       \* WHBattleResult and WHArmySync for the player, by army
  stored,       \* the documents of the world and of the players
  timeouts, crashes

mailVars == <<inbox, waiting, replies, pushes>>
boundVars == <<timeouts, crashes>>
orderVars == <<marchVars, views, mailVars, stored, boundVars>>

\* What a message says about an army.
Report == [cmd : {"idle", "attack", "back"}, running : BOOLEAN,
           from : Cell, to : Cell]

\* The player's view of an army.
View == [report : Report, frozen : BOOLEAN]

OrderMsg == [id : 1 .. MaxOrders, army : Army, cmd : {"attack", "back"},
             to : Cell]

Stored == [armies : [Army -> ArmyState \cup {None}],
           marches : [Army -> Leg \cup {None}],
           cellToMarch : [Cell -> SUBSET Army],
           views : [Army -> View]]

OrdersTypeOK ==
  /\ MarchTypeOK
  /\ views \in [Army -> View]
  /\ inbox \in Seq(OrderMsg)
  /\ waiting \subseteq 1 .. MaxOrders
  /\ replies \in [Army -> Seq(Report)]
  /\ pushes \in [Army -> Seq(Report)]
  /\ stored \in Stored
  /\ timeouts \in Nat /\ crashes \in Nat

Home(a) == City[Owner[a]]

OrdersInit ==
  /\ MarchInit
  /\ views = [a \in Army |->
       [report |-> [cmd |-> "idle", running |-> FALSE,
                    from |-> Home(a), to |-> Home(a)],
        frozen |-> FALSE]]
  /\ inbox = <<>> /\ waiting = {}
  /\ replies = [a \in Army |-> <<>>]
  /\ pushes = [a \in Army |-> <<>>]
  /\ stored = [armies |-> armies, marches |-> marches,
               cellToMarch |-> cellToMarch, views |-> views]
  /\ timeouts = 0 /\ crashes = 0

-----------------------------------------------------------------------------
(* The player actor.                                                       *)

\* No continuation waits for the player of army a: then, and only then, the
\* actor takes another message.
Idle(a) == \A b \in Army : Owner[b] = Owner[a] => replies[b] = <<>>

\* RequestFuture: the order is sent and a future is open.
Send(a, cmd, to) ==
  /\ orders < MaxOrders
  /\ orders' = orders + 1
  /\ inbox' = Append(inbox,
       [id |-> orders + 1, army |-> a, cmd |-> cmd, to |-> to])
  /\ waiting' = waiting \cup {orders + 1}
  /\ UNCHANGED <<worldVars, views, replies, pushes, stored, boundVars>>

\* HandleAssignArmyRequest and AssignPreCheck.
MayGoOut(a) == ~views[a].frozen /\ views[a].report.cmd = "idle"

AssignAttack(a, x) == Idle(a) /\ MayGoOut(a) /\ Send(a, "attack", x)

\* A return is asked for without any check.
AssignBack(a) == Idle(a) /\ Send(a, "back", Home(a))

\* Mutation of Freezes: an attack does not freeze.
FreezesReturns(report) == report.cmd # "attack"

\* Whether an accepted order, reported thus, freezes the army.
Freezes(report) == TRUE

\* The continuation of an order that the world accepted.
Resume(a) ==
  /\ replies[a] # <<>>
  /\ views' = [views EXCEPT ![a] =
       [report |-> Head(replies[a]), frozen |-> Freezes(Head(replies[a]))]]
  /\ replies' = [replies EXCEPT ![a] = Tail(@)]
  /\ UNCHANGED <<marchVars, inbox, waiting, pushes, stored, boundVars>>

\* Mutation of Thawed: a push that says nothing about freezing is taken to
\* leave the army frozen.
StillFrozen(a) == views[a].frozen

\* The frozen flag after a push for army a.
Thawed(a) == FALSE

\* HandleWHBattleResult and HandleWHArmySync.
ReceivePush(a) ==
  /\ Idle(a)
  /\ pushes[a] # <<>>
  /\ views' = [views EXCEPT ![a] =
       [report |-> Head(pushes[a]), frozen |-> Thawed(a)]]
  /\ pushes' = [pushes EXCEPT ![a] = Tail(@)]
  /\ UNCHANGED <<marchVars, inbox, waiting, replies, stored, boundVars>>

\* The future gives up; an answer that comes later is dropped.
TimeOut(n) ==
  /\ n \in waiting
  /\ timeouts < MaxTimeouts
  /\ timeouts' = timeouts + 1
  /\ waiting' = waiting \ {n}
  /\ UNCHANGED <<marchVars, views, inbox, replies, pushes, stored, crashes>>

-----------------------------------------------------------------------------
(* The world actor.                                                        *)

\* What the world says about an army.
ReportOf(army) ==
  [cmd |-> army.cmd, running |-> army.running,
   from |-> army.leg.from, to |-> army.leg.to]

\* The first order is carried out, if it is accepted, and answered.
Accept(o) ==
  /\ \/ o.cmd = "attack" /\ Attack(o.army, o.to)
     \/ o.cmd = "back" /\ Back(o.army)
  /\ replies' =
       IF o.id \in waiting
       THEN [replies EXCEPT ![o.army] =
               Append(@, ReportOf(armies'[o.army]))]
       ELSE replies

\* A refusal changes nothing at the player.
Refuse(o) ==
  /\ o.cmd = "attack" => ~AttackAccepted(o.army, o.to)
  /\ o.cmd = "back" => ~BackAccepted(o.army)
  /\ UNCHANGED <<worldVars, replies>>

HandleOrder ==
  /\ inbox # <<>>
  /\ inbox' = Tail(inbox)
  /\ waiting' = waiting \ {Head(inbox).id}
  /\ Accept(Head(inbox)) \/ Refuse(Head(inbox))
  /\ UNCHANGED <<orders, views, pushes, stored, boundVars>>

\* Mutation of Reported: an army that came home is not reported.
ReportedBattles == Turning

\* The armies whose players are told: battles and homecomings.
Reported == Turning \cup Landing

\* The tick pushes what became of the armies that arrived.
TickAndPush ==
  /\ Tick
  /\ pushes' = [a \in Army |->
       IF a \in Reported
       THEN Append(pushes[a], ReportOf(armies'[a])) ELSE pushes[a]]
  /\ UNCHANGED <<orders, views, inbox, waiting, replies, stored, boundVars>>

\* A unit of time is longer than the time limit of a request.  Start and end
\* of a march are clock times, so stored marches get older too.
TimePasses ==
  /\ waiting = {}
  /\ Elapse
  /\ stored' = [stored EXCEPT !.armies = OlderArmies(@),
                              !.marches = OlderMarches(@)]
  /\ UNCHANGED <<orders, views, mailVars, boundVars>>

-----------------------------------------------------------------------------
(* The documents.  Each is written now and then, behind the actor's back.  *)

\* Mutation of WorldDocument: the march table is not a part of it.
WorldDocumentOfPool ==
  [stored EXCEPT !.armies = armies, !.cellToMarch = cellToMarch]

WorldDocument ==
  [stored EXCEPT !.armies = armies, !.marches = marches,
                 !.cellToMarch = cellToMarch]

PlayerDocument(p) ==
  [stored EXCEPT !.views =
     [a \in Army |-> IF Owner[a] = p THEN views[a] ELSE @[a]]]

Store ==
  /\ MaxCrashes > crashes
  /\ stored' \in {WorldDocument} \cup {PlayerDocument(p) : p \in Player}
  /\ UNCHANGED <<marchVars, views, mailVars, boundVars>>

\* The actors come back from their documents, with empty mailboxes.
Crash ==
  /\ crashes < MaxCrashes
  /\ crashes' = crashes + 1
  /\ armies' = stored.armies /\ marches' = stored.marches
  /\ cellToMarch' = stored.cellToMarch
  /\ views' = stored.views
  /\ inbox' = <<>> /\ waiting' = {}
  /\ replies' = [a \in Army |-> <<>>]
  /\ pushes' = [a \in Army |-> <<>>]
  /\ UNCHANGED <<orders, stored, timeouts>>

-----------------------------------------------------------------------------

OrdersNext ==
  \/ \E a \in Army, x \in Cell : AssignAttack(a, x)
  \/ \E a \in Army : AssignBack(a) \/ Resume(a) \/ ReceivePush(a)
  \/ \E n \in waiting : TimeOut(n)
  \/ HandleOrder \/ TickAndPush \/ TimePasses
  \/ Store \/ Crash

\* Actors work through their mailboxes, the ticker ticks and time passes.
OrdersSpec ==
  /\ OrdersInit /\ [][OrdersNext]_orderVars
  /\ WF_orderVars(HandleOrder)
  /\ WF_orderVars(TickAndPush)
  /\ WF_orderVars(TimePasses)
  /\ \A a \in Army : WF_orderVars(Resume(a)) /\ WF_orderVars(ReceivePush(a))

-----------------------------------------------------------------------------
(* Properties.  Some hold until something goes wrong that the program does *)
(* not provide for: an answer that comes too late, or a crash between the  *)
(* documents of the world and of the player.                               *)

OnTime == timeouts = 0
NoCrash == crashes = 0

\* The player is told nothing more about army a.
Quiet(a) ==
  /\ \A i \in DOMAIN inbox : inbox[i].army # a
  /\ replies[a] = <<>> /\ pushes[a] = <<>>

\* A frozen army is one that the world has on its way, or the message that
\* thaws it is in the player's mailbox, if the process has not crashed.
FrozenIsServed ==
  NoCrash => \A a \in Army : views[a].frozen =>
    \/ armies[a] # None /\ armies[a].running
    \/ pushes[a] # <<>>

\* An army on its way to attack is frozen, so that the player cannot change
\* it, from the moment the player is done with what the world told it.
AttackIsFrozen ==
  \A a \in Army :
    armies[a] # None /\ armies[a].cmd = "attack" /\ Quiet(a) =>
      views[a].frozen

\* An army is frozen while it is out on an attack, and only as long as that
\* is going to end: the first as long as answers come in time.
FrozenWhileOut == FrozenIsServed /\ (OnTime /\ NoCrash => AttackIsFrozen)

\* When nothing more is on its way to the player, an army at rest looks to
\* its player as it is, whatever timed out before.
RestingViewsAgree ==
  NoCrash => \A a \in Army :
    armies[a] # None /\ ~armies[a].running /\ Quiet(a) =>
      views[a] = [report |-> ReportOf(armies[a]), frozen |-> FALSE]

\* The same of any army, as far as its order goes, when nothing timed out.
QuietViewsAgree ==
  OnTime /\ NoCrash => \A a \in Army :
    armies[a] # None /\ Quiet(a) =>
      views[a].report.cmd = armies[a].cmd

\* Whatever order answers and pushes come in, the player ends up with the
\* right view of its armies.
ViewsAgree == RestingViewsAgree /\ QuietViewsAgree

\* The tables of the world still agree after a crash, whichever document of
\* the world was the last to be written.
MarchesSurviveCrash == MarchesMatchArmies /\ RunningArmiesMarch

\* An army does not stay frozen for ever, unless it is stranded, or the
\* process crashes.
FrozenEnds ==
  \A a \in Army :
    views[a].frozen ~> ~views[a].frozen \/ Stranded(a) \/ ~NoCrash
=============================================================================
