--------------------------- MODULE CityFacilities ---------------------------
(***************************************************************************)
(* A player enters the server, gets a city from the world and upgrades the *)
(* city's facilities.  The player actor keeps the facilities and pays for  *)
(* them, the world keeps a copy in the city, and each is stored in a       *)
(* document of its own.  An upgrade is paid for at once, sent to the world *)
(* and only then stored and answered; meanwhile the player goes on with    *)
(* other messages.  Requests may time out, and the process may crash.      *)
(*                                                                         *)
(* City ids have 63 bits; an upgrade request and its copy to the world     *)
(* carry the low 32 of them, as a signed number.                           *)
(*                                                                         *)
(* One player is modelled: nothing here is shared between players but the  *)
(* space on the map.  Resources are of one kind.  An upgrade is over when  *)
(* the next one of the same facility is asked for, because the code stamps *)
(* it with its start; so no clock is needed.                               *)
(***************************************************************************)
EXTENDS Integers, Sequences, FiniteSets

CONSTANTS
  Fac,          \* the facilities of FacilityConf
  MaxLevel,     \* their number of levels
  Total,        \* Total[f][n]: what the first n levels of f cost together
  Start,        \* the resources of a new role
  DrawCost,     \* what a general costs
  Limit,        \* how many generals a player may have
  Half,         \* 2^31: an int32 is one of -Half .. Half - 1
  CityIds,      \* ids that the snowflake generator gives to cities
  None,         \* no document, nothing in a field
  MaxRequests,  \* bound: requests the player sends
  MaxTimeouts,  \* bound: requests to the world that are given up
  MaxCrashes    \* bound: crashes of the process

Level == 0 .. MaxLevel

ASSUME FacilitiesOK ==
  /\ IsFiniteSet(Fac)
  /\ MaxLevel \in Nat \ {0}
  /\ Total \in [Fac -> [Level -> Nat]]
  /\ \A f \in Fac : Total[f][0] = 0
  /\ \A f \in Fac : \A n \in 1 .. MaxLevel : Total[f][n - 1] <= Total[f][n]
  /\ Half \in Nat \ {0}
  /\ CityIds \subseteq {n \in Nat : n >= Half}
  /\ Start \in Nat /\ DrawCost \in Nat \ {0} /\ Limit \in Nat
  /\ None \notin Nat \cup [Fac -> [level : Level, up : BOOLEAN]]
  /\ MaxRequests \in Nat /\ MaxTimeouts \in Nat /\ MaxCrashes \in Nat

VARIABLES
  player,       \* PlayerEntity, as far as it matters here
  city,         \* the player's city in WorldEntity.cityByPlayer
  inbox,        \* mailbox of the world actor
  waiting,      \* the requests whose future is still open
  replies,      \* continuations posted to the player actor
  storedPlayer, \* the document of the player, or None
  storedCity,   \* the city in the document of the world
  ids,          \* snowflake ids used so far
  requests, timeouts, crashes

cityMail == <<inbox, waiting, replies>>
documents == <<storedPlayer, storedCity>>
cityBounds == <<requests, timeouts, crashes>>
cityVars == <<player, city, cityMail, documents, ids, cityBounds>>

\* A level, and whether the next one is being built.
Facility == [level : Level, up : BOOLEAN]
Facilities == [Fac -> Facility]
NewFacilities == [f \in Fac |-> [level |-> 0, up |-> FALSE]]

Player == [role : BOOLEAN, city : Nat, resource : Nat \cup {None},
           facility : Facilities \cup {None}, generals : Nat]

\* A city in the world; no city has the id 0.
City == [id : Nat, facility : Facilities]
NoCity == [id |-> 0, facility |-> NewFacilities]

Request ==
  [id : 1 .. MaxRequests, kind : {"create"}]
    \cup [id : 1 .. MaxRequests, kind : {"sync"}, city : Int,
          facility : Facilities]

Answer ==
  [kind : {"create"}, city : Nat]
    \cup [kind : {"sync"}, ok : BOOLEAN]

CityTypeOK ==
  /\ player \in Player
  /\ city \in City
  /\ inbox \in Seq(Request)
  /\ waiting \subseteq 1 .. MaxRequests
  /\ replies \in Seq(Answer)
  /\ storedPlayer \in Player \cup {None}
  /\ storedCity \in City
  /\ ids \subseteq CityIds
  /\ requests \in Nat /\ timeouts \in Nat /\ crashes \in Nat

\* LoadPlayer of somebody without a document.
NewPlayer == [role |-> FALSE, city |-> 0, resource |-> None,
              facility |-> None, generals |-> 0]

CityInit ==
  /\ player = NewPlayer /\ city = NoCity
  /\ inbox = <<>> /\ waiting = {} /\ replies = <<>>
  /\ storedPlayer = None /\ storedCity = NoCity
  /\ ids = {} /\ requests = 0 /\ timeouts = 0 /\ crashes = 0

-----------------------------------------------------------------------------
(* The player actor.                                                       *)

\* The actor takes a request: continuations come first.
Requested ==
  /\ replies = <<>>
  /\ requests < MaxRequests
  /\ requests' = requests + 1
  /\ UNCHANGED <<city, storedCity, replies, ids, timeouts, crashes>>

\* RequestFuture to the world.
AskWorld(m) ==
  /\ inbox' = Append(inbox, m)
  /\ waiting' = waiting \cup {m.id}

AskNothing == UNCHANGED <<inbox, waiting>>

\* FlushSync of an entity that has just been changed has returned without an
\* error.
FlushSync(entity) == storedPlayer' = entity

\* CreateRole.
CreateRole ==
  /\ Requested
  /\ ~player.role
  /\ player' = [player EXCEPT !.role = TRUE]
  /\ FlushSync(player')
  /\ AskNothing

\* initPlayer gives a player what is missing.
Initialised ==
  [player EXCEPT !.resource = IF @ = None THEN Start ELSE @,
                 !.facility = IF @ = None THEN NewFacilities ELSE @]

\* EnterServer of a role that exists asks the world for a city.
EnterServer ==
  /\ Requested
  /\ player.role
  /\ player' = Initialised
  /\ IF player' # player THEN FlushSync(player') ELSE UNCHANGED storedPlayer
  /\ AskWorld([id |-> requests', kind |-> "create"])

\* Mutation of Settled: the upgrade is closed, but its level is not counted.
SettledInVain(x) == [x EXCEPT !.up = FALSE]

\* An upgrade that was begun is over by now.
Settled(x) ==
  [level |-> IF x.up /\ x.level < MaxLevel THEN x.level + 1 ELSE x.level,
   up |-> FALSE]

\* The player once facility f is settled.
SettledPlayer(f) == [player EXCEPT !.facility[f] = Settled(@)]

\* int32(n): the low 32 bits, with their sign.
Int32(n) == ((n + Half) % (2 * Half)) - Half

\* What the next level of a facility costs.
Cost(f, n) == Total[f][n + 1] - Total[f][n]

\* Mutation of MayBuild: nobody asks for the resources.
MayBuildOnCredit(p, f) == p.facility[f].level < MaxLevel

MayBuild(p, f) ==
  /\ p.facility[f].level < MaxLevel
  /\ Cost(f, p.facility[f].level) <= p.resource

\* A settled player pays for the next level of f, which is begun.
Built(p, f) ==
  [p EXCEPT !.resource = @ - Cost(f, p.facility[f].level),
            !.facility[f].up = TRUE]

\* The request names the player's city, by an int32 which is not positive
\* for every city.
NamesCity == Int32(player.city) > 0

\* An upgrade that is refused leaves the facility settled, and tells nobody.
UpFacilityRefused(f) ==
  /\ Requested
  /\ NamesCity
  /\ ~MayBuild(SettledPlayer(f), f)
  /\ player' = SettledPlayer(f)
  /\ AskNothing /\ UNCHANGED storedPlayer

UpFacility(f) ==
  /\ Requested
  /\ NamesCity
  /\ MayBuild(SettledPlayer(f), f)
  /\ player' = Built(SettledPlayer(f), f)
  /\ AskWorld([id |-> requests', kind |-> "sync", city |-> Int32(player.city),
               facility |-> player'.facility])
  /\ UNCHANGED storedPlayer

\* DrawGeneral, of one general.
DrawGeneral ==
  /\ Requested
  /\ player.resource # None /\ player.resource >= DrawCost
  /\ player.generals < Limit
  /\ player' = [player EXCEPT !.resource = @ - DrawCost, !.generals = @ + 1]
  /\ FlushSync(player')
  /\ AskNothing

\* The upgrades of a facility that were ever begun.
Progress(x) == IF x.up THEN x.level + 1 ELSE x.level

\* A continuation is taken.
Continued ==
  /\ replies # <<>>
  /\ replies' = Tail(replies)
  /\ UNCHANGED <<city, inbox, waiting, storedCity, ids, cityBounds>>

\* The world has answered EnterServer: the player takes over the city id
\* that the answer says, whichever it is.
CityAnswered ==
  /\ Continued
  /\ Head(replies).kind = "create"
  /\ player' = [player EXCEPT !.city = Head(replies).city]
  /\ UNCHANGED storedPlayer

\* The world has answered.  If it has taken the facilities over they are
\* stored, unless the flush loop has taken a snapshot meanwhile: FlushSync
\* does not wait for that.  If it has not, the client is told that the
\* request failed, and nothing else happens.
UpgradeAnswered ==
  /\ Continued
  /\ Head(replies).kind = "sync"
  /\ IF Head(replies).ok THEN storedPlayer' \in {storedPlayer, player}
     ELSE UNCHANGED storedPlayer
  /\ UNCHANGED player

\* The future gives up; an answer that comes later is dropped.
GiveUp(n) ==
  /\ n \in waiting
  /\ timeouts < MaxTimeouts
  /\ timeouts' = timeouts + 1
  /\ waiting' = waiting \ {n}
  /\ UNCHANGED <<player, city, inbox, replies, documents, ids,
                 requests, crashes>>

-----------------------------------------------------------------------------
(* The world actor.                                                        *)

Respond(m, answer) ==
  replies' = IF m.id \in waiting THEN Append(replies, answer) ELSE replies

\* Mutation of HasCity: a city is created whoever has one.
HasNoCity == FALSE

HasCity == city.id # 0

\* CreateCity answers with an empty message when there is a city already.
CreateCity(m) ==
  /\ m.kind = "create"
  /\ IF HasCity
     THEN /\ UNCHANGED <<city, ids>>
          /\ Respond(m, [kind |-> "create", city |-> 0])
     ELSE \E n \in CityIds \ ids :
            /\ ids' = ids \cup {n}
            /\ city' = [id |-> n, facility |-> NewFacilities]
            /\ Respond(m, [kind |-> "create", city |-> n])

SyncCityFacility(m) ==
  /\ m.kind = "sync"
  /\ city' = IF m.city = city.id THEN [city EXCEPT !.facility = m.facility]
             ELSE city
  /\ Respond(m, [kind |-> "sync", ok |-> m.city = city.id])
  /\ UNCHANGED ids

HandleRequest ==
  /\ inbox # <<>>
  /\ inbox' = Tail(inbox)
  /\ waiting' = waiting \ {Head(inbox).id}
  /\ CreateCity(Head(inbox)) \/ SyncCityFacility(Head(inbox))
  /\ UNCHANGED <<player, documents, cityBounds>>

-----------------------------------------------------------------------------
(* The documents.                                                          *)

\* The flush loops of the two caches, with their writers.
StorePlayer ==
  /\ storedPlayer' = player
  /\ UNCHANGED <<player, city, cityMail, storedCity, ids, cityBounds>>

StoreCity ==
  /\ storedCity' = city
  /\ UNCHANGED <<player, city, cityMail, storedPlayer, ids, cityBounds>>

\* LoadPlayer: the sub-entities of a document are there even if they were
\* not when it was stored, and are then empty.
Loaded ==
  IF storedPlayer = None THEN NewPlayer
  ELSE [storedPlayer EXCEPT !.resource = IF @ = None THEN 0 ELSE @]

CityCrash ==
  /\ crashes < MaxCrashes
  /\ crashes' = crashes + 1
  /\ player' = Loaded /\ city' = storedCity
  /\ inbox' = <<>> /\ waiting' = {} /\ replies' = <<>>
  /\ UNCHANGED <<documents, ids, requests, timeouts>>

-----------------------------------------------------------------------------

CityNext ==
  \/ CreateRole \/ EnterServer \/ DrawGeneral
  \/ \E f \in Fac : UpFacility(f) \/ UpFacilityRefused(f)
  \/ CityAnswered \/ UpgradeAnswered
  \/ \E n \in waiting : GiveUp(n)
  \/ HandleRequest \/ StorePlayer \/ StoreCity \/ CityCrash

CitySpec == CityInit /\ [][CityNext]_cityVars

-----------------------------------------------------------------------------
(* Properties.                                                             *)

NeverCrashed == crashes = 0

\* What the levels of the facilities have cost, piece by piece.
Spent(facility) ==
  UNION {{f} \X (1 .. Total[f][Progress(facility[f])]) : f \in Fac}

\* What a player has and what it has spent.
Worth(p) ==
  IF p.resource = None THEN 0
  ELSE p.resource + p.generals * DrawCost
         + (IF p.facility = None THEN 0 ELSE Cardinality(Spent(p.facility)))

\* Nothing is paid for twice, for free or in vain, in memory or in the
\* document, whatever is refused, times out or crashes.  A role that is
\* lost before it first enters the server comes back with nothing.
BooksBalance ==
  \A p \in {player, storedPlayer} \ {None} :
    /\ Worth(p) \in {0, Start}
    /\ NeverCrashed /\ p.facility # None => Worth(p) = Start

\* When no facilities are on their way, the city in the world has all that
\* the player paid for: the world reads the bonuses of a battle from it.
QuietCitiesAgree ==
  /\ NeverCrashed /\ timeouts = 0 /\ player.facility # None
  /\ \A i \in DOMAIN inbox : inbox[i].kind # "sync"
  => \A f \in Fac :
       Progress(city.facility[f]) = Progress(player.facility[f])

\* Until the process crashes a player's city is the one it has in the world,
\* or none.
NoWrongCity == NeverCrashed => player.city \in {0, city.id}
=============================================================================
