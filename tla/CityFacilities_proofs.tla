----------------------- MODULE CityFacilities_proofs -----------------------
(***************************************************************************)
(* Proofs about a player's city and its facilities.  The invariant says of *)
(* a player, in memory and in the document alike, that nothing is spent    *)
(* before there are facilities, that an upgrade is never begun at the last *)
(* level, and that the books balance; and of the mail between the two      *)
(* actors, that it comes after the facilities, and names the city that the *)
(* world has.                                                              *)
(*                                                                         *)
(* What the facilities have cost is counted piece by piece, so that one    *)
(* more level is a union of two finite sets without a common piece.        *)
(***************************************************************************)
EXTENDS CityFacilities, FiniteSetTheorems, SequenceTheorems, TLAPS

-----------------------------------------------------------------------------
(* The operators of the model.                                             *)

\* An int32 of 0 is 0: a player without a city names none.
LEMMA Int32OfZero == Int32(0) = 0
  <1>1. Half \in Nat \ {0}
    BY FacilitiesOK
  <1>2. (0 + Half) % (2 * Half) = Half
    BY <1>1
  <1> QED
    BY <1>1, <1>2 DEF Int32

\* The next level costs something or nothing, and is never paid back.
LEMMA CostIsNat ==
  ASSUME NEW f \in Fac, NEW n \in Level, n < MaxLevel
  PROVE  /\ n + 1 \in Level
         /\ Cost(f, n) \in Nat
         /\ Total[f][n + 1] = Total[f][n] + Cost(f, n)
  <1>1. n \in Nat /\ n + 1 \in 1 .. MaxLevel /\ n + 1 \in Level
    BY FacilitiesOK DEF Level
  <1>2. Total[f] \in [Level -> Nat]
    BY FacilitiesOK
  <1>3. Total[f][n] \in Nat /\ Total[f][n + 1] \in Nat
    BY <1>1, <1>2
  <1>4. Total[f][(n + 1) - 1] <= Total[f][n + 1]
    BY <1>1, FacilitiesOK
  <1>5. (n + 1) - 1 = n
    BY <1>1
  <1> QED
    BY <1>1, <1>3, <1>4, <1>5 DEF Cost

\* An upgrade is begun below the last level, or none is.
SoundFacility(x) == x.up => x.level < MaxLevel

LEMMA ProgressIsLevel ==
  ASSUME NEW x \in Facility, SoundFacility(x)
  PROVE  Progress(x) \in Level
  BY FacilitiesOK DEF Progress, Facility, Level, SoundFacility

\* An upgrade that is over counts as much as one that is under way.
LEMMA SettledProgress ==
  ASSUME NEW x \in Facility, SoundFacility(x)
  PROVE  /\ Settled(x) \in Facility
         /\ ~Settled(x).up
         /\ Progress(Settled(x)) = Progress(x)
  BY FacilitiesOK DEF Progress, Facility, Level, SoundFacility, Settled

\* The pieces that one facility has cost.
Pieces(f, n) == {f} \X (1 .. Total[f][n])

LEMMA PiecesFinite ==
  ASSUME NEW f \in Fac, NEW n \in Level
  PROVE  IsFiniteSet(Pieces(f, n))
  <1>1. Total[f][n] \in Nat
    BY FacilitiesOK
  <1>2. IsFiniteSet(1 .. Total[f][n])
    BY <1>1, FS_Interval
  <1>3. IsFiniteSet({f})
    BY FS_Singleton
  <1> QED
    BY <1>2, <1>3, FS_Product DEF Pieces

SoundFacilities(F) == \A f \in Fac : SoundFacility(F[f])

LEMMA SpentFinite ==
  ASSUME NEW F \in Facilities, SoundFacilities(F)
  PROVE  IsFiniteSet(Spent(F)) /\ Cardinality(Spent(F)) \in Nat
  <1> DEFINE P == {Pieces(f, Progress(F[f])) : f \in Fac}
             s == [f \in Fac |-> Pieces(f, Progress(F[f]))]
  <1>1. s \in Surjection(Fac, P)
    BY DEF Surjection
  <1>2. IsFiniteSet(P)
    BY <1>1, FS_Surjection, FacilitiesOK
  <1>3. ASSUME NEW T \in P PROVE IsFiniteSet(T)
    <2>1. PICK f \in Fac : T = Pieces(f, Progress(F[f]))
      OBVIOUS
    <2>2. Progress(F[f]) \in Level
      BY ProgressIsLevel DEF Facilities, SoundFacilities
    <2> QED
      BY <2>1, <2>2, PiecesFinite
  <1>4. IsFiniteSet(UNION P)
    <2> HIDE DEF P
    <2> QED
      BY <1>2, <1>3, FS_UNION
  <1>5. Spent(F) = UNION P
    BY DEF Spent, Pieces
  <1> QED
    BY <1>4, <1>5, FS_CardinalityType

\* Facilities that have come as far have cost as much.
LEMMA SpentSame ==
  ASSUME NEW F, NEW G,
         \A f \in Fac : Progress(G[f]) = Progress(F[f])
  PROVE  Spent(G) = Spent(F)
  <1>1. \A f \in Fac : {f} \X (1 .. Total[f][Progress(G[f])])
                         = {f} \X (1 .. Total[f][Progress(F[f])])
    OBVIOUS
  <1> QED
    BY <1>1 DEF Spent

\* Nothing is spent on facilities that are new.
LEMMA SpentNew ==
  /\ NewFacilities \in Facilities /\ SoundFacilities(NewFacilities)
  /\ Cardinality(Spent(NewFacilities)) = 0
  <1>1. NewFacilities \in Facilities /\ SoundFacilities(NewFacilities)
    BY FacilitiesOK DEF NewFacilities, Facilities, Facility, Level,
       SoundFacilities, SoundFacility
  <1>2. \A f \in Fac : Total[f][Progress(NewFacilities[f])] = 0
    BY FacilitiesOK DEF NewFacilities, Progress
  <1>3. \A f \in Fac : {f} \X (1 .. Total[f][Progress(NewFacilities[f])]) = {}
    BY <1>2
  <1>4. Spent(NewFacilities) = {}
    BY <1>3 DEF Spent
  <1> QED
    BY <1>1, <1>4, FS_EmptySet

\* One more level of one facility costs what the level costs.
LEMMA SpentMore ==
  ASSUME NEW F \in Facilities, SoundFacilities(F),
         NEW f \in Fac, ~F[f].up, F[f].level < MaxLevel,
         NEW G, G = [F EXCEPT ![f].up = TRUE]
  PROVE  Cardinality(Spent(G)) = Cardinality(Spent(F)) + Cost(f, F[f].level)
  <1> DEFINE n == F[f].level
             a == Total[f][n]
             b == Total[f][n + 1]
             More == {f} \X ((a + 1) .. b)
  <1>1. F[f] \in Facility /\ n \in Level
    BY DEF Facilities, Facility
  <1>2. /\ a \in Nat /\ b \in Nat
        /\ Cost(f, n) \in Nat /\ b = a + Cost(f, n)
    BY <1>1, CostIsNat, FacilitiesOK
  <1>3. /\ Progress(F[f]) = n /\ Progress(G[f]) = n + 1
        /\ \A g \in Fac \ {f} : Progress(G[g]) = Progress(F[g])
    BY <1>1 DEF Progress, Facilities, Facility
  <1>4. IsFiniteSet(More) /\ Cardinality(More) = Cost(f, n)
    <2> HIDE DEF a, b, n
    <2>1. /\ IsFiniteSet((a + 1) .. b)
          /\ Cardinality((a + 1) .. b) = Cost(f, n)
      <3>1. a + 1 \in Int /\ b \in Int
        BY <1>2
      <3>2. /\ IsFiniteSet((a + 1) .. b)
            /\ Cardinality((a + 1) .. b)
                 = IF a + 1 > b THEN 0 ELSE b - (a + 1) + 1
        BY <3>1, FS_Interval, Zenon
      <3> QED
        BY <1>2, <3>2
    <2>2. IsFiniteSet({f}) /\ Cardinality({f}) = 1
      BY FS_Singleton
    <2>3. /\ IsFiniteSet(More)
          /\ Cardinality(More) = Cardinality({f}) * Cardinality((a + 1) .. b)
      BY <2>1, <2>2, FS_Product
    <2>4. 1 * Cost(f, n) = Cost(f, n)
      BY <1>2
    <2> QED
      BY <2>1, <2>2, <2>3, <2>4, Zenon
  <1>5. Spent(G) = Spent(F) \cup More
    <2>1. 1 .. b = (1 .. a) \cup ((a + 1) .. b)
      BY <1>2
    <2>2. {f} \X (1 .. b) = ({f} \X (1 .. a)) \cup More
      BY <2>1
    <2> HIDE DEF a, b, More
    <2>3. \A g \in Fac \ {f} : {g} \X (1 .. Total[g][Progress(G[g])])
                                 = {g} \X (1 .. Total[g][Progress(F[g])])
      BY <1>3
    <2>4. /\ {f} \X (1 .. Total[f][Progress(G[f])]) = {f} \X (1 .. b)
          /\ {f} \X (1 .. Total[f][Progress(F[f])]) = {f} \X (1 .. a)
      BY <1>3 DEF a, b
    <2>5. \A x : (\E g \in Fac : x \in {g} \X (1 .. Total[g][Progress(G[g])]))
                   <=> (\E g \in Fac :
                          x \in {g} \X (1 .. Total[g][Progress(F[g])]))
                         \/ x \in More
      BY <2>2, <2>3, <2>4, Zenon
    <2> QED
      BY <2>5 DEF Spent
  <1>6. Spent(F) \cap More = {}
    <2>1. SUFFICES ASSUME NEW x \in Spent(F), x \in More
                   PROVE  FALSE
      OBVIOUS
    <2>2. PICK g \in Fac : x \in {g} \X (1 .. Total[g][Progress(F[g])])
      BY <2>1 DEF Spent
    <2>3. g = f /\ x[2] \in 1 .. a /\ x[2] \in (a + 1) .. b
      BY <1>3, <2>1, <2>2
    <2> QED
      BY <1>2, <2>3
  <1>7. IsFiniteSet(Spent(F)) /\ Cardinality(Spent(F)) \in Nat
    BY SpentFinite
  <1>8. Cardinality(Spent(F) \cup More)
          = Cardinality(Spent(F)) + Cardinality(More)
              - Cardinality(Spent(F) \cap More)
    <2> HIDE DEF More
    <2> QED
      BY <1>4, <1>7, FS_Union
  <1>9. Cardinality(Spent(F) \cap More) = 0
    BY <1>6, FS_EmptySet
  <1> HIDE DEF More, a, b, n
  <1>10. Cardinality(Spent(G)) = Cardinality(Spent(F) \cup More)
    BY <1>5, Zenon
  <1>11. Cardinality(Spent(G)) = Cardinality(Spent(F)) + Cost(f, n)
    BY <1>2, <1>4, <1>7, <1>8, <1>9, <1>10
  <1> QED
    BY <1>11 DEF n

-----------------------------------------------------------------------------
(* A player.                                                               *)

\* Before there are facilities nothing is spent and there is no city; with
\* facilities there are resources.
SoundPlayer(p) ==
  IF p.facility = None
  THEN p.city = 0 /\ p.generals = 0 /\ p.resource \in {None, 0}
  ELSE p.resource \in Nat /\ SoundFacilities(p.facility)

\* A player who may be stored and loaded, and whose books balance.
GoodPlayer(p) == p \in Player /\ SoundPlayer(p) /\ Worth(p) \in {0, Start}

LEMMA NewPlayerIsGood == GoodPlayer(NewPlayer) /\ NewPlayer.facility = None
  <1>1. NewPlayer \in Player
    BY DEF NewPlayer, Player
  <1> QED
    BY <1>1 DEF GoodPlayer, SoundPlayer, Worth, NewPlayer

\* None is no facilities and no resources.
LEMMA NoneIsNothing ==
  /\ None \notin Nat
  /\ None \notin Facilities
  /\ Start \in Nat /\ DrawCost \in Nat \ {0}
  BY FacilitiesOK DEF Facilities, Facility

LEMMA WorthWithFacilities ==
  ASSUME NEW p \in Player, SoundPlayer(p), p.facility # None
  PROVE  /\ p.resource \in Nat /\ p.resource # None
         /\ p.facility \in Facilities /\ SoundFacilities(p.facility)
         /\ p.generals \in Nat /\ p.city \in Nat /\ p.role \in BOOLEAN
         /\ Cardinality(Spent(p.facility)) \in Nat
         /\ Worth(p) = p.resource + p.generals * DrawCost
                         + Cardinality(Spent(p.facility))
  <1>1. /\ p.resource \in Nat /\ SoundFacilities(p.facility)
        /\ p.facility \in Facilities
        /\ p.generals \in Nat /\ p.city \in Nat /\ p.role \in BOOLEAN
    BY DEF SoundPlayer, Player
  <1>2. p.resource # None
    BY <1>1, NoneIsNothing
  <1>3. Cardinality(Spent(p.facility)) \in Nat
    BY <1>1, SpentFinite
  <1> QED
    BY <1>1, <1>2, <1>3 DEF Worth

\* Before there are facilities a player has nothing.
LEMMA WorthWithoutFacilities ==
  ASSUME NEW p \in Player, SoundPlayer(p), p.facility = None
  PROVE  Worth(p) = 0
  BY NoneIsNothing DEF SoundPlayer, Worth, Player

\* Settling a facility changes neither what a player has nor what was spent.
LEMMA SettledIsGood ==
  ASSUME NEW p, GoodPlayer(p), p.facility # None, NEW f \in Fac,
         NEW q, q = [p EXCEPT !.facility[f] = Settled(@)]
  PROVE  /\ GoodPlayer(q) /\ q.facility # None /\ ~q.facility[f].up
         /\ Worth(q) = Worth(p) /\ q.city = p.city
  <1> DEFINE G == [p.facility EXCEPT ![f] = Settled(@)]
  <1>1. p \in Player /\ SoundPlayer(p)
    BY DEF GoodPlayer
  <1>2. /\ p.resource \in Nat /\ p.facility \in Facilities
        /\ SoundFacilities(p.facility)
        /\ Worth(p) = p.resource + p.generals * DrawCost
                        + Cardinality(Spent(p.facility))
    BY <1>1, WorthWithFacilities
  <1>3. p.facility[f] \in Facility /\ SoundFacility(p.facility[f])
    BY <1>2 DEF Facilities, SoundFacilities
  <1>4. /\ Settled(p.facility[f]) \in Facility
        /\ ~Settled(p.facility[f]).up
        /\ Progress(Settled(p.facility[f])) = Progress(p.facility[f])
    BY <1>3, SettledProgress
  <1>5. /\ G \in Facilities
        /\ G[f] = Settled(p.facility[f])
        /\ \A g \in Fac \ {f} : G[g] = p.facility[g]
    BY <1>2, <1>4 DEF Facilities
  <1>6. SoundFacilities(G)
    BY <1>2, <1>4, <1>5 DEF SoundFacilities, SoundFacility
  <1>7. Spent(G) = Spent(p.facility)
    <2>1. \A g \in Fac : Progress(G[g]) = Progress(p.facility[g])
      BY <1>4, <1>5
    <2> QED
      BY <2>1, SpentSame
  <1>8. q = [p EXCEPT !.facility = G]
    BY <1>1, <1>2 DEF Player, Facilities
  <1> HIDE DEF G
  <1>9. /\ q \in Player /\ q.facility = G /\ q.resource = p.resource
        /\ q.generals = p.generals /\ q.city = p.city
    BY <1>1, <1>5, <1>8 DEF Player
  <1>10. G # None
    BY <1>5, NoneIsNothing
  <1>11. SoundPlayer(q)
    BY <1>2, <1>6, <1>9, <1>10 DEF SoundPlayer
  <1>12. Worth(q) = q.resource + q.generals * DrawCost
                      + Cardinality(Spent(q.facility))
    BY <1>9, <1>10, <1>11, WorthWithFacilities
  <1>13. Worth(q) = Worth(p)
    BY <1>2, <1>7, <1>9, <1>12, Zenon
  <1> QED
    BY <1>4, <1>5, <1>9, <1>10, <1>11, <1>13 DEF GoodPlayer

\* What the next level costs moves from the resources to the facilities.
LEMMA BuiltIsGood ==
  ASSUME NEW p, GoodPlayer(p), p.facility # None,
         NEW f \in Fac, ~p.facility[f].up, MayBuild(p, f)
  PROVE  /\ GoodPlayer(Built(p, f)) /\ Built(p, f).facility # None
         /\ Worth(Built(p, f)) = Worth(p) /\ Built(p, f).city = p.city
  <1> DEFINE n == p.facility[f].level
             c == Cost(f, n)
             G == [p.facility EXCEPT ![f].up = TRUE]
             q == Built(p, f)
  <1>1. p \in Player /\ SoundPlayer(p)
    BY DEF GoodPlayer
  <1>2. /\ p.resource \in Nat /\ p.facility \in Facilities
        /\ p.generals \in Nat
        /\ SoundFacilities(p.facility)
        /\ Cardinality(Spent(p.facility)) \in Nat
        /\ Worth(p) = p.resource + p.generals * DrawCost
                        + Cardinality(Spent(p.facility))
    BY <1>1, WorthWithFacilities
  <1>3. /\ p.facility[f] \in Facility /\ n \in Level
        /\ n < MaxLevel /\ c <= p.resource
    BY <1>2 DEF Facilities, Facility, MayBuild
  <1>4. c \in Nat
    BY <1>3, CostIsNat
  <1>5. /\ G \in Facilities /\ SoundFacilities(G)
    BY <1>2, <1>3 DEF Facilities, Facility, SoundFacilities, SoundFacility
  <1>6. Cardinality(Spent(G)) = Cardinality(Spent(p.facility)) + c
    BY <1>2, <1>3, SpentMore
  <1>7. q = [p EXCEPT !.resource = @ - c, !.facility = G]
    BY <1>1, <1>2 DEF Built, Player, Facilities
  <1> HIDE DEF G, c, n, q
  <1>8. p.resource - c \in Nat
    BY <1>2, <1>3, <1>4
  <1>9. /\ q \in Player /\ q.facility = G /\ q.resource = p.resource - c
        /\ q.generals = p.generals /\ q.city = p.city
    BY <1>1, <1>5, <1>7, <1>8 DEF Player
  <1>10. G # None
    BY <1>5, NoneIsNothing
  <1>11. SoundPlayer(q)
    BY <1>5, <1>8, <1>9, <1>10 DEF SoundPlayer
  <1>12. Worth(q) = q.resource + q.generals * DrawCost
                      + Cardinality(Spent(q.facility))
    BY <1>9, <1>10, <1>11, WorthWithFacilities
  <1>13. Cardinality(Spent(q.facility)) = Cardinality(Spent(p.facility)) + c
    BY <1>6, <1>9, Zenon
  <1>14. p.generals * DrawCost \in Nat
    BY <1>2, NoneIsNothing
  <1>15. Worth(q) = Worth(p)
    BY <1>2, <1>4, <1>9, <1>12, <1>13, <1>14
  <1>16. GoodPlayer(q) /\ q.facility # None
    BY <1>9, <1>10, <1>11, <1>15, Zenon DEF GoodPlayer
  <1> QED
    BY <1>9, <1>15, <1>16 DEF q

\* What a general costs moves from the resources to the generals.
LEMMA DrawnIsGood ==
  ASSUME NEW p, GoodPlayer(p), p.resource # None, p.resource >= DrawCost,
         NEW q, q = [p EXCEPT !.resource = @ - DrawCost, !.generals = @ + 1]
  PROVE  /\ GoodPlayer(q) /\ q.facility = p.facility /\ p.facility # None
         /\ Worth(q) = Worth(p) /\ q.city = p.city
  <1>1. p \in Player /\ SoundPlayer(p)
    BY DEF GoodPlayer
  <1>2. p.facility # None
    BY <1>1, NoneIsNothing DEF SoundPlayer, Player
  <1>3. /\ p.resource \in Nat /\ p.facility \in Facilities
        /\ p.generals \in Nat
        /\ SoundFacilities(p.facility)
        /\ Cardinality(Spent(p.facility)) \in Nat
        /\ Worth(p) = p.resource + p.generals * DrawCost
                        + Cardinality(Spent(p.facility))
    BY <1>1, <1>2, WorthWithFacilities
  <1>4. p.resource - DrawCost \in Nat /\ p.generals + 1 \in Nat
    BY <1>3, NoneIsNothing
  <1>5. /\ q \in Player /\ q.facility = p.facility
        /\ q.resource = p.resource - DrawCost
        /\ q.generals = p.generals + 1 /\ q.city = p.city
    BY <1>1, <1>4 DEF Player
  <1>6. SoundPlayer(q)
    BY <1>2, <1>3, <1>4, <1>5 DEF SoundPlayer
  <1>7. Worth(q) = q.resource + q.generals * DrawCost
                     + Cardinality(Spent(q.facility))
    BY <1>2, <1>5, <1>6, WorthWithFacilities
  <1>8. /\ (p.generals + 1) * DrawCost = p.generals * DrawCost + DrawCost
        /\ p.generals * DrawCost \in Nat
    BY <1>3, NoneIsNothing
  <1>9. Cardinality(Spent(q.facility)) = Cardinality(Spent(p.facility))
    BY <1>5, Zenon
  <1>10. Worth(q) = Worth(p)
    BY <1>3, <1>5, <1>7, <1>8, <1>9, NoneIsNothing
  <1> QED
    BY <1>2, <1>5, <1>6, <1>10, Zenon DEF GoodPlayer

\* The first entry gives a player who has nothing all there is, unless a
\* crash has left an empty purse; later ones give nothing.
LEMMA InitialisedIsGood ==
  ASSUME GoodPlayer(player)
  PROVE  /\ GoodPlayer(Initialised) /\ Initialised.facility # None
         /\ Initialised.city = player.city
         /\ player.facility = None /\ player.resource = None
              => Worth(Initialised) = Start
         /\ player.facility # None => Initialised = player
  <1>1. player \in Player /\ SoundPlayer(player)
    BY DEF GoodPlayer
  <1>2. CASE player.facility # None
    <2>1. player.resource # None
      BY <1>1, <1>2, WorthWithFacilities
    <2>2. Initialised = player
      BY <1>1, <1>2, <2>1 DEF Initialised, Player
    <2> QED
      BY <1>2, <2>2, Zenon
  <1>3. CASE player.facility = None
    <2> DEFINE r == IF player.resource = None THEN Start ELSE player.resource
    <2>1. /\ player.city = 0 /\ player.generals = 0
          /\ player.resource \in {None, 0}
      BY <1>1, <1>3 DEF SoundPlayer
    <2>2. Initialised = [player EXCEPT !.resource = r,
                                       !.facility = NewFacilities]
      BY <1>1, <1>3 DEF Initialised, Player
    <2>3. r \in Nat /\ r \in {0, Start}
      BY <2>1, NoneIsNothing
    <2> HIDE DEF r
    <2>4. /\ Initialised \in Player /\ Initialised.facility = NewFacilities
          /\ Initialised.resource = r /\ Initialised.generals = 0
          /\ Initialised.city = 0
      BY <1>1, <2>1, <2>2, <2>3, SpentNew DEF Player
    <2>5. NewFacilities # None
      BY SpentNew, NoneIsNothing
    <2>6. SoundPlayer(Initialised)
      BY <2>3, <2>4, <2>5, SpentNew DEF SoundPlayer
    <2>7. Worth(Initialised)
            = Initialised.resource + Initialised.generals * DrawCost
                + Cardinality(Spent(Initialised.facility))
      BY <2>4, <2>5, <2>6, WorthWithFacilities
    <2>8. Cardinality(Spent(Initialised.facility)) = 0
      BY <2>4, SpentNew, Zenon
    <2>9. Worth(Initialised) = r
      BY <2>3, <2>4, <2>7, <2>8, NoneIsNothing
    <2> QED
      BY <1>3, <2>1, <2>3, <2>4, <2>5, <2>6, <2>9 DEF GoodPlayer, r
  <1> QED
    BY <1>2, <1>3

-----------------------------------------------------------------------------
(* The inductive invariant.                                                *)

\* The players there are, in memory and in the document, can be relied on.
PlayersAreGood ==
  /\ GoodPlayer(player)
  /\ storedPlayer # None => GoodPlayer(storedPlayer)

\* A player gets all there is with the facilities, and nothing before.
PaidInFull(p) ==
  IF p.facility = None THEN p.resource = None ELSE Worth(p) = Start

NothingIsLost ==
  NeverCrashed =>
    /\ PaidInFull(player)
    /\ storedPlayer # None => PaidInFull(storedPlayer)

\* Nobody writes to the world, or hears from it, before the facilities are
\* there.
MailNeedsFacilities ==
  inbox # <<>> \/ replies # <<>> => player.facility # None

\* A player who has a city has the one in the world, and an answer names no
\* other.
RightCity(n) == n \in {0, city.id}

AnswersNameTheCity ==
  NeverCrashed =>
    /\ RightCity(player.city)
    /\ \A i \in 1 .. Len(replies) :
         replies[i].kind = "create" => RightCity(replies[i].city)

CityInv ==
  /\ CityTypeOK
  /\ PlayersAreGood
  /\ NothingIsLost
  /\ MailNeedsFacilities
  /\ AnswersNameTheCity

LEMMA InitCity == CityInit => CityInv
  <1> SUFFICES ASSUME CityInit PROVE CityInv
    OBVIOUS
  <1>1. GoodPlayer(NewPlayer) /\ NewPlayer.facility = None
    BY NewPlayerIsGood
  <1>2. NoCity \in City
    BY SpentNew DEF NoCity, City
  <1>3. CityTypeOK
    BY <1>1, <1>2 DEF CityInit, CityTypeOK, GoodPlayer
  <1>4. PlayersAreGood
    BY <1>1 DEF CityInit, PlayersAreGood
  <1>5. NothingIsLost
    BY DEF CityInit, NothingIsLost, PaidInFull, NewPlayer
  <1>6. MailNeedsFacilities
    BY DEF CityInit, MailNeedsFacilities
  <1>7. AnswersNameTheCity
    BY DEF CityInit, AnswersNameTheCity, NewPlayer, RightCity
  <1> QED
    BY <1>3, <1>4, <1>5, <1>6, <1>7 DEF CityInv

\* A step of the player actor keeps the invariant when the player stays
\* good, and the mail that is left may be there.
LEMMA PlayerStep ==
  ASSUME CityInv,
         UNCHANGED <<city, storedCity, ids, crashes>>,
         GoodPlayer(player'),
         storedPlayer' \in {storedPlayer, player'},
         NeverCrashed => PaidInFull(player') /\ RightCity(player'.city),
         inbox' \in Seq(Request), waiting' \subseteq 1 .. MaxRequests,
         replies' \in Seq(Answer),
         inbox' # <<>> \/ replies' # <<>> => player'.facility # None,
         NeverCrashed =>
           \A i \in 1 .. Len(replies') :
             replies'[i].kind = "create" => RightCity(replies'[i].city),
         requests' \in Nat, timeouts' \in Nat
  PROVE  CityInv'
  <1>1. CityTypeOK'
    BY DEF CityInv, CityTypeOK, GoodPlayer
  <1>2. PlayersAreGood'
    BY DEF CityInv, PlayersAreGood
  <1>3. NothingIsLost'
    BY DEF CityInv, NothingIsLost, NeverCrashed
  <1>4. MailNeedsFacilities'
    BY DEF MailNeedsFacilities
  <1>5. AnswersNameTheCity'
    BY DEF AnswersNameTheCity, NeverCrashed, RightCity
  <1> QED
    BY <1>1, <1>2, <1>3, <1>4, <1>5 DEF CityInv

-----------------------------------------------------------------------------
(* The steps of the player actor.                                          *)

\* What a request finds: no answer is left, and nothing is crashed.
LEMMA RequestedFacts ==
  ASSUME CityInv, Requested
  PROVE  /\ UNCHANGED <<city, storedCity, ids, crashes>>
         /\ GoodPlayer(player)
         /\ NeverCrashed => PaidInFull(player) /\ RightCity(player.city)
         /\ inbox \in Seq(Request) /\ waiting \subseteq 1 .. MaxRequests
         /\ replies = <<>> /\ replies' = <<>> /\ replies' \in Seq(Answer)
         /\ Len(replies') = 0
         /\ inbox # <<>> => player.facility # None
         /\ requests' \in Nat /\ requests' \in 1 .. MaxRequests
         /\ timeouts' \in Nat
  <1>1. requests \in Nat /\ timeouts \in Nat /\ MaxRequests \in Nat
    BY FacilitiesOK DEF CityInv, CityTypeOK
  <1>2. replies \in Seq(Answer) /\ inbox \in Seq(Request)
    BY DEF CityInv, CityTypeOK
  <1>3. waiting \subseteq 1 .. MaxRequests
    BY DEF CityInv, CityTypeOK
  <1>4. /\ GoodPlayer(player)
        /\ NeverCrashed => PaidInFull(player) /\ RightCity(player.city)
        /\ inbox # <<>> => player.facility # None
    BY DEF CityInv, PlayersAreGood, NothingIsLost, AnswersNameTheCity,
       MailNeedsFacilities
  <1>5. /\ replies = <<>> /\ replies' = replies
        /\ requests < MaxRequests /\ requests' = requests + 1
        /\ UNCHANGED <<city, storedCity, ids, crashes, timeouts>>
    BY DEF Requested
  <1>6. Len(replies') = 0
    BY <1>5
  <1> QED
    BY <1>1, <1>2, <1>3, <1>4, <1>5, <1>6

\* A request that writes to nobody keeps the invariant when the player
\* stays good.
LEMMA QuietRequest ==
  ASSUME CityInv, Requested, AskNothing,
         GoodPlayer(player'), player'.city = player.city,
         player.facility # None => player'.facility # None,
         NeverCrashed => PaidInFull(player'),
         storedPlayer' \in {storedPlayer, player'}
  PROVE  CityInv'
  <1>1. UNCHANGED <<inbox, waiting>>
    BY DEF AskNothing
  <1> HIDE DEF Requested, CityInv, RightCity
  <1>2. inbox' # <<>> \/ replies' # <<>> => player'.facility # None
    BY <1>1, RequestedFacts
  <1>3. /\ inbox' \in Seq(Request) /\ waiting' \subseteq 1 .. MaxRequests
        /\ NeverCrashed => RightCity(player'.city)
    BY <1>1, RequestedFacts
  <1>4. \A i \in 1 .. Len(replies') :
          replies'[i].kind = "create" => RightCity(replies'[i].city)
    BY RequestedFacts
  <1> QED
    BY <1>2, <1>3, <1>4, RequestedFacts, PlayerStep

\* A request that writes to the world keeps the invariant when it may, the
\* player then having facilities, and stays good.
LEMMA AskingRequest ==
  ASSUME CityInv, Requested, NEW m \in Request, m.id = requests',
         AskWorld(m),
         GoodPlayer(player'), player'.city = player.city,
         player'.facility # None,
         NeverCrashed => PaidInFull(player'),
         storedPlayer' \in {storedPlayer, player'}
  PROVE  CityInv'
  <1>1. inbox' = Append(inbox, m) /\ waiting' = waiting \cup {m.id}
    BY DEF AskWorld
  <1>2. inbox' \in Seq(Request) /\ waiting' \subseteq 1 .. MaxRequests
    BY <1>1, RequestedFacts
  <1>3. NeverCrashed => RightCity(player'.city)
    BY RequestedFacts
  <1>4. \A i \in 1 .. Len(replies') :
          replies'[i].kind = "create" => RightCity(replies'[i].city)
    BY RequestedFacts
  <1> QED
    BY <1>2, <1>3, <1>4, RequestedFacts, PlayerStep

LEMMA StepCreateRole == ASSUME CityInv, CreateRole PROVE CityInv'
  <1>1. /\ Requested /\ AskNothing
        /\ player' = [player EXCEPT !.role = TRUE]
        /\ storedPlayer' = player'
    BY DEF CreateRole, FlushSync
  <1>2. GoodPlayer(player)
    BY DEF CityInv, PlayersAreGood
  <1>3. /\ player' \in Player /\ player'.facility = player.facility
        /\ player'.resource = player.resource
        /\ player'.generals = player.generals /\ player'.city = player.city
    BY <1>1, <1>2 DEF GoodPlayer, Player
  <1>4. Worth(player') = Worth(player)
    BY <1>3 DEF Worth
  <1>5. GoodPlayer(player')
    BY <1>2, <1>3, <1>4 DEF GoodPlayer, SoundPlayer
  <1>6. NeverCrashed => PaidInFull(player')
    BY <1>3, <1>4 DEF CityInv, NothingIsLost, PaidInFull
  <1> QED
    BY <1>1, <1>3, <1>5, <1>6, QuietRequest

LEMMA StepEnterServer == ASSUME CityInv, EnterServer PROVE CityInv'
  <1> DEFINE m == [id |-> requests', kind |-> "create"]
  <1>1. /\ Requested /\ AskWorld(m)
        /\ player' = Initialised
        /\ storedPlayer' \in {storedPlayer, player'}
    BY DEF EnterServer, FlushSync
  <1>2. m \in Request /\ m.id = requests'
    BY <1>1, RequestedFacts DEF Request
  <1>3. /\ GoodPlayer(player)
        /\ NeverCrashed => PaidInFull(player)
    BY DEF CityInv, PlayersAreGood, NothingIsLost
  <1>4. /\ GoodPlayer(player') /\ player'.facility # None
        /\ player'.city = player.city
        /\ player.facility = None /\ player.resource = None
             => Worth(player') = Start
        /\ player.facility # None => player' = player
    BY <1>1, <1>3, InitialisedIsGood
  <1>5. NeverCrashed => PaidInFull(player')
    BY <1>3, <1>4 DEF PaidInFull
  <1> HIDE DEF m
  <1> QED
    BY <1>1, <1>2, <1>4, <1>5, AskingRequest

LEMMA StepDrawGeneral == ASSUME CityInv, DrawGeneral PROVE CityInv'
  <1>1. /\ Requested /\ AskNothing
        /\ player.resource # None /\ player.resource >= DrawCost
        /\ player' = [player EXCEPT !.resource = @ - DrawCost,
                                    !.generals = @ + 1]
        /\ storedPlayer' = player'
    BY DEF DrawGeneral, FlushSync
  <1>2. GoodPlayer(player)
    BY DEF CityInv, PlayersAreGood
  <1>3. /\ GoodPlayer(player') /\ player'.facility = player.facility
        /\ player.facility # None
        /\ Worth(player') = Worth(player) /\ player'.city = player.city
    BY <1>1, <1>2, DrawnIsGood
  <1>4. NeverCrashed => PaidInFull(player')
    BY <1>3 DEF CityInv, NothingIsLost, PaidInFull
  <1> QED
    BY <1>1, <1>3, <1>4, QuietRequest

\* A player whose city is named has one, and so has facilities.
LEMMA NamedHasFacilities ==
  ASSUME GoodPlayer(player), NamesCity
  PROVE  player.facility # None
  <1>1. player.city # 0
    <2>1. SUFFICES ASSUME player.city = 0 PROVE FALSE
      OBVIOUS
    <2>2. Int32(player.city) = 0
      BY <2>1, Int32OfZero
    <2> QED
      BY <2>2 DEF NamesCity
  <1> QED
    BY <1>1 DEF GoodPlayer, SoundPlayer

\* The player that an upgrade starts from is as good as before.
LEMMA SettledPlayerIsGood ==
  ASSUME CityInv, NamesCity, NEW f \in Fac
  PROVE  /\ GoodPlayer(SettledPlayer(f)) /\ SettledPlayer(f).facility # None
         /\ ~SettledPlayer(f).facility[f].up
         /\ Worth(SettledPlayer(f)) = Worth(player)
         /\ SettledPlayer(f).city = player.city
         /\ player.facility # None
         /\ NeverCrashed => Worth(player) = Start
  <1>1. GoodPlayer(player)
    BY DEF CityInv, PlayersAreGood
  <1>2. player.facility # None
    BY <1>1, NamedHasFacilities
  <1>3. NeverCrashed => Worth(player) = Start
    BY <1>2 DEF CityInv, NothingIsLost, PaidInFull
  <1> QED
    BY <1>1, <1>2, <1>3, SettledIsGood DEF SettledPlayer

LEMMA StepUpFacilityRefused ==
  ASSUME CityInv, NEW f \in Fac, UpFacilityRefused(f)
  PROVE  CityInv'
  <1>1. /\ Requested /\ AskNothing /\ NamesCity
        /\ player' = SettledPlayer(f)
        /\ storedPlayer' = storedPlayer
    BY DEF UpFacilityRefused
  <1>2. /\ GoodPlayer(player') /\ player'.facility # None
        /\ Worth(player') = Worth(player) /\ player'.city = player.city
        /\ NeverCrashed => Worth(player) = Start
    BY <1>1, SettledPlayerIsGood
  <1>3. NeverCrashed => PaidInFull(player')
    BY <1>2 DEF PaidInFull
  <1> QED
    BY <1>1, <1>2, <1>3, QuietRequest

LEMMA Int32Type == ASSUME NEW n \in Nat PROVE Int32(n) \in Int
  <1>1. Half \in Nat \ {0}
    BY FacilitiesOK
  <1>2. (n + Half) % (2 * Half) \in Int
    BY <1>1
  <1> QED
    BY <1>1, <1>2 DEF Int32

LEMMA StepUpFacility ==
  ASSUME CityInv, NEW f \in Fac, UpFacility(f)
  PROVE  CityInv'
  <1> DEFINE m == [id |-> requests', kind |-> "sync",
                   city |-> Int32(player.city),
                   facility |-> player'.facility]
  <1>1. /\ Requested /\ NamesCity /\ MayBuild(SettledPlayer(f), f)
        /\ player' = Built(SettledPlayer(f), f)
        /\ AskWorld(m)
        /\ storedPlayer' = storedPlayer
    BY DEF UpFacility
  <1>2. /\ GoodPlayer(SettledPlayer(f)) /\ SettledPlayer(f).facility # None
        /\ ~SettledPlayer(f).facility[f].up
        /\ Worth(SettledPlayer(f)) = Worth(player)
        /\ SettledPlayer(f).city = player.city
        /\ NeverCrashed => Worth(player) = Start
    BY <1>1, SettledPlayerIsGood
  <1>3. /\ GoodPlayer(player') /\ player'.facility # None
        /\ Worth(player') = Worth(player) /\ player'.city = player.city
    BY <1>1, <1>2, BuiltIsGood
  <1>4. NeverCrashed => PaidInFull(player')
    BY <1>2, <1>3 DEF PaidInFull
  <1>5. player.city \in Nat /\ player'.facility \in Facilities
    BY <1>3 DEF CityInv, CityTypeOK, GoodPlayer, Player
  <1>6. m \in Request /\ m.id = requests'
    BY <1>1, <1>5, RequestedFacts, Int32Type DEF Request
  <1> HIDE DEF m
  <1> QED
    BY <1>1, <1>3, <1>4, <1>6, AskingRequest

\* A continuation leaves answers that were there before.
LEMMA ContinuedFacts ==
  ASSUME CityInv, Continued
  PROVE  /\ UNCHANGED <<city, storedCity, ids, crashes>>
         /\ player.facility # None
         /\ Head(replies) \in Answer
         /\ NeverCrashed => /\ PaidInFull(player) /\ RightCity(player.city)
                            /\ Head(replies).kind = "create"
                                 => RightCity(Head(replies).city)
         /\ inbox' \in Seq(Request) /\ waiting' \subseteq 1 .. MaxRequests
         /\ replies' \in Seq(Answer)
         /\ NeverCrashed =>
              \A i \in 1 .. Len(replies') :
                replies'[i].kind = "create" => RightCity(replies'[i].city)
         /\ requests' \in Nat /\ timeouts' \in Nat
  <1>1. /\ replies # <<>> /\ replies' = Tail(replies)
        /\ UNCHANGED <<city, inbox, waiting, storedCity, ids, requests,
                       timeouts, crashes>>
    BY DEF Continued, cityBounds
  <1>2. /\ replies \in Seq(Answer)
        /\ inbox \in Seq(Request) /\ waiting \subseteq 1 .. MaxRequests
        /\ requests \in Nat /\ timeouts \in Nat
    BY DEF CityInv, CityTypeOK
  <1>3. player.facility # None
    BY <1>1 DEF CityInv, MailNeedsFacilities
  <1>4. /\ Head(replies) = replies[1] /\ replies[1] \in Answer
        /\ 1 \in 1 .. Len(replies)
        /\ replies' \in Seq(Answer)
        /\ \A i \in 1 .. Len(replies') :
             /\ i + 1 \in 1 .. Len(replies)
             /\ replies'[i] = replies[i + 1]
    BY <1>1, <1>2
  <1>5. NeverCrashed =>
          /\ PaidInFull(player) /\ RightCity(player.city)
          /\ \A i \in 1 .. Len(replies) :
               replies[i].kind = "create" => RightCity(replies[i].city)
    BY DEF CityInv, NothingIsLost, AnswersNameTheCity
  <1> HIDE DEF RightCity, PaidInFull, NeverCrashed
  <1>6. NeverCrashed => (Head(replies).kind = "create"
                           => RightCity(Head(replies).city))
    BY <1>4, <1>5
  <1>7. NeverCrashed =>
          \A i \in 1 .. Len(replies') :
            replies'[i].kind = "create" => RightCity(replies'[i].city)
    BY <1>4, <1>5
  <1> QED
    BY <1>1, <1>2, <1>3, <1>4, <1>5, <1>6, <1>7

LEMMA StepCityAnswered == ASSUME CityInv, CityAnswered PROVE CityInv'
  <1>1. /\ Continued /\ Head(replies).kind = "create"
        /\ player' = [player EXCEPT !.city = Head(replies).city]
        /\ storedPlayer' = storedPlayer
    BY DEF CityAnswered
  <1>2. GoodPlayer(player) /\ player.facility # None
    BY <1>1, ContinuedFacts DEF CityInv, PlayersAreGood
  <1>3. Head(replies).city \in Nat
    BY <1>1, ContinuedFacts DEF Answer
  <1>4. /\ player' \in Player /\ player'.facility = player.facility
        /\ player'.resource = player.resource
        /\ player'.generals = player.generals
        /\ player'.city = Head(replies).city
    BY <1>1, <1>2, <1>3 DEF GoodPlayer, Player
  <1>5. Worth(player') = Worth(player)
    BY <1>4 DEF Worth
  <1>6. GoodPlayer(player')
    BY <1>2, <1>4, <1>5 DEF GoodPlayer, SoundPlayer
  <1>7. NeverCrashed => PaidInFull(player') /\ RightCity(player'.city)
    BY <1>1, <1>4, <1>5, ContinuedFacts DEF PaidInFull
  <1> QED
    BY <1>1, <1>2, <1>4, <1>6, <1>7, ContinuedFacts, PlayerStep

LEMMA StepUpgradeAnswered == ASSUME CityInv, UpgradeAnswered PROVE CityInv'
  <1>1. /\ Continued /\ player' = player
        /\ storedPlayer' \in {storedPlayer, player'}
    BY DEF UpgradeAnswered
  <1>2. GoodPlayer(player')
    BY <1>1 DEF CityInv, PlayersAreGood
  <1>3. /\ player'.facility # None
        /\ NeverCrashed => PaidInFull(player') /\ RightCity(player'.city)
    BY <1>1, ContinuedFacts
  <1> QED
    BY <1>1, <1>2, <1>3, ContinuedFacts, PlayerStep

\* What a step finds that leaves the player and the mail of the world alone.
LEMMA QuietFacts ==
  ASSUME CityInv
  PROVE  /\ GoodPlayer(player)
         /\ NeverCrashed => PaidInFull(player) /\ RightCity(player.city)
         /\ inbox \in Seq(Request) /\ waiting \subseteq 1 .. MaxRequests
         /\ replies \in Seq(Answer)
         /\ inbox # <<>> \/ replies # <<>> => player.facility # None
         /\ NeverCrashed =>
              \A i \in 1 .. Len(replies) :
                replies[i].kind = "create" => RightCity(replies[i].city)
         /\ requests \in Nat /\ timeouts \in Nat
  BY DEF CityInv, CityTypeOK, PlayersAreGood, NothingIsLost,
     MailNeedsFacilities, AnswersNameTheCity

LEMMA StepGiveUp ==
  ASSUME CityInv, NEW n \in waiting, GiveUp(n)
  PROVE  CityInv'
  <1>1. /\ waiting' = waiting \ {n} /\ timeouts' = timeouts + 1
        /\ UNCHANGED <<player, city, inbox, replies, storedPlayer, storedCity,
                       ids, requests, crashes>>
    BY DEF GiveUp, documents
  <1> HIDE DEF CityInv, NeverCrashed, PaidInFull, RightCity, GoodPlayer
  <1>2. /\ waiting' \subseteq 1 .. MaxRequests /\ timeouts' \in Nat
        /\ UNCHANGED <<city, storedCity, ids, crashes>>
        /\ storedPlayer' \in {storedPlayer, player'}
    BY <1>1, QuietFacts
  <1>3. /\ GoodPlayer(player')
        /\ NeverCrashed => PaidInFull(player') /\ RightCity(player'.city)
        /\ inbox' \in Seq(Request) /\ replies' \in Seq(Answer)
        /\ inbox' # <<>> \/ replies' # <<>> => player'.facility # None
        /\ requests' \in Nat
    BY <1>1, QuietFacts
  <1>4. NeverCrashed =>
          \A i \in 1 .. Len(replies') :
            replies'[i].kind = "create" => RightCity(replies'[i].city)
    BY <1>1, QuietFacts
  <1> QED
    BY <1>2, <1>3, <1>4, PlayerStep

-----------------------------------------------------------------------------
(* The steps of the documents and of the world.                            *)

LEMMA StepStorePlayer == ASSUME CityInv, StorePlayer PROVE CityInv'
  <1>1. /\ storedPlayer' = player
        /\ UNCHANGED <<player, city, inbox, waiting, replies, storedCity, ids,
                       requests, timeouts, crashes>>
    BY DEF StorePlayer, cityMail, cityBounds
  <1>2. /\ UNCHANGED <<city, storedCity, ids, crashes>>
        /\ storedPlayer' \in {storedPlayer, player'}
        /\ waiting' \subseteq 1 .. MaxRequests
        /\ requests' \in Nat /\ timeouts' \in Nat
    BY <1>1, QuietFacts
  <1>3. /\ GoodPlayer(player')
        /\ NeverCrashed => PaidInFull(player') /\ RightCity(player'.city)
        /\ inbox' \in Seq(Request) /\ replies' \in Seq(Answer)
        /\ inbox' # <<>> \/ replies' # <<>> => player'.facility # None
    BY <1>1, QuietFacts
  <1>4. NeverCrashed =>
          \A i \in 1 .. Len(replies') :
            replies'[i].kind = "create" => RightCity(replies'[i].city)
    BY <1>1, QuietFacts
  <1> QED
    BY <1>2, <1>3, <1>4, PlayerStep

LEMMA StepStoreCity == ASSUME CityInv, StoreCity PROVE CityInv'
  <1>1. /\ storedCity' = city
        /\ UNCHANGED <<player, city, inbox, waiting, replies, storedPlayer,
                       ids, requests, timeouts, crashes>>
    BY DEF StoreCity, cityMail, cityBounds
  <1> QED
    BY <1>1 DEF CityInv, CityTypeOK, PlayersAreGood, NothingIsLost,
       NeverCrashed, MailNeedsFacilities, AnswersNameTheCity, RightCity

\* What is loaded is good if what was stored is.
LEMMA LoadedIsGood ==
  ASSUME storedPlayer # None => GoodPlayer(storedPlayer)
  PROVE  GoodPlayer(Loaded)
  <1>1. CASE storedPlayer = None
    BY <1>1, NewPlayerIsGood DEF Loaded
  <1>2. CASE storedPlayer # None /\ storedPlayer.facility # None
    <2>1. storedPlayer \in Player /\ SoundPlayer(storedPlayer)
      BY <1>2 DEF GoodPlayer
    <2>2. storedPlayer.resource # None
      BY <1>2, <2>1, WorthWithFacilities
    <2>3. Loaded = storedPlayer
      BY <1>2, <2>1, <2>2 DEF Loaded, Player
    <2> QED
      BY <1>2, <2>3, Zenon
  <1>3. CASE storedPlayer # None /\ storedPlayer.facility = None
    <2>1. storedPlayer \in Player /\ SoundPlayer(storedPlayer)
      BY <1>3 DEF GoodPlayer
    <2>2. Loaded = [storedPlayer EXCEPT !.resource = 0]
      BY <1>3, <2>1 DEF Loaded, SoundPlayer, Player
    <2>3. /\ Loaded \in Player /\ Loaded.facility = None
          /\ SoundPlayer(Loaded)
      BY <1>3, <2>1, <2>2 DEF Player, SoundPlayer
    <2>4. Worth(Loaded) = 0
      BY <2>3, WorthWithoutFacilities
    <2> QED
      BY <2>3, <2>4 DEF GoodPlayer
  <1> QED
    BY <1>1, <1>2, <1>3

LEMMA StepCityCrash == ASSUME CityInv, CityCrash PROVE CityInv'
  <1>1. /\ crashes' = crashes + 1
        /\ player' = Loaded /\ city' = storedCity
        /\ inbox' = <<>> /\ waiting' = {} /\ replies' = <<>>
        /\ UNCHANGED <<storedPlayer, storedCity, ids, requests, timeouts>>
    BY DEF CityCrash, documents
  <1>2. GoodPlayer(player')
    BY <1>1, LoadedIsGood DEF CityInv, PlayersAreGood
  <1>3. CityTypeOK'
    BY <1>1, <1>2 DEF CityInv, CityTypeOK, GoodPlayer
  <1>4. ~NeverCrashed'
    BY <1>1 DEF CityInv, CityTypeOK, NeverCrashed
  <1>5. PlayersAreGood'
    BY <1>1, <1>2 DEF CityInv, PlayersAreGood
  <1>6. MailNeedsFacilities'
    BY <1>1 DEF MailNeedsFacilities
  <1>7. NothingIsLost' /\ AnswersNameTheCity'
    BY <1>4 DEF NothingIsLost, AnswersNameTheCity
  <1> QED
    BY <1>3, <1>5, <1>6, <1>7 DEF CityInv

\* A step of the world keeps the invariant when the city it leaves is the
\* one there was, if there was one, and its answer names no other.
LEMMA WorldStep ==
  ASSUME CityInv, HandleRequest,
         city' \in City, city.id \in {0, city'.id}, ids' \subseteq CityIds,
         NEW a \in Answer, a.kind = "create" => a.city \in {0, city'.id},
         replies' \in {replies, Append(replies, a)}
  PROVE  CityInv'
  <1>1. /\ inbox # <<>> /\ inbox' = Tail(inbox)
        /\ waiting' = waiting \ {Head(inbox).id}
        /\ UNCHANGED <<player, storedPlayer, storedCity, requests, timeouts,
                       crashes>>
    BY DEF HandleRequest, documents, cityBounds
  <1>2. inbox \in Seq(Request) /\ replies \in Seq(Answer)
    BY DEF CityInv, CityTypeOK
  <1>3. inbox' \in Seq(Request) /\ replies' \in Seq(Answer)
    BY <1>1, <1>2
  <1>4. CityTypeOK'
    BY <1>1, <1>3 DEF CityInv, CityTypeOK
  <1>5. PlayersAreGood'
    BY <1>1 DEF CityInv, PlayersAreGood
  <1>6. NothingIsLost'
    BY <1>1 DEF CityInv, NothingIsLost, NeverCrashed
  <1>7. MailNeedsFacilities'
    BY <1>1 DEF CityInv, MailNeedsFacilities
  <1>8. AnswersNameTheCity'
    <2>1. SUFFICES ASSUME NeverCrashed
                   PROVE  /\ RightCity(player.city)'
                          /\ \A i \in 1 .. Len(replies') :
                               replies'[i].kind = "create"
                                 => RightCity(replies[i].city)'
      BY <1>1 DEF AnswersNameTheCity, NeverCrashed
    <2>2. /\ player.city \in {0, city.id}
          /\ \A i \in 1 .. Len(replies) :
               replies[i].kind = "create" => replies[i].city \in {0, city.id}
      BY <2>1 DEF CityInv, AnswersNameTheCity, RightCity
    <2>3. RightCity(player.city)'
      BY <1>1, <2>2 DEF RightCity
    <2>4. ASSUME NEW i \in 1 .. Len(replies'), replies'[i].kind = "create"
          PROVE  replies'[i].city \in {0, city'.id}
      <3>1. CASE replies' = replies
        BY <2>2, <2>4, <3>1
      <3>2. CASE replies' = Append(replies, a)
        <4>1. \/ i \in 1 .. Len(replies) /\ replies'[i] = replies[i]
              \/ replies'[i] = a
          BY <1>2, <3>2
        <4> QED
          BY <2>2, <2>4, <4>1
      <3> QED
        BY <3>1, <3>2
    <2> QED
      BY <2>3, <2>4 DEF RightCity
  <1> QED
    BY <1>4, <1>5, <1>6, <1>7, <1>8 DEF CityInv

LEMMA StepCreateCity ==
  ASSUME CityInv, HandleRequest, CreateCity(Head(inbox))
  PROVE  CityInv'
  <1>1. city \in City /\ ids \subseteq CityIds
    BY DEF CityInv, CityTypeOK
  <1>2. CASE HasCity
    <2> DEFINE a == [kind |-> "create", city |-> 0]
    <2>1. UNCHANGED <<city, ids>> /\ Respond(Head(inbox), a)
      BY <1>2 DEF CreateCity
    <2>2. a \in Answer /\ a.city = 0
      BY DEF Answer
    <2> HIDE DEF a
    <2>3. replies' \in {replies, Append(replies, a)}
      BY <2>1 DEF Respond
    <2> QED
      BY <1>1, <2>1, <2>2, <2>3, WorldStep
  <1>3. CASE ~HasCity
    <2>1. PICK n \in CityIds \ ids :
            /\ ids' = ids \cup {n}
            /\ city' = [id |-> n, facility |-> NewFacilities]
            /\ Respond(Head(inbox), [kind |-> "create", city |-> n])
      BY <1>3 DEF CreateCity
    <2> DEFINE a == [kind |-> "create", city |-> n]
    <2>2. n \in Nat
      BY FacilitiesOK
    <2>3. city' \in City /\ city'.id = n /\ ids' \subseteq CityIds
      BY <1>1, <2>1, <2>2, SpentNew DEF City
    <2>4. city.id = 0
      BY <1>3 DEF HasCity
    <2>5. a \in Answer /\ a.city = n
      BY <2>2 DEF Answer
    <2>6. replies' \in {replies, Append(replies, a)}
      BY <2>1 DEF Respond
    <2> HIDE DEF a
    <2> QED
      BY <2>3, <2>4, <2>5, <2>6, WorldStep
  <1> QED
    BY <1>2, <1>3

LEMMA StepSyncCityFacility ==
  ASSUME CityInv, HandleRequest, SyncCityFacility(Head(inbox))
  PROVE  CityInv'
  <1> DEFINE m == Head(inbox)
             a == [kind |-> "sync", ok |-> m.city = city.id]
  <1>1. city \in City /\ ids \subseteq CityIds /\ inbox \in Seq(Request)
    BY DEF CityInv, CityTypeOK
  <1>2. m \in Request /\ m.kind = "sync"
    BY <1>1 DEF HandleRequest, SyncCityFacility
  <1>3. m.facility \in Facilities
    BY <1>2 DEF Request
  <1>4. /\ city' = IF m.city = city.id THEN [city EXCEPT !.facility = m.facility]
                   ELSE city
        /\ Respond(m, a) /\ ids' = ids
    BY DEF SyncCityFacility
  <1>5. a \in Answer /\ a.kind = "sync"
    BY DEF Answer
  <1> HIDE DEF a, m
  <1>6. city' \in City /\ city'.id = city.id
    BY <1>1, <1>3, <1>4 DEF City
  <1>7. replies' \in {replies, Append(replies, a)}
    BY <1>4 DEF Respond
  <1> QED
    BY <1>1, <1>4, <1>5, <1>6, <1>7, WorldStep

-----------------------------------------------------------------------------
(* The theorems.                                                           *)

LEMMA CityStep == CityInv /\ [CityNext]_cityVars => CityInv'
  <1> SUFFICES ASSUME CityInv, [CityNext]_cityVars
               PROVE  CityInv'
    OBVIOUS
  <1>1. CASE CreateRole
    BY <1>1, StepCreateRole
  <1>2. CASE EnterServer
    BY <1>2, StepEnterServer
  <1>3. CASE DrawGeneral
    BY <1>3, StepDrawGeneral
  <1>4. ASSUME NEW f \in Fac, UpFacility(f) PROVE CityInv'
    BY <1>4, StepUpFacility
  <1>5. ASSUME NEW f \in Fac, UpFacilityRefused(f) PROVE CityInv'
    BY <1>5, StepUpFacilityRefused
  <1>6. CASE CityAnswered
    BY <1>6, StepCityAnswered
  <1>7. CASE UpgradeAnswered
    BY <1>7, StepUpgradeAnswered
  <1>8. ASSUME NEW n \in waiting, GiveUp(n) PROVE CityInv'
    BY <1>8, StepGiveUp
  <1>9. CASE HandleRequest
    BY <1>9, StepCreateCity, StepSyncCityFacility DEF HandleRequest
  <1>10. CASE StorePlayer
    BY <1>10, StepStorePlayer
  <1>11. CASE StoreCity
    BY <1>11, StepStoreCity
  <1>12. CASE CityCrash
    BY <1>12, StepCityCrash
  <1>13. CASE UNCHANGED cityVars
    BY <1>13 DEF cityVars, cityMail, documents, cityBounds, CityInv,
       CityTypeOK, PlayersAreGood, NothingIsLost, NeverCrashed,
       MailNeedsFacilities, AnswersNameTheCity, RightCity
  <1> QED
    BY <1>1, <1>2, <1>3, <1>4, <1>5, <1>6, <1>7, <1>8, <1>9, <1>10, <1>11,
       <1>12, <1>13 DEF CityNext

\* The invariant always holds.
THEOREM CityInvariance == CitySpec => []CityInv
  BY InitCity, CityStep, PTL DEF CitySpec

\* Every document, every player and every message between the two actors is
\* what its type says: no resource is ever overdrawn by
\* HandleUpFacilityRequest or HandleDrawGeneralRequest, and no facility is
\* built above its last level.
THEOREM CityTypeCorrect == CitySpec => []CityTypeOK
  <1>1. CityInv => CityTypeOK
    BY DEF CityInv
  <1> QED
    BY <1>1, CityInvariance, PTL

\* Whatever is refused, times out, is loaded or is stored, what a player has
\* and what it has spent on facilities and generals is what a new role gets,
\* or, when a crash has left a role without its purse, nothing.
THEOREM BooksAlwaysBalance == CitySpec => []BooksBalance
  <1>1. CityInv => BooksBalance
    BY DEF CityInv, BooksBalance, PlayersAreGood, GoodPlayer, NothingIsLost,
       PaidInFull
  <1> QED
    BY <1>1, CityInvariance, PTL

\* Until the process crashes HandleEnterServerRequest takes over no city but
\* the one that CreateCity keeps for the player, in whatever order entries
\* and their answers overlap.
THEOREM NeverAWrongCity == CitySpec => []NoWrongCity
  <1>1. CityInv => NoWrongCity
    BY DEF CityInv, NoWrongCity, AnswersNameTheCity, RightCity
  <1> QED
    BY <1>1, CityInvariance, PTL
=============================================================================
