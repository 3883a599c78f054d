------------------------ MODULE PlayerRequests_proofs -----------------------
(***************************************************************************)
(* Proofs about PlayerRequests, for any requests and any size of the       *)
(* window: the window holds the last numbers taken, a request that is sent *)
(* again is carried out once, what the client was told is true, and the    *)
(* player and its document are durable cells.                              *)
(***************************************************************************)
EXTENDS PlayerRequests, TLAPS, SequenceTheorems

\* The window is the end of the numbers taken.
WindowIsSuffix ==
  /\ Len(window) = IF Len(taken) <= WindowSize THEN Len(taken) ELSE WindowSize
  /\ \A i \in 1 .. Len(window) :
       window[i] = taken[Len(taken) - Len(window) + i]

\* While the window has forgotten nothing, what has been carried out since
\* the load has been taken.
DoneIsTaken ==
  Len(taken) <= WindowSize =>
    \A n \in Seqs :
      entity[n] <= loaded[n] + (IF n \in ToSet(taken) THEN 1 ELSE 0)

RecentInv == WindowIsSuffix /\ WindowIsRecent
OnceInv == DoneIsTaken /\ AtMostOnce

RequestsInv == RequestsTypeOK /\ RecentInv /\ OnceInv

USE DEF requestVars, actor, cache, database, bounds

-----------------------------------------------------------------------------
(* Types.                                                                  *)

LEMMA OneElement ==
  ASSUME NEW S, NEW x \in S
  PROVE  <<x>> \in Seq(S)
OBVIOUS

LEMMA PlayerFacts ==
  /\ NobodyYet \in Player
  /\ \A p \in Player, m \in Messages : [p EXCEPT ![m] = @ + 1] \in Player
BY DEF NobodyYet, Player

LEMMA KnownIsPlayer ==
  ASSUME RequestsTypeOK
  PROVE  Known \in Player /\ Base \in Player
BY DEF RequestsTypeOK, Known, Base

LEMMA AcceptedIsWindow ==
  ASSUME NEW n \in Seqs, window \in Seq(Seqs)
  PROVE  Accepted(n) \in Seq(Seqs)
<1>1. CASE Len(window) = WindowSize
  <2>1. window # <<>>
    BY <1>1, RequestsAssumption
  <2>2. Tail(window) \in Seq(Seqs)
    BY <2>1, HeadTailProperties
  <2> QED BY <1>1, <2>2, AppendProperties DEF Accepted
<1>2. CASE Len(window) # WindowSize
  BY <1>2, AppendProperties DEF Accepted
<1> QED BY <1>1, <1>2

LEMMA UnsavedIsSeq ==
  ASSUME RequestsTypeOK
  PROVE  Unsaved \in Seq(Player)
<1>1. \A p \in Player : <<p>> \in Seq(Player)
  OBVIOUS
<1>2. <<>> \in Seq(Player)
  OBVIOUS
<1>3. /\ (IF saving = None THEN <<>> ELSE <<saving>>) \in Seq(Player)
      /\ (IF queued = None THEN <<>> ELSE <<queued>>) \in Seq(Player)
  BY <1>1, <1>2 DEF RequestsTypeOK
<1> QED BY <1>3, ConcatProperties DEF Unsaved

LEMMA BacklogFacts ==
  ASSUME NEW w \in Backlog
  PROVE  /\ Head(w) \in Player
         /\ Tail(w) # <<>> => Tail(w) \in Backlog
         /\ Len(w) > 1 => Tail(w) # <<>>
<1>1. w \in Seq(Player) /\ w # <<>>
  BY DEF Backlog
<1>2. Head(w) \in Player /\ Tail(w) \in Seq(Player) /\ Len(Tail(w)) = Len(w) - 1
  BY <1>1, HeadTailProperties
<1>3. Len(w) \in Nat /\ Len(Tail(w)) \in Nat
  BY <1>1, <1>2, LenProperties
<1>4. ASSUME Len(w) > 1 PROVE Tail(w) # <<>>
  <2>1. Len(Tail(w)) # 0
    BY <1>2, <1>3, <1>4
  <2>2. Len(<<>>) = 0
    BY EmptySeq
  <2> QED BY <2>1, <2>2
<1> QED BY <1>2, <1>4 DEF Backlog

LEMMA RenewedTypes ==
  ASSUME Renewed
  PROVE  /\ state' \in {"None", "LoadFailed", "Online"}
         /\ window' \in Seq(Seqs) /\ taken' \in Seq(Seqs)
         /\ entity' \in Player /\ loaded' \in Player
         /\ dirty' \in BOOLEAN
         /\ flushing' \in Seqs \cup {None}
         /\ saving' \in Player \cup {None} /\ queued' \in Player \cup {None}
<1>1. <<>> \in Seq(Seqs)
  BY EmptySeq
<1> QED BY <1>1, PlayerFacts DEF Renewed

LEMMA RequestsTypeStep ==
  ASSUME RequestsTypeOK, [RequestsNext]_requestVars
  PROVE  RequestsTypeOK'
<1> USE RequestsAssumption DEF RequestsTypeOK
<1>0. ASSUME mailbox # <<>>
      PROVE  Tail(mailbox) \in Seq(Messages \cup {Started})
  BY <1>0, HeadTailProperties
<1>1. ASSUME NEW m \in Messages, Forward(m)
      PROVE  RequestsTypeOK'
  <2>1. (IF spawned THEN mailbox ELSE <<Started>>) \in Seq(Messages \cup {Started})
    BY OneElement
  <2>2. <<m>> \in Seq(Messages \cup {Started})
    BY OneElement
  <2>3. mailbox' \in Seq(Messages \cup {Started})
    BY <1>1, <2>1, <2>2, ConcatProperties DEF Forward
  <2> QED BY <1>1, <2>3 DEF Forward
<1>2. ASSUME NEW m \in Messages, Panic(m)
      PROVE  RequestsTypeOK'
  <2>1. mailbox' \in Seq(Messages \cup {Started})
    <3>1. <<Started>> \in Seq(Messages \cup {Started})
      BY OneElement
    <3> QED BY <1>2, <1>0, <3>1, ConcatProperties DEF Panic
  <2>2. leaked' \subseteq Backlog
    BY <1>2, UnsavedIsSeq DEF Panic, Backlog
  <2> QED BY <1>2, <2>1, <2>2, RenewedTypes DEF Panic
<1>3. CASE Start
  BY <1>3, <1>0, KnownIsPlayer
     DEF Start, Receives, TakeNone, LoadFails, IsOnline
<1>4. CASE HandlePush
  <2>1. Done(Push) \in Player
    BY KnownIsPlayer, PlayerFacts DEF Done, Messages
  <2>2. mailbox' \in Seq(Messages \cup {Started})
    BY <1>4, <1>0 DEF HandlePush, Receives
  <2>3. CASE LoadFails
    BY <1>4, <2>2, <2>3 DEF HandlePush, Receives, TakeNone, LoadFails
  <2>4. CASE IsOnline /\ entity' = Done(Push) /\ dirty' = TRUE
             /\ UNCHANGED <<flushing, cache>>
    BY <1>4, <2>1, <2>2, <2>4, KnownIsPlayer
       DEF HandlePush, Receives, TakeNone, IsOnline
  <2> QED BY <1>4, <2>3, <2>4 DEF HandlePush
<1>5. ASSUME NEW n \in Seqs
      PROVE  /\ Refuse(n) => RequestsTypeOK'
             /\ NotLoaded(n) => RequestsTypeOK'
             /\ Handle(n) => RequestsTypeOK'
             /\ HandleSync(n) => RequestsTypeOK'
  <2>1. ASSUME TakeNumber(n)
        PROVE  window' \in Seq(Seqs) /\ taken' \in Seq(Seqs)
    BY <2>1, AcceptedIsWindow, AppendProperties DEF TakeNumber
  <2>2. Done(n) \in Player
    BY KnownIsPlayer, PlayerFacts DEF Done, Messages
  <2>3. ASSUME Refuse(n) PROVE RequestsTypeOK'
    BY <2>3, <1>0 DEF Refuse, Receives, Respond
  <2>4. ASSUME NotLoaded(n) PROVE RequestsTypeOK'
    BY <2>4, <2>1, <1>0 DEF NotLoaded, Receives, Respond, LoadFails
  <2>5. ASSUME Handle(n) PROVE RequestsTypeOK'
    BY <2>5, <2>1, <2>2, <1>0, KnownIsPlayer DEF Handle, Receives, Respond, IsOnline
  <2>6. ASSUME HandleSync(n) PROVE RequestsTypeOK'
    BY <2>6, <2>1, <2>2, <1>0, KnownIsPlayer DEF HandleSync, Receives, IsOnline
  <2> QED BY <2>3, <2>4, <2>5, <2>6
<1>6. CASE Flushed
  BY <1>6 DEF Flushed, Respond
<1>7. CASE Tick
  BY <1>7 DEF Tick
<1>8. CASE WriterStep
  BY <1>8 DEF WriterStep, TakePending, Apply, Saved, SaveFails
<1>9. ASSUME NEW w \in leaked
      PROVE  /\ LeakedSave(w) => RequestsTypeOK'
             /\ LeakedSkip(w) => RequestsTypeOK'
  <2>2. /\ Head(w) \in Player
        /\ Tail(w) # <<>> => Tail(w) \in Backlog
        /\ Len(w) > 1 => Tail(w) # <<>>
    BY BacklogFacts
  <2>3. ASSUME LeakedSave(w) PROVE RequestsTypeOK'
    <3>1. leaked' \subseteq Backlog
      BY <2>2, <2>3 DEF LeakedSave
    <3> QED BY <2>2, <2>3, <3>1 DEF LeakedSave
  <2>4. ASSUME LeakedSkip(w) PROVE RequestsTypeOK'
    BY <2>2, <2>4 DEF LeakedSkip
  <2> QED BY <2>3, <2>4
<1>10. CASE RequestsCrash
  <2>1. <<>> \in Seq(Messages \cup {Started})
    BY EmptySeq
  <2>2. /\ mailbox' \in Seq(Messages \cup {Started})
        /\ leaked' \subseteq Backlog /\ crashes' \in Nat
    BY <1>10, <2>1 DEF RequestsCrash
  <2> QED BY <1>10, <2>2, RenewedTypes DEF RequestsCrash
<1>11. CASE UNCHANGED requestVars
  BY <1>11
<1> QED BY <1>1, <1>2, <1>3, <1>4, <1>5, <1>6, <1>7, <1>8, <1>9, <1>10, <1>11
        DEF RequestsNext, ActorStep

-----------------------------------------------------------------------------
(* The window.                                                             *)

LEMMA AcceptedFacts ==
  ASSUME NEW n \in Seqs, window \in Seq(Seqs), Len(window) <= WindowSize
  PROVE  /\ Accepted(n) \in Seq(Seqs)
         /\ Len(Accepted(n)) = IF Len(window) = WindowSize THEN WindowSize
                                ELSE Len(window) + 1
         /\ Accepted(n)[Len(Accepted(n))] = n
         /\ \A i \in 1 .. Len(Accepted(n)) - 1 :
              Accepted(n)[i] = window[i + Len(window) + 1 - Len(Accepted(n))]
<1> USE RequestsAssumption
<1>0. Len(window) \in Nat
  BY LenProperties
<1>1. CASE Len(window) = WindowSize
  <2>1. window # <<>>
    BY <1>1, EmptySeq
  <2>2. /\ Tail(window) \in Seq(Seqs) /\ Len(Tail(window)) = WindowSize - 1
        /\ \A i \in 1 .. WindowSize - 1 : Tail(window)[i] = window[i + 1]
    BY <1>1, <2>1, HeadTailProperties
  <2>3. Accepted(n) = Append(Tail(window), n)
    BY <1>1 DEF Accepted
  <2>4. /\ Accepted(n) \in Seq(Seqs) /\ Len(Accepted(n)) = WindowSize
        /\ Accepted(n)[WindowSize] = n
        /\ \A i \in 1 .. WindowSize - 1 : Accepted(n)[i] = Tail(window)[i]
    BY <2>2, <2>3, AppendProperties
  <2> QED BY <1>1, <2>2, <2>4
<1>2. CASE Len(window) # WindowSize
  <2>1. Accepted(n) = Append(window, n)
    BY <1>2 DEF Accepted
  <2>2. /\ Accepted(n) \in Seq(Seqs) /\ Len(Accepted(n)) = Len(window) + 1
        /\ Accepted(n)[Len(window) + 1] = n
        /\ \A i \in 1 .. Len(window) : Accepted(n)[i] = window[i]
    BY <2>1, AppendProperties
  <2> QED BY <1>0, <1>2, <2>2
<1> QED BY <1>1, <1>2

\* Arithmetic of the step below.
LEMMA Shifted ==
  ASSUME NEW i \in Int, NEW l \in Int, NEW w \in Int, NEW t \in Int
  PROVE  (t + 1) - w + i = t - l + (i + l + 1 - w)
OBVIOUS

\* Taking a number that is not in the window keeps the window and the
\* numbers taken together.
LEMMA TakeKeepsRecent ==
  ASSUME RequestsTypeOK, RecentInv, NEW n \in Seqs, ~Seen(n), TakeNumber(n)
  PROVE  RecentInv'
<1> DEFINE T == Len(taken)
           L == Len(window)
<1> USE RequestsAssumption
<1>1. /\ T \in Nat /\ L \in Nat /\ L <= WindowSize /\ L <= T
      /\ L = IF T <= WindowSize THEN T ELSE WindowSize
      /\ window \in Seq(Seqs) /\ taken \in Seq(Seqs)
  BY LenProperties DEF RequestsTypeOK, RecentInv, WindowIsSuffix
<1>2. /\ taken' \in Seq(Seqs) /\ Len(taken') = T + 1
      /\ taken'[T + 1] = n
      /\ \A i \in 1 .. T : taken'[i] = taken[i]
  BY <1>1, AppendProperties DEF TakeNumber
<1>3. /\ window' \in Seq(Seqs)
      /\ Len(window') = IF L = WindowSize THEN WindowSize ELSE L + 1
      /\ window'[Len(window')] = n
      /\ \A i \in 1 .. Len(window') - 1 :
           window'[i] = window[i + L + 1 - Len(window')]
  BY <1>1, AcceptedFacts DEF TakeNumber
<1>4. WindowIsSuffix'
  <2>1. Len(window') = IF Len(taken') <= WindowSize THEN Len(taken')
                       ELSE WindowSize
    BY <1>1, <1>2, <1>3
  <2>2. ASSUME NEW i \in 1 .. Len(window')
        PROVE  window'[i] = taken'[Len(taken') - Len(window') + i]
    <3>1. CASE i = Len(window')
      BY <1>1, <1>2, <1>3, <3>1
    <3>2. CASE i # Len(window')
      <4> DEFINE j == i + L + 1 - Len(window')
      <4>1. j \in 1 .. L /\ i \in 1 .. Len(window') - 1
        BY <1>1, <1>3, <3>2
      <4>2. window'[i] = window[j] /\ window[j] = taken[T - L + j]
        BY <1>3, <4>1 DEF RecentInv, WindowIsSuffix
      <4>3. /\ Len(taken') - Len(window') + i = T - L + j
            /\ T - L + j \in 1 .. T
        <5>1. /\ i \in Int /\ Len(window') \in Int /\ T \in Int /\ L \in Int
              /\ Len(taken') = T + 1 /\ j \in 1 .. L /\ L <= T
          <6>1. i \in Int
            OBVIOUS
          <6>2. Len(window') \in Int /\ T \in Int /\ L \in Int /\ L <= T
            BY <1>1, <1>3
          <6> HIDE DEF T, L, j
          <6> QED BY <1>2, <4>1, <6>1, <6>2
        <5>2. (T + 1) - Len(window') + i = T - L + (i + L + 1 - Len(window'))
          <6> HIDE DEF T, L
          <6> QED BY <5>1, Shifted
        <5>3. T - L + j \in 1 .. T
          <6> HIDE DEF T, L, j
          <6> QED BY <5>1
        <5> QED BY <5>1, <5>2, <5>3
      <4>4. taken'[T - L + j] = taken[T - L + j]
        BY <1>2, <4>3
      <4> HIDE DEF j, T, L
      <4> QED BY <4>2, <4>3, <4>4
    <3> QED BY <3>1, <3>2
  <2> QED BY <2>1, <2>2 DEF WindowIsSuffix
<1>5. WindowIsRecent'
  <2>1. Len(window') <= WindowSize
    BY <1>1, <1>3
  <2>2. ASSUME Len(taken') <= WindowSize PROVE window' = taken'
    <3>1. Len(window') = Len(taken')
      BY <1>4, <2>2 DEF WindowIsSuffix
    <3>2. \A i \in 1 .. Len(window') : window'[i] = taken'[i]
      BY <1>2, <1>4, <3>1 DEF WindowIsSuffix
    <3> QED BY <1>2, <1>3, <3>1, <3>2, SeqEqual
  <2>3. ASSUME NEW i \in DOMAIN taken', NEW j \in DOMAIN taken',
               i < j, taken'[i] = taken'[j]
        PROVE  j - i > WindowSize
    <3>0. i \in 1 .. T + 1 /\ j \in 1 .. T + 1 /\ i \in 1 .. T
      BY <1>1, <1>2, <2>3, LenProperties
    <3>1. CASE j # T + 1
      <4>1. /\ i \in DOMAIN taken /\ j \in DOMAIN taken
            /\ taken[i] = taken[j]
        BY <1>1, <1>2, <2>3, <3>0, <3>1, LenProperties
      <4> QED BY <2>3, <4>1 DEF RecentInv, WindowIsRecent
    <3>2. CASE j = T + 1
      <4>1. taken[i] = n
        BY <1>2, <2>3, <3>0, <3>2
      <4>2. i <= T - L
        <5>1. SUFFICES ASSUME i > T - L PROVE FALSE
          BY <1>1, <3>0
        <5>2. i - (T - L) \in 1 .. L
          BY <1>1, <3>0, <5>1
        <5>3. window[i - (T - L)] = taken[T - L + (i - (T - L))]
          BY <5>2 DEF RecentInv, WindowIsSuffix
        <5>4. T - L + (i - (T - L)) = i
          BY <1>1, <3>0
        <5>5. window[i - (T - L)] = n
          BY <4>1, <5>3, <5>4
        <5> QED BY <1>1, <5>2, <5>5, LenProperties DEF Seen, ToSet
      <4> QED BY <1>1, <3>0, <3>2, <4>2
    <3> QED BY <3>1, <3>2
  <2> QED BY <2>1, <2>2, <2>3 DEF WindowIsRecent
<1> QED BY <1>4, <1>5 DEF RecentInv

\* And what is carried out with it is counted once.
LEMMA TakeKeepsOnce ==
  ASSUME RequestsInv, NEW n \in Seqs, ~Seen(n), TakeNumber(n),
         IsOnline, entity' = Done(n)
  PROVE  OnceInv'
<1> USE RequestsAssumption DEF RequestsInv
<1>1. /\ taken \in Seq(Seqs) /\ taken' \in Seq(Seqs)
      /\ Len(taken) \in Nat /\ Len(taken') = Len(taken) + 1
      /\ n \in ToSet(taken') /\ ToSet(taken) \subseteq ToSet(taken')
  <2>1. /\ taken' = Append(taken, n) /\ taken \in Seq(Seqs)
        /\ Len(taken) \in Nat /\ DOMAIN taken = 1 .. Len(taken)
    BY LenProperties DEF TakeNumber, RequestsTypeOK
  <2>2. /\ taken' \in Seq(Seqs) /\ Len(taken') = Len(taken) + 1
        /\ taken'[Len(taken) + 1] = n
        /\ \A i \in 1 .. Len(taken) : taken'[i] = taken[i]
    BY <2>1, AppendProperties
  <2>3. DOMAIN taken' = 1 .. Len(taken) + 1
    BY <2>2, LenProperties
  <2> QED BY <2>1, <2>2, <2>3 DEF ToSet
<1>2. Known \in Player /\ Base \in Player
  BY KnownIsPlayer
<1>3. /\ loaded' = Base
      /\ \A k \in Seqs : entity'[k] = IF k = n THEN Known[k] + 1 ELSE Known[k]
  BY <1>2 DEF IsOnline, Done, Player, Messages
<1>4. ASSUME Len(taken) <= WindowSize
      PROVE  /\ Known[n] <= Base[n]
             /\ \A k \in Seqs : Known[k] <= Base[k] + (IF k \in ToSet(taken) THEN 1 ELSE 0)
  <2>1. n \notin ToSet(taken)
    BY <1>4 DEF Seen, RecentInv, WindowIsRecent
  <2>2. \A k \in Seqs : Base[k] \in Nat /\ Known[k] \in Nat
    BY <1>2 DEF Player, Messages
  <2> QED BY <1>4, <2>1, <2>2 DEF OnceInv, DoneIsTaken, Known, Base
<1>5. \A k \in Seqs : Base[k] \in Nat /\ Known[k] \in Nat
  BY <1>2 DEF Player, Messages
<1>6. DoneIsTaken'
  BY <1>1, <1>3, <1>4, <1>5 DEF DoneIsTaken
<1>7. AtMostOnce'
  BY <1>1, <1>3, <1>4, <1>5 DEF AtMostOnce
<1> QED BY <1>6, <1>7 DEF OnceInv

-----------------------------------------------------------------------------
(* Every step.                                                             *)

\* A step that leaves the window and the player alone.
LEMMA QuietActor ==
  ASSUME RequestsInv, UNCHANGED <<window, taken>>,
         entity' = entity, loaded' = loaded
  PROVE  RecentInv' /\ OnceInv'
BY DEF RequestsInv, RecentInv, OnceInv, WindowIsSuffix, WindowIsRecent,
       DoneIsTaken, AtMostOnce

\* A step that loads the player, and may carry out a push.
LEMMA LoadKeepsOnce ==
  ASSUME RequestsInv, UNCHANGED <<window, taken>>, IsOnline,
         entity' \in {Known, Done(Push)}
  PROVE  RecentInv' /\ OnceInv'
<1>1. Known \in Player /\ Base \in Player /\ Len(taken) \in Nat
  BY KnownIsPlayer, LenProperties DEF RequestsInv, RequestsTypeOK
<1>2. \A k \in Seqs : /\ entity'[k] = Known[k] /\ loaded'[k] = Base[k]
                      /\ Known[k] \in Nat /\ Base[k] \in Nat
  BY <1>1, RequestsAssumption DEF IsOnline, Done, Player, Messages
<1>3. \A k \in Seqs : \/ entity'[k] = entity[k] /\ loaded'[k] = loaded[k]
                      \/ entity'[k] = loaded'[k]
  BY <1>2 DEF Known, Base
<1>4. OnceInv'
  BY <1>1, <1>2, <1>3 DEF RequestsInv, OnceInv, DoneIsTaken, AtMostOnce
<1>5. RecentInv'
  BY DEF RequestsInv, RecentInv, WindowIsSuffix, WindowIsRecent
<1> QED BY <1>4, <1>5

LEMMA RenewedKeeps ==
  ASSUME Renewed
  PROVE  RecentInv' /\ OnceInv'
<1>1. /\ Len(window') = 0 /\ Len(taken') = 0 /\ DOMAIN taken' = {}
      /\ window' = taken'
  BY DEF Renewed
<1>2. RecentInv'
  BY <1>1, RequestsAssumption DEF RecentInv, WindowIsSuffix, WindowIsRecent
<1>3. \A k \in Seqs : entity'[k] = 0 /\ loaded'[k] = 0
  BY DEF Renewed, NobodyYet, Messages
<1>4. OnceInv'
  BY <1>1, <1>3 DEF OnceInv, DoneIsTaken, AtMostOnce
<1> QED BY <1>2, <1>4

LEMMA RequestsStep ==
  ASSUME RequestsInv, [RequestsNext]_requestVars
  PROVE  RequestsInv'
<1>0. RequestsTypeOK'
  BY RequestsTypeStep DEF RequestsInv
<1> SUFFICES RecentInv' /\ OnceInv'
  BY <1>0 DEF RequestsInv
<1>1. ASSUME NEW m \in Messages
      PROVE  /\ Forward(m) => RecentInv' /\ OnceInv'
             /\ Panic(m) => RecentInv' /\ OnceInv'
  BY QuietActor, RenewedKeeps DEF Forward, Panic
<1>2. ASSUME Start PROVE RecentInv' /\ OnceInv'
  <2>1. CASE LoadFails
    BY <1>2, <2>1, QuietActor DEF Start, TakeNone, LoadFails
  <2>2. CASE IsOnline /\ entity' = Known
    BY <1>2, <2>2, LoadKeepsOnce DEF Start, TakeNone
  <2> QED BY <1>2, <2>1, <2>2 DEF Start
<1>3. ASSUME HandlePush PROVE RecentInv' /\ OnceInv'
  <2>1. CASE LoadFails
    BY <1>3, <2>1, QuietActor DEF HandlePush, TakeNone, LoadFails
  <2>2. CASE IsOnline /\ entity' = Done(Push)
    BY <1>3, <2>2, LoadKeepsOnce DEF HandlePush, TakeNone
  <2> QED BY <1>3, <2>1, <2>2 DEF HandlePush
<1>4. ASSUME NEW n \in Seqs
      PROVE  /\ Refuse(n) => RecentInv' /\ OnceInv'
             /\ Handle(n) => RecentInv' /\ OnceInv'
             /\ HandleSync(n) => RecentInv' /\ OnceInv'
             /\ NotLoaded(n) => RecentInv' /\ OnceInv'
  <2>1. ASSUME Refuse(n) PROVE RecentInv' /\ OnceInv'
    BY <2>1, QuietActor DEF Refuse
  <2>2. ASSUME Handle(n) PROVE RecentInv' /\ OnceInv'
    BY <2>2, TakeKeepsRecent, TakeKeepsOnce DEF Handle, RequestsInv
  <2>3. ASSUME HandleSync(n) PROVE RecentInv' /\ OnceInv'
    BY <2>3, TakeKeepsRecent, TakeKeepsOnce DEF HandleSync, RequestsInv
  <2>4. ASSUME NotLoaded(n) PROVE RecentInv' /\ OnceInv'
    <3>1. RecentInv'
      BY <2>4, TakeKeepsRecent DEF NotLoaded, RequestsInv
    <3>2. entity' = entity /\ loaded' = loaded
      BY <2>4 DEF NotLoaded, LoadFails
    <3>3. /\ taken \in Seq(Seqs) /\ taken' = Append(taken, n)
          /\ entity \in Player /\ loaded \in Player
      BY <2>4 DEF NotLoaded, TakeNumber, RequestsInv, RequestsTypeOK
    <3>4. /\ Len(taken') = Len(taken) + 1 /\ Len(taken) \in Nat
          /\ ToSet(taken) \subseteq ToSet(taken')
      BY <3>3, AppendProperties, LenProperties DEF ToSet
    <3>5. \A k \in Seqs : entity[k] \in Nat /\ loaded[k] \in Nat
      BY <3>3 DEF Player, Messages
    <3>6. OnceInv'
      BY <3>2, <3>4, <3>5, RequestsAssumption
         DEF RequestsInv, OnceInv, DoneIsTaken, AtMostOnce
    <3> QED BY <3>1, <3>6
  <2> QED BY <2>1, <2>2, <2>3, <2>4
<1>5. ASSUME Flushed \/ Tick \/ WriterStep PROVE RecentInv' /\ OnceInv'
  BY <1>5, QuietActor
     DEF Flushed, Tick, WriterStep, TakePending, Apply, Saved, SaveFails
<1>6. ASSUME NEW w \in leaked, LeakedSave(w) \/ LeakedSkip(w)
      PROVE  RecentInv' /\ OnceInv'
  BY <1>6, QuietActor DEF LeakedSave, LeakedSkip
<1>7. ASSUME RequestsCrash PROVE RecentInv' /\ OnceInv'
  BY <1>7, RenewedKeeps DEF RequestsCrash
<1>8. CASE UNCHANGED requestVars
  BY <1>8, QuietActor
<1> QED BY <1>1, <1>2, <1>3, <1>4, <1>5, <1>6, <1>7, <1>8
        DEF RequestsNext, ActorStep

LEMMA RequestsStart ==
  ASSUME RequestsInit
  PROVE  RequestsInv
<1>1. RequestsTypeOK
  <2>1. <<>> \in Seq(Seqs) /\ <<>> \in Seq(Messages \cup {Started})
    BY EmptySeq
  <2> QED BY <2>1, PlayerFacts DEF RequestsInit, RequestsTypeOK
<1>2. Len(window) = 0 /\ Len(taken) = 0 /\ DOMAIN taken = {} /\ window = taken
  BY DEF RequestsInit
<1>3. RecentInv
  BY <1>2, RequestsAssumption DEF RecentInv, WindowIsSuffix, WindowIsRecent
<1>4. \A k \in Seqs : entity[k] = 0 /\ loaded[k] = 0
  BY DEF RequestsInit, NobodyYet, Messages
<1>5. OnceInv
  BY <1>2, <1>4 DEF OnceInv, DoneIsTaken, AtMostOnce
<1> QED BY <1>1, <1>3, <1>5 DEF RequestsInv

LEMMA RequestsSafe == RequestsSpec => []RequestsInv
BY RequestsStart, RequestsStep, PTL DEF RequestsSpec

\* Every variable has its type: the answers are the three there are, the
\* window holds numbers, the leaked writers hold something to save.
THEOREM RequestsTypesHold == RequestsSpec => []RequestsTypeOK
BY RequestsSafe, PTL DEF RequestsInv

\* acceptSeq forgets the oldest number and no other: for any window size a
\* number is taken again only after that many others.
THEOREM WindowHolds == RequestsSpec => []WindowIsRecent
BY RequestsSafe, PTL DEF RequestsInv, RecentInv

\* A request that is sent again is carried out once, whatever panics,
\* crashes, loads and saves that fail, and pushes of the world lie between.
THEOREM OnceHolds == RequestsSpec => []AtMostOnce
BY RequestsSafe, PTL DEF RequestsInv, OnceInv

\* The window catches a request that comes again, for any size of the window.
THEOREM ResentRequestsAreCaught == RequestsSpec => []ResentIsCaught
BY WindowHolds, OnceHolds, PTL DEF ResentIsCaught

-----------------------------------------------------------------------------
(* What the client was told.                                               *)

\* A number that was taken has been refused, or its request is done; and
\* only a number that was taken is a duplicate.
TakenIsDone ==
  /\ \A n \in ToSet(taken) :
       \/ "failed" \in answers[n]
       \/ state = "Online" /\ entity[n] > 0
  /\ \A n \in Seqs : "duplicate" \in answers[n] => n \in ToSet(taken)

\* Message n has been carried out wherever the player still comes from.
Holds(n) ==
  /\ document[n] > 0
  /\ saving # None => saving[n] > 0
  /\ queued # None => queued[n] > 0
  /\ state = "Online" => entity[n] > 0

OkIsHeld == \A n \in Synced : "ok" \in answers[n] => Holds(n)

\* The newest snapshot has the request whose handler waits for it.
FlushIsUnderWay ==
  flushing # None =>
    /\ state = "Online" /\ entity[flushing] > 0
    /\ queued # None => queued[flushing] > 0
    /\ queued = None /\ saving # None => saving[flushing] > 0
    /\ queued = None /\ saving = None => document[flushing] > 0

\* An actor that has not loaded its player has nothing to save.
OfflineIsIdle == state # "Online" => saving = None /\ queued = None

DoneInv == panics = 0 /\ crashes = 0 => TakenIsDone
StoredInv == OfflineIsIdle /\ (~overwritten => OkIsHeld /\ FlushIsUnderWay)

ToldInv == DoneInv /\ StoredInv

\* What carrying out a message makes of the player.
LEMMA DoneFacts ==
  ASSUME RequestsTypeOK, NEW m \in Messages
  PROVE  /\ Known \in Player /\ Done(m) \in Player /\ Done(m)[m] > 0
         /\ \A k \in Messages : Known[k] \in Nat /\ Done(m)[k] >= Known[k]
         /\ Known # None /\ Done(m) # None
<1>1. Known \in Player /\ Done(m) \in Player
  BY KnownIsPlayer, PlayerFacts DEF Done
<1>2. \A k \in Messages :
        /\ Known[k] \in Nat
        /\ Done(m)[k] = IF k = m THEN Known[k] + 1 ELSE Known[k]
  BY <1>1 DEF Done, Player
<1>3. None \notin Player
  BY NothingAssumption DEF Player, Messages
<1> QED BY <1>1, <1>2, <1>3

\* The numbers taken after one more.
LEMMA TakenFacts ==
  ASSUME RequestsTypeOK, NEW n \in Seqs, TakeNumber(n)
  PROVE  ToSet(taken') = ToSet(taken) \cup {n}
<1>1. taken \in Seq(Seqs) /\ taken' = Append(taken, n)
  BY DEF RequestsTypeOK, TakeNumber
<1>2. /\ DOMAIN taken = 1 .. Len(taken) /\ Len(taken) \in Nat
      /\ DOMAIN taken' = 1 .. Len(taken) + 1
      /\ taken'[Len(taken) + 1] = n
      /\ \A i \in DOMAIN taken : taken'[i] = taken[i]
  BY <1>1, AppendProperties, LenProperties
<1> QED BY <1>2 DEF ToSet

LEMMA TakenAreSeqs ==
  ASSUME RequestsTypeOK
  PROVE  ToSet(taken) \subseteq Seqs
BY ElementOfSeq, LenProperties DEF ToSet, RequestsTypeOK

\* What the window has, has been taken.
LEMMA SeenIsTaken ==
  ASSUME RequestsTypeOK, RecentInv, NEW n \in Seqs, Seen(n)
  PROVE  n \in ToSet(taken)
<1>1. /\ window \in Seq(Seqs) /\ taken \in Seq(Seqs)
      /\ Len(window) \in Nat /\ Len(taken) \in Nat /\ Len(window) <= Len(taken)
  BY LenProperties DEF RequestsTypeOK, RecentInv, WindowIsSuffix
<1>2. PICK i \in 1 .. Len(window) : window[i] = n
  BY <1>1, LenProperties DEF Seen, ToSet
<1>3. taken[Len(taken) - Len(window) + i] = n
  BY <1>2 DEF RecentInv, WindowIsSuffix
<1>4. Len(taken) - Len(window) + i \in DOMAIN taken
  BY <1>1, LenProperties
<1> QED BY <1>3, <1>4 DEF ToSet

\* A step that leaves the history of numbers, the failed and the duplicate
\* answers alone.
LEMMA SameAnswersKeep ==
  ASSUME DoneInv, UNCHANGED <<state, taken, entity, panics, crashes>>,
         \A n \in Seqs : /\ "failed" \in answers'[n] <=> "failed" \in answers[n]
                         /\ "duplicate" \in answers'[n] <=> "duplicate" \in answers[n],
         taken \in Seq(Seqs)
  PROVE  DoneInv'
<1>1. ToSet(taken) \subseteq Seqs
  BY ElementOfSeq, LenProperties DEF ToSet
<1> QED BY <1>1 DEF DoneInv, TakenIsDone

\* Loading the player, and carrying out what is no request of the client.
LEMMA LoadKeepsDone ==
  ASSUME RequestsTypeOK, DoneInv, UNCHANGED <<taken, answers, panics, crashes>>,
         IsOnline, entity' \in {Known, Done(Push)}
  PROVE  DoneInv'
<1>1. ToSet(taken) \subseteq Seqs
  BY TakenAreSeqs
<1>2. \A k \in Seqs : Known[k] \in Nat /\ entity'[k] \in Nat /\ entity'[k] >= Known[k]
  BY DoneFacts DEF Messages, Player
<1>3. state = "Online" => \A k \in Seqs : Known[k] = entity[k]
  BY DEF Known
<1> QED BY <1>1, <1>2, <1>3 DEF DoneInv, TakenIsDone, IsOnline

\* A request that is carried out.
LEMMA TakeKeepsDone ==
  ASSUME RequestsTypeOK, DoneInv, NEW n \in Seqs, TakeNumber(n),
         IsOnline, entity' = Done(n), UNCHANGED <<panics, crashes>>,
         \A k \in Seqs : /\ "failed" \in answers'[k] <=> "failed" \in answers[k]
                         /\ "duplicate" \in answers'[k] <=> "duplicate" \in answers[k]
  PROVE  DoneInv'
<1>1. ToSet(taken) \subseteq Seqs /\ ToSet(taken') = ToSet(taken) \cup {n}
  BY TakenFacts, TakenAreSeqs
<1>2. /\ entity'[n] > 0
      /\ \A k \in Seqs : Known[k] \in Nat /\ entity'[k] \in Nat
                         /\ entity'[k] >= Known[k]
  BY DoneFacts DEF Messages, Player
<1>3. state = "Online" => \A k \in Seqs : Known[k] = entity[k]
  BY DEF Known
<1> QED BY <1>1, <1>2, <1>3 DEF DoneInv, TakenIsDone, IsOnline

LEMMA DoneStep ==
  ASSUME RequestsInv, DoneInv, [RequestsNext]_requestVars
  PROVE  DoneInv'
<1>0. /\ RequestsTypeOK /\ RecentInv /\ taken \in Seq(Seqs)
      /\ answers \in [Seqs -> SUBSET {"ok", "duplicate", "failed"}]
      /\ panics \in Nat /\ crashes \in Nat
  BY DEF RequestsInv, RequestsTypeOK
<1>1. ASSUME NEW m \in Messages
      PROVE  /\ Forward(m) => DoneInv'
             /\ Panic(m) => DoneInv'
  <2>1. Forward(m) => DoneInv'
    BY <1>0, SameAnswersKeep DEF Forward
  <2>2. Panic(m) => DoneInv'
    BY <1>0 DEF Panic, DoneInv
  <2> QED BY <2>1, <2>2
<1>2. ASSUME Start PROVE DoneInv'
  <2>1. CASE LoadFails
    BY <1>2, <2>1 DEF Start, Receives, TakeNone, LoadFails, DoneInv, TakenIsDone
  <2>2. CASE IsOnline /\ entity' = Known
    BY <1>0, <1>2, <2>2, LoadKeepsDone DEF Start, Receives, TakeNone
  <2> QED BY <1>2, <2>1, <2>2 DEF Start
<1>3. ASSUME HandlePush PROVE DoneInv'
  <2>1. CASE LoadFails
    BY <1>3, <2>1 DEF HandlePush, Receives, TakeNone, LoadFails, DoneInv, TakenIsDone
  <2>2. CASE IsOnline /\ entity' = Done(Push)
    BY <1>0, <1>3, <2>2, LoadKeepsDone DEF HandlePush, Receives, TakeNone
  <2> QED BY <1>3, <2>1, <2>2 DEF HandlePush
<1>4. ASSUME NEW n \in Seqs, Refuse(n) PROVE DoneInv'
  <2>1. n \in ToSet(taken)
    BY <1>0, <1>4, SeenIsTaken DEF Refuse
  <2>2. \A k \in Seqs :
          /\ "failed" \in answers'[k] <=> "failed" \in answers[k]
          /\ "duplicate" \in answers'[k] => "duplicate" \in answers[k] \/ k = n
    BY <1>0, <1>4 DEF Refuse, Respond
  <2>3. ToSet(taken) \subseteq Seqs
    BY <1>0, TakenAreSeqs
  <2> QED BY <1>4, <2>1, <2>2, <2>3 DEF Refuse, Receives, DoneInv, TakenIsDone
<1>5. ASSUME NEW n \in Seqs, Handle(n) PROVE DoneInv'
  <2>1. \A k \in Seqs :
          /\ "failed" \in answers'[k] <=> "failed" \in answers[k]
          /\ "duplicate" \in answers'[k] <=> "duplicate" \in answers[k]
    BY <1>0, <1>5 DEF Handle, Respond
  <2> QED BY <1>0, <1>5, <2>1, TakeKeepsDone DEF Handle, Receives
<1>6. ASSUME NEW n \in Seqs, HandleSync(n) PROVE DoneInv'
  BY <1>0, <1>6, TakeKeepsDone DEF HandleSync, Receives
<1>7. ASSUME NEW n \in Seqs, NotLoaded(n) PROVE DoneInv'
  <2>1. /\ "failed" \in answers'[n]
        /\ \A k \in Seqs :
             /\ "failed" \in answers[k] => "failed" \in answers'[k]
             /\ "duplicate" \in answers'[k] => "duplicate" \in answers[k]
    BY <1>0, <1>7 DEF NotLoaded, Respond
  <2>2. ToSet(taken) \subseteq Seqs /\ ToSet(taken') = ToSet(taken) \cup {n}
    BY <1>0, <1>7, TakenFacts, TakenAreSeqs DEF NotLoaded
  <2>3. state # "Online" /\ UNCHANGED <<panics, crashes>>
    BY <1>7 DEF NotLoaded, Receives, LoadFails
  <2> QED BY <2>1, <2>2, <2>3 DEF DoneInv, TakenIsDone
<1>8. ASSUME Flushed PROVE DoneInv'
  <2>1. flushing \in Seqs
    BY <1>8 DEF Flushed, RequestsInv, RequestsTypeOK
  <2>2. \A k \in Seqs :
          /\ "failed" \in answers'[k] <=> "failed" \in answers[k]
          /\ "duplicate" \in answers'[k] <=> "duplicate" \in answers[k]
    BY <1>0, <1>8, <2>1 DEF Flushed, Respond
  <2> QED BY <1>0, <1>8, <2>2, SameAnswersKeep DEF Flushed
<1>9. ASSUME Tick \/ WriterStep PROVE DoneInv'
  BY <1>0, <1>9, SameAnswersKeep
     DEF Tick, WriterStep, TakePending, Apply, Saved, SaveFails
<1>10. ASSUME NEW w \in leaked, LeakedSave(w) \/ LeakedSkip(w)
       PROVE  DoneInv'
  BY <1>0, <1>10, SameAnswersKeep DEF LeakedSave, LeakedSkip
<1>11. ASSUME RequestsCrash PROVE DoneInv'
  BY <1>0, <1>11 DEF RequestsCrash, DoneInv
<1>12. CASE UNCHANGED requestVars
  BY <1>0, <1>12, SameAnswersKeep
<1> QED BY <1>1, <1>2, <1>3, <1>4, <1>5, <1>6, <1>7, <1>8, <1>9, <1>10, <1>11,
           <1>12 DEF RequestsNext, ActorStep

\* A step that leaves the player and what is saved of it alone; answers are
\* none that promise anything.
LEMMA SameSavesKeep ==
  ASSUME StoredInv, UNCHANGED <<saving, queued, document, overwritten, flushing>>,
         \A n \in Seqs : "ok" \in answers'[n] <=> "ok" \in answers[n],
         \/ UNCHANGED <<state, entity>>
         \/ state # "Online" /\ state' # "Online"
  PROVE  StoredInv'
<1>1. OfflineIsIdle'
  BY DEF StoredInv, OfflineIsIdle
<1>2. ASSUME ~overwritten PROVE OkIsHeld'
  BY <1>2, RequestsAssumption DEF StoredInv, OkIsHeld, Holds
<1>3. ASSUME ~overwritten PROVE FlushIsUnderWay'
  BY <1>3 DEF StoredInv, FlushIsUnderWay
<1> QED BY <1>1, <1>2, <1>3 DEF StoredInv

\* The player in memory never has less than what is known of it.
LEMMA GrowKeepsStored ==
  ASSUME RequestsTypeOK, StoredInv, NEW m \in Messages, IsOnline,
         entity' \in {Known, Done(m)}, flushing = None, flushing' = None,
         UNCHANGED <<saving, queued, document, overwritten>>,
         \A n \in Synced : "ok" \in answers'[n] <=> "ok" \in answers[n]
  PROVE  StoredInv'
<1>1. \A k \in Seqs : Known[k] \in Nat /\ entity'[k] \in Nat /\ entity'[k] >= Known[k]
  BY DoneFacts DEF Messages, Player
<1>2. OfflineIsIdle' /\ FlushIsUnderWay'
  BY DEF OfflineIsIdle, FlushIsUnderWay, IsOnline
<1>3. ASSUME ~overwritten PROVE OkIsHeld'
  <2> SUFFICES ASSUME NEW n \in Synced, "ok" \in answers'[n]
               PROVE  Holds(n)'
    BY DEF OkIsHeld
  <2>1. Holds(n) /\ n \in Seqs
    BY <1>3, RequestsAssumption DEF StoredInv, OkIsHeld
  <2>2. Known[n] > 0
    BY <2>1 DEF Holds, Known
  <2>3. entity'[n] > 0
    BY <1>1, <2>1, <2>2
  <2> QED BY <2>1, <2>3 DEF Holds
<1> QED BY <1>2, <1>3 DEF StoredInv

\* A request that waits for its snapshot.
LEMMA SyncKeepsStored ==
  ASSUME RequestsTypeOK, StoredInv, NEW n \in Seqs, HandleSync(n)
  PROVE  StoredInv'
<1>1. /\ \A k \in Seqs : Known[k] \in Nat /\ entity'[k] \in Nat
                         /\ entity'[k] >= Known[k]
      /\ entity'[n] > 0 /\ entity' # None
      /\ queued' = entity' /\ state' = "Online" /\ flushing' = n
      /\ UNCHANGED <<saving, document, overwritten, answers>>
  BY DoneFacts DEF Messages, Player, HandleSync, IsOnline, Receives
<1>2. OfflineIsIdle' /\ FlushIsUnderWay'
  BY <1>1 DEF OfflineIsIdle, FlushIsUnderWay
<1>3. ASSUME ~overwritten PROVE OkIsHeld'
  <2> SUFFICES ASSUME NEW k \in Synced, "ok" \in answers[k]
               PROVE  Holds(k)'
    BY <1>1 DEF OkIsHeld
  <2>1. Holds(k) /\ k \in Seqs
    BY <1>3, RequestsAssumption DEF StoredInv, OkIsHeld
  <2>2. Known[k] > 0
    BY <2>1 DEF Holds, Known
  <2>3. entity'[k] > 0
    BY <1>1, <2>1, <2>2
  <2> QED BY <1>1, <2>1, <2>3 DEF Holds
<1> QED BY <1>1, <1>2, <1>3 DEF StoredInv

\* FlushSync returns when nothing is left to save: what it answers is true.
LEMMA FlushedKeepsStored ==
  ASSUME RequestsTypeOK, StoredInv, Flushed
  PROVE  StoredInv'
<1>1. /\ flushing # None /\ saving = None /\ queued = None /\ flushing' = None
      /\ flushing \in Seqs
      /\ UNCHANGED <<state, entity, saving, queued, document, overwritten>>
  BY DEF Flushed, RequestsTypeOK
<1>2. \A k \in Seqs :
        "ok" \in answers'[k] => "ok" \in answers[k] \/ k = flushing
  BY <1>1 DEF Flushed, Respond, RequestsTypeOK
<1>3. OfflineIsIdle' /\ FlushIsUnderWay'
  BY <1>1 DEF OfflineIsIdle, FlushIsUnderWay
<1>4. ASSUME ~overwritten PROVE OkIsHeld'
  <2> SUFFICES ASSUME NEW k \in Synced, "ok" \in answers'[k]
               PROVE  Holds(k)
    BY <1>1 DEF OkIsHeld, Holds
  <2>1. CASE k = flushing
    BY <1>1, <1>4, <2>1 DEF StoredInv, FlushIsUnderWay, Holds
  <2>2. CASE k # flushing
    BY <1>2, <1>4, <2>2, RequestsAssumption DEF StoredInv, OkIsHeld
  <2> QED BY <2>1, <2>2
<1> QED BY <1>1, <1>3, <1>4 DEF StoredInv

\* The tick queues the player as it is.
LEMMA TickKeepsStored ==
  ASSUME StoredInv, Tick
  PROVE  StoredInv'
<1>1. /\ state = "Online" /\ flushing = None /\ queued' = entity
      /\ UNCHANGED <<state, entity, saving, document, overwritten, flushing, answers>>
  BY DEF Tick
<1>2. OfflineIsIdle' /\ FlushIsUnderWay'
  BY <1>1 DEF OfflineIsIdle, FlushIsUnderWay
<1>3. ASSUME ~overwritten PROVE OkIsHeld'
  BY <1>1, <1>3 DEF StoredInv, OkIsHeld, Holds
<1> QED BY <1>1, <1>2, <1>3 DEF StoredInv

\* The writer: a save that fails is not given up for anything older.
LEMMA WriterKeepsStored ==
  ASSUME StoredInv, WriterStep
  PROVE  StoredInv'
<1>0. UNCHANGED <<state, entity, flushing, overwritten, answers>>
  BY DEF WriterStep, TakePending, Apply, Saved, SaveFails
<1>1. CASE TakePending
  BY <1>0, <1>1 DEF TakePending, StoredInv, OfflineIsIdle, OkIsHeld, Holds,
                    FlushIsUnderWay
<1>2. CASE Apply
  BY <1>0, <1>2 DEF Apply, StoredInv, OfflineIsIdle, OkIsHeld, Holds,
                    FlushIsUnderWay
<1>3. CASE Saved
  BY <1>0, <1>3 DEF Saved, StoredInv, OfflineIsIdle, OkIsHeld, Holds,
                    FlushIsUnderWay
<1>4. CASE SaveFails
  BY <1>0, <1>4 DEF SaveFails, StoredInv, OfflineIsIdle, OkIsHeld, Holds,
                    FlushIsUnderWay
<1> QED BY <1>1, <1>2, <1>3, <1>4 DEF WriterStep

\* A new actor: all there is of its player is the document.
LEMMA RenewedKeepsStored ==
  ASSUME StoredInv, Renewed, UNCHANGED <<document, overwritten, answers>>
  PROVE  StoredInv'
<1>1. OfflineIsIdle' /\ FlushIsUnderWay'
  BY DEF Renewed, OfflineIsIdle, FlushIsUnderWay
<1>2. ASSUME ~overwritten PROVE OkIsHeld'
  BY <1>2 DEF Renewed, StoredInv, OkIsHeld, Holds
<1> QED BY <1>1, <1>2 DEF StoredInv

LEMMA StoredStep ==
  ASSUME RequestsInv, StoredInv, [RequestsNext]_requestVars
  PROVE  StoredInv'
<1>0. /\ RequestsTypeOK /\ Push \in Messages
      /\ answers \in [Seqs -> SUBSET {"ok", "duplicate", "failed"}]
  BY DEF RequestsInv, RequestsTypeOK, Messages
<1>1. ASSUME NEW m \in Messages
      PROVE  /\ Forward(m) => StoredInv'
             /\ Panic(m) => StoredInv'
  BY SameSavesKeep, RenewedKeepsStored DEF Forward, Panic
<1>2. ASSUME Start PROVE StoredInv'
  <2>1. CASE LoadFails
    BY <1>2, <2>1, SameSavesKeep DEF Start, Receives, LoadFails
  <2>2. CASE IsOnline /\ entity' = Known /\ UNCHANGED <<dirty, flushing, cache>>
    BY <1>0, <1>2, <2>2, GrowKeepsStored DEF Start, Receives
  <2> QED BY <1>2, <2>1, <2>2 DEF Start
<1>3. ASSUME HandlePush PROVE StoredInv'
  <2>1. CASE LoadFails
    BY <1>3, <2>1, SameSavesKeep DEF HandlePush, Receives, LoadFails
  <2>2. CASE /\ IsOnline /\ entity' = Done(Push)
             /\ UNCHANGED <<flushing, cache>>
    BY <1>0, <1>3, <2>2, GrowKeepsStored DEF HandlePush, Receives
  <2> QED BY <1>3, <2>1, <2>2 DEF HandlePush
<1>4. ASSUME NEW n \in Seqs, Refuse(n) PROVE StoredInv'
  <2>1. \A k \in Seqs : "ok" \in answers'[k] <=> "ok" \in answers[k]
    BY <1>0, <1>4 DEF Refuse, Respond
  <2> QED BY <1>4, <2>1, SameSavesKeep DEF Refuse, Receives
<1>5. ASSUME NEW n \in Seqs, Handle(n) PROVE StoredInv'
  <2>1. \A k \in Synced : "ok" \in answers'[k] <=> "ok" \in answers[k]
    BY <1>0, <1>5, RequestsAssumption DEF Handle, Respond
  <2>2. n \in Messages
    BY DEF Messages
  <2> QED BY <1>0, <1>5, <2>1, <2>2, GrowKeepsStored DEF Handle, Receives
<1>6. ASSUME NEW n \in Seqs, HandleSync(n) PROVE StoredInv'
  BY <1>0, <1>6, SyncKeepsStored
<1>7. ASSUME NEW n \in Seqs, NotLoaded(n) PROVE StoredInv'
  <2>1. \A k \in Seqs : "ok" \in answers'[k] <=> "ok" \in answers[k]
    BY <1>0, <1>7 DEF NotLoaded, Respond
  <2> QED BY <1>7, <2>1, SameSavesKeep DEF NotLoaded, Receives, LoadFails
<1>8. ASSUME Flushed PROVE StoredInv'
  BY <1>0, <1>8, FlushedKeepsStored
<1>9. ASSUME Tick \/ WriterStep PROVE StoredInv'
  BY <1>9, TickKeepsStored, WriterKeepsStored
<1>10. ASSUME NEW w \in leaked, LeakedSave(w) PROVE StoredInv'
  BY <1>10 DEF LeakedSave, StoredInv, OfflineIsIdle
<1>11. ASSUME NEW w \in leaked, LeakedSkip(w) PROVE StoredInv'
  BY <1>11, SameSavesKeep DEF LeakedSkip
<1>12. ASSUME RequestsCrash PROVE StoredInv'
  BY <1>12, RenewedKeepsStored DEF RequestsCrash
<1>13. CASE UNCHANGED requestVars
  BY <1>13, SameSavesKeep
<1> QED BY <1>1, <1>2, <1>3, <1>4, <1>5, <1>6, <1>7, <1>8, <1>9, <1>10, <1>11,
           <1>12, <1>13 DEF RequestsNext, ActorStep

LEMMA ToldStart ==
  ASSUME RequestsInit
  PROVE  ToldInv
<1>1. DOMAIN taken = {} /\ \A n \in Seqs : answers[n] = {}
  BY DEF RequestsInit
<1>2. DoneInv
  BY <1>1 DEF DoneInv, TakenIsDone, ToSet
<1>3. StoredInv
  BY <1>1, RequestsAssumption
     DEF RequestsInit, StoredInv, OfflineIsIdle, OkIsHeld, FlushIsUnderWay
<1> QED BY <1>2, <1>3 DEF ToldInv

LEMMA ToldSafe == RequestsSpec => []ToldInv
<1>1. RequestsInit => ToldInv
  BY ToldStart
<1>2. RequestsInv /\ ToldInv /\ [RequestsNext]_requestVars => ToldInv'
  BY DoneStep, StoredStep DEF ToldInv
<1> QED BY <1>1, <1>2, RequestsSafe, PTL DEF RequestsSpec

\* Without a panic or a crash, "duplicate" means that the request has been
\* carried out, unless the client was told that its player could not be
\* loaded: a number is taken before the load that may fail.
THEOREM DuplicatesHaveBeenDone == RequestsSpec => []DuplicatesAreDone
<1>1. ToldInv => DuplicatesAreDone
  BY DEF ToldInv, DoneInv, TakenIsDone, DuplicatesAreDone
<1> QED BY <1>1, ToldSafe, PTL

\* A request that is stored before it is answered stays stored: whatever
\* panics or crashes, the document has it until a writer that was left behind
\* saves an older player over it.
THEOREM SyncedStaysStored == RequestsSpec => []SyncedIsKept
<1>1. ToldInv => SyncedIsKept
  BY DEF ToldInv, StoredInv, OkIsHeld, Holds, SyncedIsKept
<1> QED BY <1>1, ToldSafe, PTL

-----------------------------------------------------------------------------
(* The player and its document as durable cells.                           *)

\* Of every message the document has no more than the snapshot that is being
\* saved, that no more than the one behind it, and neither more than the
\* player.
InOrder(m) ==
  /\ document[m] <= Known[m]
  /\ saving # None => document[m] <= saving[m] /\ saving[m] <= Known[m]
  /\ queued # None => document[m] <= queued[m] /\ queued[m] <= Known[m]
  /\ saving # None /\ queued # None => saving[m] <= queued[m]

NeverBack == ~overwritten => \A m \in Messages : InOrder(m)

CellStep(m) == [Cell(m)!CellNext]_(Cell(m)!cellVars)

LEMMA CountsAreNat ==
  ASSUME RequestsTypeOK, NEW m \in Messages
  PROVE  /\ Known[m] \in Nat /\ document[m] \in Nat
         /\ saving # None => saving[m] \in Nat
         /\ queued # None => queued[m] \in Nat
BY KnownIsPlayer DEF RequestsTypeOK, Player

\* The steps of a cell.
LEMMA CellRests ==
  ASSUME NEW m, UNCHANGED <<Known[m], document[m], Told(m)>>
  PROVE  CellStep(m)
BY DEF CellStep, Cell!cellVars

LEMMA CellEdited ==
  ASSUME NEW m, Known[m] \in Nat, Known'[m] \in Nat, Known'[m] >= Known[m],
         UNCHANGED <<document[m], Told(m)>>
  PROVE  CellStep(m)
<1>1. CASE Known'[m] = Known[m]
  BY <1>1, CellRests
<1>2. CASE Known'[m] > Known[m]
  BY <1>2 DEF CellStep, Cell!CellNext, Cell!EditValue
<1> QED BY <1>1, <1>2

LEMMA CellPersisted ==
  ASSUME NEW m, document[m] \in Nat, document'[m] \in Nat,
         document[m] <= document'[m], document'[m] <= Known[m],
         UNCHANGED <<Known[m], Told(m)>>
  PROVE  CellStep(m)
<1>1. CASE document'[m] = document[m]
  BY <1>1, CellRests
<1>2. CASE document'[m] > document[m]
  BY <1>2 DEF CellStep, Cell!CellNext, Cell!Persist
<1> QED BY <1>1, <1>2

LEMMA CellReloaded ==
  ASSUME NEW m, Known' = document, UNCHANGED <<document[m], Told(m)>>
  PROVE  CellStep(m)
BY DEF CellStep, Cell!CellNext, Cell!Reload

\* What is told of a message changes only when a flush is over.
LEMMA ToldStays ==
  ASSUME NEW m, \A n \in Synced : "ok" \in answers'[n] <=> "ok" \in answers[n]
  PROVE  UNCHANGED Told(m)
BY DEF Told

\* A step that leaves the player, its snapshots and its document alone.
LEMMA QuietCell ==
  ASSUME NeverBack, ~overwritten, NEW m \in Messages,
         \A n \in Synced : "ok" \in answers'[n] <=> "ok" \in answers[n],
         UNCHANGED <<saving, queued, document, Known>>
  PROVE  InOrder(m)' /\ CellStep(m)
BY ToldStays, CellRests DEF NeverBack, InOrder

\* A message that is carried out.
LEMMA EditCell ==
  ASSUME RequestsTypeOK, NeverBack, ~overwritten, NEW m \in Messages,
         NEW k \in Messages, IsOnline, entity' = Done(k),
         queued' = queued \/ queued' = entity',
         \A n \in Synced : "ok" \in answers'[n] <=> "ok" \in answers[n],
         UNCHANGED <<saving, document>>
  PROVE  InOrder(m)' /\ CellStep(m)
<1>1. Known' = Done(k)
  BY DEF Known, IsOnline
<1>2. Known[m] \in Nat /\ Done(k)[m] \in Nat /\ Done(k)[m] >= Known[m]
  BY DoneFacts DEF Player
<1>3. UNCHANGED Told(m)
  BY ToldStays
<1>4. CellStep(m)
  BY <1>1, <1>2, <1>3, CellEdited
<1>5. /\ InOrder(m) /\ document[m] \in Nat
      /\ saving # None => saving[m] \in Nat
      /\ queued # None => queued[m] \in Nat
  BY CountsAreNat DEF NeverBack
<1>6. InOrder(m)'
  <2>1. document'[m] <= Known'[m]
    BY <1>1, <1>2, <1>5 DEF InOrder
  <2>2. saving' # None => document'[m] <= saving'[m] /\ saving'[m] <= Known'[m]
    BY <1>1, <1>2, <1>5 DEF InOrder
  <2>3. queued' # None => document'[m] <= queued'[m] /\ queued'[m] <= Known'[m]
    BY <1>1, <1>2, <1>5, <2>1 DEF InOrder
  <2>4. saving' # None /\ queued' # None => saving'[m] <= queued'[m]
    BY <1>1, <1>2, <1>5, <2>2 DEF InOrder
  <2> QED BY <2>1, <2>2, <2>3, <2>4 DEF InOrder
<1> QED BY <1>4, <1>6

\* The tick queues the player as it is.
LEMMA TickCell ==
  ASSUME RequestsTypeOK, NeverBack, ~overwritten, NEW m \in Messages, Tick
  PROVE  InOrder(m)' /\ CellStep(m)
<1>1. /\ queued' = Known /\ UNCHANGED <<Known, saving, document, answers>>
      /\ InOrder(m) /\ Known[m] \in Nat
  BY CountsAreNat DEF Tick, Known, NeverBack
<1>2. CellStep(m)
  BY <1>1, ToldStays, CellRests
<1> QED BY <1>1, <1>2 DEF InOrder

\* The writer moves the document forward and no further than the player.
LEMMA WriterCell ==
  ASSUME RequestsTypeOK, StoredInv, NeverBack, ~overwritten, NEW m \in Messages,
         WriterStep
  PROVE  InOrder(m)' /\ CellStep(m)
<1>1. /\ UNCHANGED <<Known, answers, state, entity>>
      /\ document' = document \/ (saving # None /\ document' = saving)
  <2>1. UNCHANGED <<answers, state, entity>>
    BY DEF WriterStep, TakePending, Apply, Saved, SaveFails
  <2>2. document' = document \/ (saving # None /\ document' = saving)
    BY DEF WriterStep, TakePending, Apply, Saved, SaveFails
  <2>3. state = "Online" => Known' = Known
    BY <2>1 DEF Known
  <2>4. state # "Online" => saving = None /\ Known' = Known
    BY <2>1, <2>2 DEF StoredInv, OfflineIsIdle, Known
  <2> QED BY <2>1, <2>2, <2>3, <2>4
<1>2. /\ InOrder(m) /\ Known[m] \in Nat /\ document[m] \in Nat
      /\ saving # None => saving[m] \in Nat
      /\ queued # None => queued[m] \in Nat
  BY CountsAreNat DEF NeverBack
<1>3. UNCHANGED Told(m)
  BY <1>1, ToldStays
<1>4. CellStep(m)
  BY <1>1, <1>2, <1>3, CellPersisted DEF InOrder
<1>5. InOrder(m)'
  <2>1. CASE TakePending
    BY <1>1, <1>2, <2>1 DEF TakePending, InOrder
  <2>2. CASE Apply
    BY <1>1, <1>2, <2>2 DEF Apply, InOrder
  <2>3. CASE Saved
    BY <1>1, <1>2, <2>3 DEF Saved, InOrder
  <2>4. CASE SaveFails
    BY <1>1, <1>2, <2>4 DEF SaveFails, InOrder
  <2> QED BY <2>1, <2>2, <2>3, <2>4 DEF WriterStep
<1> QED BY <1>4, <1>5

\* FlushSync promises what the document holds.
LEMMA FlushedCell ==
  ASSUME RequestsTypeOK, StoredInv, NeverBack, ~overwritten, NEW m \in Messages,
         Flushed
  PROVE  InOrder(m)' /\ CellStep(m)
<1>1. /\ UNCHANGED <<Known, saving, queued, document>>
      /\ flushing \in Seqs /\ document[flushing] > 0
      /\ saving = None /\ queued = None
  BY DEF Flushed, Known, StoredInv, FlushIsUnderWay, RequestsTypeOK
<1>2. InOrder(m)'
  BY <1>1 DEF InOrder, NeverBack
<1>3. \A n \in Seqs :
        "ok" \in answers'[n] <=> "ok" \in answers[n] \/ n = flushing
  BY <1>1 DEF Flushed, Respond, RequestsTypeOK
<1>4. CASE m # flushing
  <2>1. UNCHANGED Told(m)
    BY <1>3, <1>4, RequestsAssumption DEF Told
  <2> QED BY <1>1, <1>2, <2>1, CellRests
<1>5. CASE m = flushing
  <2>1. document[m] \in Nat /\ document[m] >= 1
    BY <1>1, <1>5, CountsAreNat
  <2>2. CASE Told(m) = Told(m)'
    BY <1>1, <1>2, <2>2, CellRests
  <2>3. CASE Told(m) # Told(m)'
    <3>1. Told(m) = 0 /\ Told(m)' = 1
      BY <1>3, <2>3, RequestsAssumption DEF Told
    <3>2. Cell(m)!Promise
      BY <1>1, <2>1, <3>1 DEF Cell!Promise
    <3> QED BY <1>2, <3>2 DEF CellStep, Cell!CellNext
  <2> QED BY <2>2, <2>3
<1> QED BY <1>4, <1>5

\* A new actor has the player that the document is.
LEMMA RenewedCell ==
  ASSUME RequestsTypeOK, NEW m \in Messages, Renewed,
         UNCHANGED <<document, answers>>
  PROVE  InOrder(m)' /\ CellStep(m)
<1>1. Known' = document /\ saving' = None /\ queued' = None /\ document[m] \in Nat
  BY CountsAreNat DEF Renewed, Known
<1>2. CellStep(m)
  BY <1>1, ToldStays, CellReloaded
<1> QED BY <1>1, <1>2 DEF InOrder

LEMMA CellsStep ==
  ASSUME RequestsTypeOK, StoredInv, NeverBack, [RequestsNext]_requestVars,
         ~overwritten', NEW m \in Messages
  PROVE  InOrder(m)' /\ CellStep(m)
<1>0. /\ ~overwritten
      /\ answers \in [Seqs -> SUBSET {"ok", "duplicate", "failed"}]
      /\ Synced \subseteq Seqs /\ Seqs \subseteq Messages /\ Push \in Messages
  <2>1. overwritten => overwritten'
    BY DEF RequestsNext, ActorStep, WriterStep, Forward, Panic, Start, HandlePush,
           Refuse, NotLoaded, Handle, HandleSync, Receives, Flushed, Tick,
           TakePending, Apply, Saved, SaveFails, LeakedSave, LeakedSkip,
           RequestsCrash
  <2> QED BY <2>1, RequestsAssumption DEF RequestsTypeOK, Messages
<1> DEFINE Goal == InOrder(m)' /\ CellStep(m)
<1>1. ASSUME NEW k \in Messages, Forward(k) PROVE Goal
  BY <1>0, <1>1, QuietCell DEF Forward, Known
<1>2. ASSUME NEW k \in Messages, Panic(k) PROVE Goal
  BY <1>2, RenewedCell DEF Panic
<1>3. ASSUME Start PROVE Goal
  <2>1. Known' = Known
    BY <1>3 DEF Start, LoadFails, IsOnline, Receives, Known
  <2>2. UNCHANGED <<saving, queued, document, answers>>
    BY <1>3 DEF Start, LoadFails, Receives
  <2> QED BY <1>0, <2>1, <2>2, QuietCell
<1>4. ASSUME HandlePush PROVE Goal
  <2>1. CASE LoadFails
    BY <1>0, <1>4, <2>1, QuietCell DEF HandlePush, Receives, LoadFails, Known
  <2>2. CASE IsOnline /\ entity' = Done(Push) /\ UNCHANGED cache
    BY <1>0, <1>4, <2>2, EditCell DEF HandlePush, Receives
  <2> QED BY <1>4, <2>1, <2>2 DEF HandlePush
<1>5. ASSUME NEW n \in Seqs, Refuse(n) PROVE Goal
  <2>1. \A k \in Synced : "ok" \in answers'[k] <=> "ok" \in answers[k]
    BY <1>0, <1>5 DEF Refuse, Respond
  <2>2. UNCHANGED <<state, entity, saving, queued, document>>
    BY <1>5 DEF Refuse, Receives
  <2> QED BY <1>0, <2>1, <2>2, QuietCell DEF Known
<1>6. ASSUME NEW n \in Seqs, NotLoaded(n) PROVE Goal
  <2>1. \A k \in Synced : "ok" \in answers'[k] <=> "ok" \in answers[k]
    BY <1>0, <1>6 DEF NotLoaded, Respond
  <2>2. UNCHANGED <<Known, saving, queued, document>>
    BY <1>6 DEF NotLoaded, LoadFails, Receives, Known
  <2> QED BY <1>0, <2>1, <2>2, QuietCell
<1>7. ASSUME NEW n \in Seqs, Handle(n) PROVE Goal
  <2>1. \A k \in Synced : "ok" \in answers'[k] <=> "ok" \in answers[k]
    BY <1>0, <1>7 DEF Handle, Respond
  <2>2. IsOnline /\ entity' = Done(n) /\ UNCHANGED <<saving, queued, document>>
    BY <1>7 DEF Handle, Receives
  <2> QED BY <1>0, <2>1, <2>2, EditCell
<1>8. ASSUME NEW n \in Seqs, HandleSync(n) PROVE Goal
  <2>1. /\ IsOnline /\ entity' = Done(n) /\ queued' = entity'
        /\ UNCHANGED <<saving, document, answers>>
    BY <1>8 DEF HandleSync, Receives
  <2> QED BY <1>0, <2>1, EditCell
<1>9. ASSUME Flushed \/ Tick \/ WriterStep PROVE Goal
  BY <1>0, <1>9, FlushedCell, TickCell, WriterCell
<1>10. ASSUME NEW w \in leaked, LeakedSave(w) PROVE Goal
  BY <1>10 DEF LeakedSave
<1>11. ASSUME NEW w \in leaked, LeakedSkip(w) PROVE Goal
  BY <1>0, <1>11, QuietCell DEF LeakedSkip, Known
<1>12. ASSUME RequestsCrash PROVE Goal
  BY <1>12, RenewedCell DEF RequestsCrash
<1>13. CASE UNCHANGED requestVars
  BY <1>0, <1>13, QuietCell DEF Known
<1> QED BY <1>1, <1>2, <1>3, <1>4, <1>5, <1>6, <1>7, <1>8, <1>9, <1>10, <1>11,
           <1>12, <1>13 DEF RequestsNext, ActorStep

LEMMA CellsStart ==
  ASSUME RequestsInit
  PROVE  NeverBack /\ \A m \in Messages : Cell(m)!CellInit
<1>1. Known = document /\ \A m \in Messages : document[m] = 0
  BY DEF RequestsInit, Known, NobodyYet
<1>2. \A m : Told(m) = 0
  BY RequestsAssumption DEF RequestsInit, Told
<1> QED BY <1>1, <1>2 DEF RequestsInit, NeverBack, InOrder, Cell!CellInit

\* Message by message, what loads, snapshots, failed saves, flushes, panics and
\* crashes make of a player and its document is a step of the durable cell that
\* the cache implements, until a writer that was left behind saves something:
\* the cache as PlayerRequests has it keeps the promise that WriteBehind keeps.
THEOREM CellsAreKept == RequestsSpec => ActorKeepsCells
<1>1. RequestsInit => NeverBack /\ \A m \in Messages : Cell(m)!CellInit
  BY CellsStart
<1>2. RequestsInv /\ ToldInv /\ NeverBack /\ [RequestsNext]_requestVars => NeverBack'
  BY CellsStep DEF RequestsInv, ToldInv, NeverBack
<1>3. RequestsInv /\ ToldInv /\ NeverBack /\ [RequestsNext]_requestVars
        => [overwritten' \/ \A m \in Messages :
                              [Cell(m)!CellNext]_(Cell(m)!cellVars)]_requestVars
  BY CellsStep DEF RequestsInv, ToldInv, CellStep
<1> QED BY <1>1, <1>2, <1>3, RequestsSafe, ToldSafe, PTL
        DEF RequestsSpec, ActorKeepsCells
=============================================================================
