------------------------- MODULE GateSession_proofs ------------------------
(***************************************************************************)
(* Proofs about GateSession, for any connections, users and channel size:  *)
(* an open connection is the connection of its user, and every binding has *)
(* its watcher.                                                            *)
(***************************************************************************)
EXTENDS GateSession, TLAPS

\* Who holds the lock is a reader that kicks, who binds knows the user, and
\* who kicks is watched already.
LockIsKicking ==
  \A c \in Conn :
    /\ reader[c] = "kick" <=> lock = c
    /\ reader[c] \in {"bind", "kick"} => asked[c] \in Uid
    /\ reader[c] = "kick" => Old(c) \in Conn \ {c} /\ c \in watched

\* A watched connection has one watcher and another one has none.
OneWatcher ==
  \A c \in Conn : watchers[c] = IF c \in watched THEN 1 ELSE 0

GateInv ==
  /\ GateTypeOK
  /\ LockIsKicking
  /\ OneWatcher
  /\ BindingIsWatched
  /\ OpenIsCurrent

USE DEF gateVars, sessVars, connVars, countVars, Goto

-----------------------------------------------------------------------------
(* Steps that leave the maps, the lock and the watchers alone.             *)

\* Such a step keeps what the maps promise, if no reader begins to bind
\* without a user or leaves the lock behind, and nothing is opened again.
LEMMA QuietStep ==
  ASSUME GateInv, GateTypeOK', UNCHANGED sessVars,
         \A c \in Conn : open'[c] => open[c],
         \A c \in Conn : (reader'[c] = "kick") <=> (reader[c] = "kick"),
         \A c \in Conn : reader'[c] \in {"bind", "kick"} =>
           \/ asked'[c] \in Uid /\ reader'[c] = "bind"
           \/ reader[c] \in {"bind", "kick"} /\ asked'[c] = asked[c]
  PROVE  GateInv'
<1>1. LockIsKicking'
  BY DEF GateInv, GateTypeOK, LockIsKicking, Old
<1>2. OneWatcher' /\ BindingIsWatched'
  BY DEF GateInv, OneWatcher, BindingIsWatched
<1>3. OpenIsCurrent'
  BY DEF GateInv, OpenIsCurrent
<1> QED BY <1>1, <1>2, <1>3 DEF GateInv

\* Every step keeps the types.
LEMMA GateTypeStep ==
  ASSUME GateInv, [GateNext]_gateVars
  PROVE  GateTypeOK'
<1> USE GateOK DEF GateTypeOK, GateInv
<1>1. ASSUME NEW c \in Conn
      PROVE  /\ Read(c) => GateTypeOK'
             /\ GetUID(c) => GateTypeOK'
             /\ Reply(c) => GateTypeOK'
             /\ ReadFails(c) => GateTypeOK'
             /\ Write(c) => GateTypeOK'
             /\ WriterReturns(c) => GateTypeOK'
  <2>1. ASSUME Read(c) PROVE GateTypeOK'
    BY <2>1 DEF Read
  <2>2. ASSUME GetUID(c) PROVE GateTypeOK'
    BY <2>2 DEF GetUID
  <2>3. ASSUME Reply(c) PROVE GateTypeOK'
    BY <2>3 DEF Reply, Room, Filled
  <2>4. ASSUME ReadFails(c) PROVE GateTypeOK'
    BY <2>4 DEF ReadFails
  <2>5. ASSUME Write(c) PROVE GateTypeOK'
    BY <2>5 DEF Write
  <2>6. ASSUME WriterReturns(c) PROVE GateTypeOK'
    BY <2>6 DEF WriterReturns
  <2> QED BY <2>1, <2>2, <2>3, <2>4, <2>5, <2>6
<1>2. ASSUME NEW c \in Conn
      PROVE  /\ Bind(c) => GateTypeOK'
             /\ BindAndKick(c) => GateTypeOK'
             /\ Kick(c) => GateTypeOK'
             /\ UnbindConn(c) => GateTypeOK'
  <2>1. ASSUME Bind(c) PROVE GateTypeOK'
    BY <2>1 DEF Bind, Watch, Bound, LockIsKicking
  <2>2. ASSUME BindAndKick(c) PROVE GateTypeOK'
    BY <2>2 DEF BindAndKick, Watch
  <2>3. ASSUME Kick(c) PROVE GateTypeOK'
    <3>1. asked[c] \in Uid /\ Old(c) \in Conn
      BY <2>3 DEF Kick, LockIsKicking
    <3> QED BY <2>3, <3>1 DEF Kick, MayTell, Room, Filled, Bound
  <2>4. ASSUME UnbindConn(c) PROVE GateTypeOK'
    BY <2>4 DEF UnbindConn, Forgotten, Unwatched
  <2> QED BY <2>1, <2>2, <2>3, <2>4
<1>3. ASSUME NEW p \in Pusher
      PROVE  (GetConn(p) => GateTypeOK') /\ (Push(p) => GateTypeOK')
  <2>1. ASSUME GetConn(p) PROVE GateTypeOK'
    BY <2>1 DEF GetConn
  <2>2. ASSUME Push(p) PROVE GateTypeOK'
    BY <2>2 DEF Push, Room, Filled
  <2> QED BY <2>1, <2>2
<1>4. CASE UNCHANGED gateVars
  BY <1>4
<1> QED BY <1>1, <1>2, <1>3, <1>4 DEF GateNext, Reader

-----------------------------------------------------------------------------
(* The steps of the session manager.                                       *)

LEMMA BindStep ==
  ASSUME GateInv, GateTypeOK', NEW c \in Conn, Bind(c)
  PROVE  GateInv'
<1> DEFINE u == asked[c]
<1>1. /\ u \in Uid /\ u # Nobody /\ c # Nobody
      /\ Old(c) \in {Nobody, c} /\ lock = Nobody
  BY GateOK DEF Bind, GateInv, LockIsKicking
<1>2. /\ uid2conn' = [uid2conn EXCEPT ![u] = c]
      /\ conn2uid' = [conn2uid EXCEPT ![c] = u]
      /\ reader' = [reader EXCEPT ![c] = "reply"]
      /\ asked' = [asked EXCEPT ![c] = Nobody]
      /\ lock' = lock /\ open' = open
  BY DEF Bind, Bound
<1>3. LockIsKicking'
  <2>1. \A d \in Conn : reader[d] # "kick"
    BY <1>1, GateOK DEF GateInv, LockIsKicking
  <2> QED BY <1>1, <1>2, <2>1, GateOK
          DEF GateInv, GateTypeOK, LockIsKicking
<1>4. OneWatcher'
  BY DEF Bind, Watch, GateInv, GateTypeOK, OneWatcher
<1>5. BindingIsWatched'
  <2>1. watched' = watched \cup {c}
    BY DEF Bind, Watch
  <2>2. \A d \in Conn : conn2uid'[d] # Nobody => d \in watched'
    BY <1>2, <2>1 DEF GateInv, GateTypeOK, BindingIsWatched
  <2> QED BY <1>4, <2>2 DEF OneWatcher, BindingIsWatched
<1>6. OpenIsCurrent'
  <2>1. ASSUME NEW d \in Conn, open'[d], conn2uid'[d] # Nobody
        PROVE  uid2conn'[conn2uid'[d]] = d
    <3>1. CASE d = c
      BY <1>1, <1>2, <3>1 DEF GateInv, GateTypeOK
    <3>2. CASE d # c
      <4>1. /\ conn2uid'[d] = conn2uid[d] /\ conn2uid[d] \in Uid
            /\ uid2conn[conn2uid[d]] = d
        BY <1>2, <2>1, <3>2 DEF GateInv, GateTypeOK, OpenIsCurrent
      <4>2. conn2uid[d] # u
        BY <1>1, <3>2, <4>1, GateOK DEF Old
      <4> QED BY <1>2, <4>1, <4>2 DEF GateInv, GateTypeOK
    <3> QED BY <3>1, <3>2
  <2> QED BY <2>1 DEF OpenIsCurrent
<1> QED BY <1>3, <1>4, <1>5, <1>6 DEF GateInv

LEMMA BindAndKickStep ==
  ASSUME GateInv, GateTypeOK', NEW c \in Conn, BindAndKick(c)
  PROVE  GateInv'
<1>1. /\ asked[c] \in Uid /\ c # Nobody
      /\ Old(c) \notin {Nobody, c} /\ lock = Nobody
  BY GateOK DEF BindAndKick, GateInv, LockIsKicking
<1>2. /\ reader' = [reader EXCEPT ![c] = "kick"] /\ lock' = c
      /\ UNCHANGED <<uid2conn, conn2uid, open, asked>>
  BY DEF BindAndKick
<1>3. LockIsKicking'
  <2>1. \A d \in Conn : reader[d] # "kick"
    BY <1>1, GateOK DEF GateInv, LockIsKicking
  <2>2. Old(c) \in Conn \ {c}
    BY <1>1 DEF Old, GateInv, GateTypeOK
  <2>3. watched' = watched \cup {c}
    BY DEF BindAndKick, Watch
  <2> QED BY <1>1, <1>2, <2>1, <2>2, <2>3
          DEF GateInv, GateTypeOK, LockIsKicking, Old
<1>4. OneWatcher'
  BY DEF BindAndKick, Watch, GateInv, GateTypeOK, OneWatcher
<1>5. BindingIsWatched'
  <2>1. watched' = watched \cup {c}
    BY DEF BindAndKick, Watch
  <2> QED BY <1>2, <1>4, <2>1 DEF GateInv, OneWatcher, BindingIsWatched
<1>6. OpenIsCurrent'
  BY <1>2 DEF GateInv, OpenIsCurrent
<1> QED BY <1>3, <1>4, <1>5, <1>6 DEF GateInv

LEMMA KickStep ==
  ASSUME GateInv, GateTypeOK', NEW c \in Conn, Kick(c)
  PROVE  GateInv'
<1> DEFINE u == asked[c]
<1>1. /\ u \in Uid /\ u # Nobody /\ c # Nobody
      /\ Old(c) \in Conn \ {c} /\ lock = c
  BY GateOK DEF Kick, GateInv, LockIsKicking
<1>2. /\ uid2conn' = [uid2conn EXCEPT ![u] = c]
      /\ conn2uid' = [conn2uid EXCEPT ![c] = u]
      /\ reader' = [reader EXCEPT ![c] = "reply"]
      /\ asked' = [asked EXCEPT ![c] = Nobody]
      /\ lock' = Nobody
      /\ open' = [open EXCEPT ![Old(c)] = FALSE]
      /\ UNCHANGED <<watched, watchers>>
  BY DEF Kick, Bound
<1>3. LockIsKicking'
  <2>1. \A d \in Conn \ {c} : reader[d] # "kick"
    BY <1>1 DEF GateInv, LockIsKicking
  <2> QED BY <1>1, <1>2, <2>1, GateOK
          DEF GateInv, GateTypeOK, LockIsKicking
<1>4. OneWatcher'
  BY <1>2 DEF GateInv, OneWatcher
<1>5. BindingIsWatched'
  <2>1. c \in watched
    BY DEF Kick, GateInv, LockIsKicking
  <2> QED BY <1>2, <1>4, <2>1
          DEF GateInv, GateTypeOK, OneWatcher, BindingIsWatched
<1>6. OpenIsCurrent'
  <2>1. ASSUME NEW d \in Conn, open'[d], conn2uid'[d] # Nobody
        PROVE  uid2conn'[conn2uid'[d]] = d
    <3>1. CASE d = c
      BY <1>1, <1>2, <3>1 DEF GateInv, GateTypeOK
    <3>2. CASE d # c
      <4>1. d # Old(c) /\ open[d]
        BY <1>1, <1>2, <2>1 DEF GateInv, GateTypeOK
      <4>2. /\ conn2uid'[d] = conn2uid[d] /\ conn2uid[d] \in Uid
            /\ uid2conn[conn2uid[d]] = d
        BY <1>2, <2>1, <3>2, <4>1 DEF GateInv, GateTypeOK, OpenIsCurrent
      <4>3. conn2uid[d] # u
        BY <4>1, <4>2 DEF Old
      <4> QED BY <1>2, <4>2, <4>3 DEF GateInv, GateTypeOK
    <3> QED BY <3>1, <3>2
  <2> QED BY <2>1 DEF OpenIsCurrent
<1> QED BY <1>3, <1>4, <1>5, <1>6 DEF GateInv

LEMMA UnbindStep ==
  ASSUME GateInv, GateTypeOK', NEW c \in Conn, UnbindConn(c)
  PROVE  GateInv'
<1>1. /\ lock = Nobody /\ ~open[c] /\ watchers[c] > 0
      /\ watchers' = [watchers EXCEPT ![c] = @ - 1]
      /\ uid2conn' = Forgotten(c)
      /\ conn2uid' = [conn2uid EXCEPT ![c] = Nobody]
      /\ watched' = watched \ {c}
      /\ UNCHANGED <<lock, open, reader, asked>>
  BY DEF UnbindConn, Unwatched
<1>2. LockIsKicking'
  <2>1. \A d \in Conn : reader[d] # "kick"
    BY <1>1, GateOK DEF GateInv, LockIsKicking
  <2> QED BY <1>1, <2>1 DEF GateInv, LockIsKicking
<1>3. OneWatcher'
  <2>1. c \in watched /\ watchers[c] = 1
    BY <1>1 DEF GateInv, OneWatcher
  <2> QED BY <1>1, <2>1 DEF GateInv, GateTypeOK, OneWatcher
<1>4. BindingIsWatched'
  BY <1>1, <1>3 DEF GateInv, GateTypeOK, OneWatcher, BindingIsWatched
<1>5. OpenIsCurrent'
  <2>1. ASSUME NEW d \in Conn, open'[d], conn2uid'[d] # Nobody
        PROVE  uid2conn'[conn2uid'[d]] = d
    <3>1. d # c /\ conn2uid'[d] = conn2uid[d] /\ conn2uid[d] \in Uid
      BY <1>1, <2>1 DEF GateInv, GateTypeOK
    <3>2. uid2conn[conn2uid[d]] = d
      BY <1>1, <2>1, <3>1 DEF GateInv, OpenIsCurrent
    <3> QED BY <1>1, <3>1, <3>2 DEF Forgotten
  <2> QED BY <2>1 DEF OpenIsCurrent
<1> QED BY <1>2, <1>3, <1>4, <1>5 DEF GateInv

-----------------------------------------------------------------------------
(* The invariant.                                                          *)

\* The invariant is inductive.
LEMMA GateInvStep ==
  ASSUME GateInv, [GateNext]_gateVars
  PROVE  GateInv'
<1>1. GateTypeOK'
  BY GateTypeStep
<1>2. ASSUME NEW c \in Conn, Read(c)
      PROVE  GateInv'
  <2>1. ASSUME NEW d \in Conn, reader'[d] \in {"bind", "kick"}
        PROVE  \/ asked'[d] \in Uid /\ reader'[d] = "bind"
               \/ reader[d] \in {"bind", "kick"} /\ asked'[d] = asked[d]
    BY <1>2, <2>1, GateOK DEF Read, GateInv, GateTypeOK
  <2>2. \A d \in Conn : (reader'[d] = "kick") <=> (reader[d] = "kick")
    BY <1>2 DEF Read, GateInv, GateTypeOK
  <2> QED BY <1>1, <1>2, <2>1, <2>2, QuietStep DEF Read
<1>3. ASSUME NEW c \in Conn, GetUID(c) \/ Reply(c) \/ ReadFails(c)
      PROVE  GateInv'
  <2>1. /\ UNCHANGED <<sessVars, asked>>
        /\ \A d \in Conn : open'[d] => open[d]
        /\ \A d \in Conn :
             \/ reader'[d] = reader[d]
             \/ /\ reader'[d] \notin {"bind", "kick"}
                /\ reader[d] \notin {"bind", "kick"}
    BY <1>3 DEF GetUID, Reply, ReadFails, GateInv, GateTypeOK
  <2> QED BY <1>1, <2>1, QuietStep
<1>4. ASSUME NEW c \in Conn, Write(c) \/ WriterReturns(c)
      PROVE  GateInv'
  <2>1. UNCHANGED <<sessVars, asked, open, reader>>
    BY <1>4 DEF Write, WriterReturns
  <2> QED BY <1>1, <2>1, QuietStep
<1>5. ASSUME NEW p \in Pusher, GetConn(p) \/ Push(p)
      PROVE  GateInv'
  <2>1. UNCHANGED <<sessVars, asked, open, reader>>
    BY <1>5 DEF GetConn, Push
  <2> QED BY <1>1, <2>1, QuietStep
<1>6. CASE UNCHANGED gateVars
  BY <1>1, <1>6, QuietStep
<1> QED BY <1>1, <1>2, <1>3, <1>4, <1>5, <1>6, BindStep, BindAndKickStep,
           KickStep, UnbindStep DEF GateNext, Reader

LEMMA GateInvInit ==
  GateInit => GateInv
  BY GateOK DEF GateInit, GateInv, GateTypeOK, LockIsKicking, OneWatcher,
     BindingIsWatched, OpenIsCurrent, Old

\* The invariant holds of every behaviour of the gate.
THEOREM GateInvariance ==
  GateSpec => []GateInv
<1>1. GateInit => GateInv
  BY GateInvInit
<1>2. GateInv /\ [GateNext]_gateVars => GateInv'
  BY GateInvStep
<1> QED BY <1>1, <1>2, PTL DEF GateSpec

\* The maps of the session manager keep their types, and no channel holds
\* more than its capacity.
THEOREM GateTypeCorrect ==
  GateSpec => []GateTypeOK
<1>1. GateInv => GateTypeOK
  BY DEF GateInv
<1> QED BY <1>1, GateInvariance, PTL

\* No user has two connections: an open connection that is bound is the one
\* its user's messages go to.
THEOREM OneConnectionPerUser ==
  GateSpec => []OpenIsCurrent
<1>1. GateInv => OpenIsCurrent
  BY DEF GateInv
<1> QED BY <1>1, GateInvariance, PTL

\* Every binding of a connection has one watcher that will undo it.
THEOREM NoBindingLeaks ==
  GateSpec => []BindingIsWatched
<1>1. GateInv => BindingIsWatched
  BY DEF GateInv
<1> QED BY <1>1, GateInvariance, PTL
=============================================================================
