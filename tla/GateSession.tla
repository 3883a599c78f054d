---------------------------- MODULE GateSession ----------------------------
(***************************************************************************)
(* The sessions of the gate: which connection belongs to which user.       *)
(* Every WebSocket connection has a goroutine that reads and handles       *)
(* requests and one that writes what is put into the channel outChan; the  *)
(* session manager has a watcher for every connection it knows, and the    *)
(* push server puts messages from the other actors into the channels.      *)
(* They meet in the maps and the lock of the session manager and in the    *)
(* bounded channels.                                                       *)
(*                                                                         *)
(* Only the number of messages in a channel is kept.  A request is a       *)
(* login, one that needs the user of the connection, or one that needs     *)
(* nothing (a heartbeat, an unknown route, a login that failed).  Tokens   *)
(* and UnbindUID, which nothing calls, are left out.                       *)
(***************************************************************************)
EXTENDS Naturals

CONSTANTS
  Conn,         \* connections
  Uid,          \* users
  Pusher,       \* goroutines of the push server, one for each call
  Nobody,       \* no user, no connection
  MayLogin,     \* the users that the client of a connection logs in as
  Cap,          \* capacity of outChan
  MaxRequests,  \* bound: requests the gate reads
  MaxPushes     \* bound: items the push server is given

ASSUME GateOK ==
  /\ Nobody \notin Conn \cup Uid
  /\ MayLogin \in [Conn -> SUBSET Uid]
  /\ Cap \in Nat \ {0} /\ MaxRequests \in Nat /\ MaxPushes \in Nat

VARIABLES
  uid2conn, conn2uid, watched,  \* the maps of the session manager
  lock,         \* the connection whose Bind holds the lock, or Nobody
  watchers,     \* watcher goroutines of each connection
  open,         \* the connection is open: done is not closed
  reader,       \* program counter of readMsgLoop
  asked,        \* the user the reader is binding, or Nobody
  writing,      \* writeMsgLoop has not returned
  outChan,      \* messages in the channel
  pushTo,       \* the connection a pusher is writing to, or Nobody
  requests, pushes

sessVars == <<uid2conn, conn2uid, watched, lock, watchers>>
connVars == <<open, reader, asked, writing, outChan>>
countVars == <<requests, pushes>>
gateVars == <<sessVars, connVars, pushTo, countVars>>

GateTypeOK ==
  /\ uid2conn \in [Uid -> Conn \cup {Nobody}]
  /\ conn2uid \in [Conn -> Uid \cup {Nobody}]
  /\ watched \in SUBSET Conn
  /\ lock \in Conn \cup {Nobody}
  /\ watchers \in [Conn -> Nat]
  /\ open \in [Conn -> BOOLEAN]
  /\ reader \in [Conn -> {"read", "bind", "kick", "getuid", "reply", "done"}]
  /\ asked \in [Conn -> Uid \cup {Nobody}]
  /\ writing \in [Conn -> BOOLEAN]
  /\ outChan \in [Conn -> 0 .. Cap]
  /\ pushTo \in [Pusher -> Conn \cup {Nobody}]
  /\ requests \in Nat /\ pushes \in Nat

GateInit ==
  /\ uid2conn = [u \in Uid |-> Nobody]
  /\ conn2uid = [c \in Conn |-> Nobody]
  /\ watched = {} /\ lock = Nobody
  /\ watchers = [c \in Conn |-> 0]
  /\ open = [c \in Conn |-> TRUE]
  /\ reader = [c \in Conn |-> "read"]
  /\ asked = [c \in Conn |-> Nobody]
  /\ writing = [c \in Conn |-> TRUE]
  /\ outChan = [c \in Conn |-> 0]
  /\ pushTo = [p \in Pusher |-> Nobody]
  /\ requests = 0 /\ pushes = 0

-----------------------------------------------------------------------------
(* A connection.                                                           *)

Goto(c, pc) == reader' = [reader EXCEPT ![c] = pc]

\* Mutation of Room: the channel takes one message more.
RoomForOneMore(c) == outChan[c] <= Cap

\* Mutation of Room: who writes to a connection that is closed waits.
RoomIfOpen(c) == outChan[c] < Cap /\ open[c]

\* A send on outChan goes through.
Room(c) == outChan[c] < Cap

Filled(c) == [outChan EXCEPT ![c] = @ + 1]

\* The client sends a request.
Read(c) ==
  /\ reader[c] = "read" /\ open[c]
  /\ requests < MaxRequests
  /\ requests' = requests + 1
  /\ \/ Goto(c, "reply") /\ UNCHANGED asked
     \/ Goto(c, "getuid") /\ UNCHANGED asked
     \/ /\ \E u \in MayLogin[c] : asked' = [asked EXCEPT ![c] = u]
        /\ Goto(c, "bind")
  /\ UNCHANGED <<sessVars, open, writing, outChan, pushTo, pushes>>

\* GetUID, before a request for the user is passed on.
GetUID(c) ==
  /\ reader[c] = "getuid"
  /\ lock = Nobody
  /\ Goto(c, "reply")
  /\ UNCHANGED <<sessVars, open, asked, writing, outChan, pushTo, countVars>>

\* The reader puts the answer into its own channel.
Reply(c) ==
  /\ reader[c] = "reply"
  /\ Room(c)
  /\ outChan' = Filled(c)
  /\ Goto(c, "read")
  /\ UNCHANGED <<sessVars, open, asked, writing, pushTo, countVars>>

\* ReadMessage fails, because the client is gone or because somebody closed
\* the connection: the reader closes it and is done.
ReadFails(c) ==
  /\ reader[c] = "read"
  /\ open' = [open EXCEPT ![c] = FALSE]
  /\ Goto(c, "done")
  /\ UNCHANGED <<sessVars, asked, writing, outChan, pushTo, countVars>>

Write(c) ==
  /\ writing[c] /\ outChan[c] > 0
  /\ outChan' = [outChan EXCEPT ![c] = @ - 1]
  /\ UNCHANGED <<sessVars, open, reader, asked, writing, pushTo, countVars>>

\* The writer may return as soon as done is closed, whatever is left.
WriterReturns(c) ==
  /\ writing[c] /\ ~open[c]
  /\ writing' = [writing EXCEPT ![c] = FALSE]
  /\ UNCHANGED <<sessVars, open, reader, asked, outChan, pushTo, countVars>>

-----------------------------------------------------------------------------
(* The session manager.                                                    *)

\* Bind starts a watcher for a connection it does not watch yet.
Watch(c) ==
  /\ watched' = watched \cup {c}
  /\ watchers' = IF c \in watched THEN watchers
                 ELSE [watchers EXCEPT ![c] = @ + 1]

Bound(c) ==
  /\ uid2conn' = [uid2conn EXCEPT ![asked[c]] = c]
  /\ conn2uid' = [conn2uid EXCEPT ![c] = asked[c]]
  /\ Goto(c, "reply")
  /\ asked' = [asked EXCEPT ![c] = Nobody]

\* The connection that the user of this Bind had.
Old(c) == uid2conn[asked[c]]

\* Bind of a user who has no other connection.
Bind(c) ==
  /\ reader[c] = "bind" /\ lock = Nobody
  /\ Old(c) \in {Nobody, c}
  /\ Watch(c) /\ Bound(c)
  /\ UNCHANGED <<lock, open, writing, outChan, pushTo, countVars>>

\* Bind of a user who has: the lock is kept while the old connection is
\* told and closed.
BindAndKick(c) ==
  /\ reader[c] = "bind" /\ lock = Nobody
  /\ Old(c) \notin {Nobody, c}
  /\ lock' = c
  /\ Watch(c)
  /\ Goto(c, "kick")
  /\ UNCHANGED <<uid2conn, conn2uid, open, asked, writing, outChan, pushTo,
                 countVars>>

\* Mutation of MayTell: the old connection is asked for by GetConn.
MayTellByGetConn(c) == Room(Old(c)) /\ lock = Nobody

MayTell(c) == Room(Old(c))

\* Push of robLogin, Close and the rest of Bind.
Kick(c) ==
  /\ reader[c] = "kick"
  /\ MayTell(c)
  /\ outChan' = Filled(Old(c))
  /\ open' = [open EXCEPT ![Old(c)] = FALSE]
  /\ Bound(c)
  /\ lock' = Nobody
  /\ UNCHANGED <<watched, watchers, writing, pushTo, countVars>>

\* Mutation of Forgotten: the user is unbound whoever it belongs to now.
ForgottenAnyway(c) ==
  [u \in Uid |-> IF u = conn2uid[c] THEN Nobody ELSE uid2conn[u]]

\* uid2conn when c is unbound.
Forgotten(c) ==
  [u \in Uid |-> IF u = conn2uid[c] /\ uid2conn[u] = c
                 THEN Nobody ELSE uid2conn[u]]

\* Mutation of Unwatched: the connection counts as watched for good.
StillWatched(c) == watched

Unwatched(c) == watched \ {c}

\* A watcher sees done closed and calls UnbindConn.
UnbindConn(c) ==
  /\ watchers[c] > 0 /\ ~open[c] /\ lock = Nobody
  /\ watchers' = [watchers EXCEPT ![c] = @ - 1]
  /\ uid2conn' = Forgotten(c)
  /\ conn2uid' = [conn2uid EXCEPT ![c] = Nobody]
  /\ watched' = Unwatched(c)
  /\ UNCHANGED <<lock, connVars, pushTo, countVars>>

-----------------------------------------------------------------------------
(* The push server.                                                        *)

\* GetConn for an item of PushWorldBatch; nothing is done for a user
\* without a connection.
GetConn(p) ==
  /\ pushTo[p] = Nobody
  /\ pushes < MaxPushes
  /\ pushes' = pushes + 1
  /\ lock = Nobody
  /\ \E u \in Uid : pushTo' = [pushTo EXCEPT ![p] = uid2conn[u]]
  /\ UNCHANGED <<sessVars, connVars, requests>>

\* Push, without the lock, to the connection it found.
Push(p) ==
  /\ pushTo[p] # Nobody
  /\ Room(pushTo[p])
  /\ outChan' = Filled(pushTo[p])
  /\ pushTo' = [pushTo EXCEPT ![p] = Nobody]
  /\ UNCHANGED <<sessVars, open, reader, asked, writing, countVars>>

-----------------------------------------------------------------------------

Reader(c) == GetUID(c) \/ Reply(c) \/ Bind(c) \/ BindAndKick(c) \/ Kick(c)

GateNext ==
  \/ \E c \in Conn :
       Read(c) \/ ReadFails(c) \/ Reader(c)
         \/ Write(c) \/ WriterReturns(c) \/ UnbindConn(c)
  \/ \E p \in Pusher : GetConn(p) \/ Push(p)

\* Every goroutine that can run does, a client takes what is written to it,
\* and reading from a closed connection fails.  No client has to send
\* anything or to leave.
GateSpec ==
  /\ GateInit /\ [][GateNext]_gateVars
  /\ \A c \in Conn :
       /\ WF_gateVars(Reader(c))
       /\ WF_gateVars(~open[c] /\ ReadFails(c))
       /\ WF_gateVars(Write(c) \/ WriterReturns(c))
       /\ WF_gateVars(UnbindConn(c))
  /\ \A p \in Pusher : WF_gateVars(Push(p))

-----------------------------------------------------------------------------
(* Properties.                                                             *)

\* An open connection that is bound is the connection of its user: the
\* watcher of an old connection never unbinds its successor, and no user
\* has two connections.
OpenIsCurrent ==
  \A c \in Conn :
    open[c] /\ conn2uid[c] # Nobody => uid2conn[conn2uid[c]] = c

\* Every binding of a connection has exactly one watcher to undo it.
BindingIsWatched ==
  \A c \in Conn : conn2uid[c] # Nobody => c \in watched /\ watchers[c] = 1

\* No channel ever gets full.
NeverFull == [](\A c \in Conn : outChan[c] < Cap)

\* A Bind that kicks the old connection comes to its end.
KickEnds == \A c \in Conn : reader[c] = "kick" ~> reader[c] # "kick"

\* A connection that is closed is removed from conn2uid and from the watched
\* ones, and its reader ends.
ClosedIsForgotten ==
  <>[](\A c \in Conn : ~open[c] =>
    conn2uid[c] = Nobody /\ c \notin watched /\ reader[c] = "done")

\* Every call of the push server returns.
PushesReturn == \A p \in Pusher : pushTo[p] # Nobody ~> pushTo[p] = Nobody

\* Nobody waits for the lock or for room in a channel for ever, whoever logs
\* in, is kicked, pushes or closes, as long as no channel gets full.
NobodyIsStuck == NeverFull => KickEnds /\ ClosedIsForgotten /\ PushesReturn
=============================================================================
