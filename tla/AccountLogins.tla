---------------------------- MODULE AccountLogins ---------------------------
(***************************************************************************)
(* Register and Login of the account service.                              *)
(*                                                                         *)
(* Each request runs in a goroutine of its own and makes up to four calls  *)
(* to the database, one after the other and without a transaction: what    *)
(* was read may be old when it is used, and a request may fail between two *)
(* writes.  A call that fails may have been carried out, but not later     *)
(* than it failed.  When the process crashes, its requests are never       *)
(* answered.                                                               *)
(*                                                                         *)
(* A user has one name and one uid, so the name stands for both.  An       *)
(* encrypted password is the password: the same one gives the same digest, *)
(* another one another.  A row that a login wrote is known by its request.  *)
(***************************************************************************)
EXTENDS Naturals

CONSTANTS
  Requests,     \* requests; a client that tries again sends another one
  Names, Passwords,
  None,
  MaxFailures,  \* bounds of the runs: calls to the database that fail,
  MaxCrashes    \* and crashes of the process

\* What a request asks.
Call == [kind : {"login", "register"}, name : Names, password : Passwords]

ASSUME AccountAssumption ==
  /\ None \notin Requests \cup Passwords \cup Call
  /\ MaxFailures \in Nat /\ MaxCrashes \in Nat

VARIABLES
  call,      \* what each request asks, None before it is sent
  pc,        \* the call to the database that it makes next
  found,     \* has its GetLoginLast found a row?
  answer,    \* what it was answered
  user_info, \* the password of each user in the database, None without one
  login_history,  \* the logins on record
  login_last,     \* the login that wrote the user's row, None without a row
  failures, crashes,
  earlier    \* history: the requests that were over when this one was sent

database == <<user_info, login_history, login_last>>
accountVars == <<call, pc, found, answer, database, failures, crashes, earlier>>

Running == {"GetUserByUserName", "SaveUser", "SaveHistory", "GetLoginLast", "SaveLast"}

AccountTypeOK ==
  /\ call \in [Requests -> Call \cup {None}]
  /\ pc \in [Requests -> Running \cup {"idle", "over"}]
  /\ found \in [Requests -> BOOLEAN]
  /\ answer \in [Requests -> {"none", "ok", "exists", "invalid", "unavailable"}]
  /\ user_info \in [Names -> Passwords \cup {None}]
  /\ login_history \subseteq Requests
  /\ login_last \in [Names -> Requests \cup {None}]
  /\ failures \in Nat /\ crashes \in Nat
  /\ earlier \in [Requests -> SUBSET Requests]

AccountInit ==
  /\ call = [r \in Requests |-> None] /\ pc = [r \in Requests |-> "idle"]
  /\ found = [r \in Requests |-> FALSE] /\ answer = [r \in Requests |-> "none"]
  /\ user_info = [n \in Names |-> None]
  /\ login_history = {} /\ login_last = [n \in Names |-> None]
  /\ failures = 0 /\ crashes = 0
  /\ earlier = [r \in Requests |-> {}]

-----------------------------------------------------------------------------
(* The handlers.                                                           *)

Send(r) ==
  /\ pc[r] = "idle"
  /\ \E c \in Call : call' = [call EXCEPT ![r] = c]
  /\ pc' = [pc EXCEPT ![r] = "GetUserByUserName"]
  /\ earlier' = [earlier EXCEPT ![r] = {q \in Requests : pc[q] = "over"}]
  /\ UNCHANGED <<found, answer, database, failures, crashes>>

Name(r) == call[r].name

\* The request goes on with the next call, or ends with an answer.
GoOn(r, next) == pc' = [pc EXCEPT ![r] = next] /\ UNCHANGED answer

Reply(r, a) == pc' = [pc EXCEPT ![r] = "over"] /\ answer' = [answer EXCEPT ![r] = a]

\* A call fails, and the request with it.
CallFails(r) ==
  /\ failures < MaxFailures
  /\ failures' = failures + 1
  /\ Reply(r, "unavailable")

\* GetUserByUserName, and what Register makes of it.
RegisterFinds(r) ==
  IF user_info[Name(r)] = None THEN GoOn(r, "SaveUser") ELSE Reply(r, "exists")

\* And what Login does.
LoginFinds(r) ==
  IF user_info[Name(r)] = call[r].password
    THEN GoOn(r, "SaveHistory")
    ELSE Reply(r, "invalid")

GetUserByUserName(r) ==
  /\ pc[r] = "GetUserByUserName"
  /\ \/ /\ call[r].kind = "register"
        /\ RegisterFinds(r)
        /\ UNCHANGED failures
     \/ /\ call[r].kind = "login"
        /\ LoginFinds(r)
        /\ UNCHANGED failures
     \/ CallFails(r)
  /\ UNCHANGED <<call, found, database, crashes, earlier>>

\* Mutation of Duplicate: a name that was taken meanwhile is good enough.
DuplicateIsFine(r) == Reply(r, "ok") /\ UNCHANGED failures

\* The unique index refuses a second user of the name.
Duplicate(r) == Reply(r, "unavailable") /\ UNCHANGED failures

SaveUser(r) ==
  /\ pc[r] = "SaveUser"
  /\ \/ /\ user_info[Name(r)] # None
        /\ Duplicate(r)
        /\ UNCHANGED user_info
     \/ /\ user_info[Name(r)] = None
        /\ user_info' = [user_info EXCEPT ![Name(r)] = call[r].password]
        /\ (Reply(r, "ok") /\ UNCHANGED failures) \/ CallFails(r)
     \/ CallFails(r) /\ UNCHANGED user_info
  /\ UNCHANGED <<call, found, login_history, login_last, crashes, earlier>>

\* Mutation of SaveHistory: a login that cannot be recorded goes on.
SaveHistoryOrNot(r) ==
  /\ pc[r] = "SaveHistory"
  /\ login_history' \in {login_history, login_history \cup {r}}
  /\ GoOn(r, "GetLoginLast") /\ UNCHANGED failures
  /\ UNCHANGED <<call, found, user_info, login_last, crashes, earlier>>

SaveHistory(r) ==
  /\ pc[r] = "SaveHistory"
  /\ \/ /\ login_history' = login_history \cup {r}
        /\ (GoOn(r, "GetLoginLast") /\ UNCHANGED failures) \/ CallFails(r)
     \/ CallFails(r) /\ UNCHANGED login_history
  /\ UNCHANGED <<call, found, user_info, login_last, crashes, earlier>>

GetLoginLast(r) ==
  /\ pc[r] = "GetLoginLast"
  /\ \/ /\ found' = [found EXCEPT ![r] = login_last[Name(r)] # None]
        /\ GoOn(r, "SaveLast")
        /\ UNCHANGED failures
     \/ CallFails(r) /\ UNCHANGED found
  /\ UNCHANGED <<call, database, crashes, earlier>>

\* Mutation of Written: the row keeps the fields that were read.
WrittenUnrefreshed(r) ==
  IF found[r] THEN login_last ELSE [login_last EXCEPT ![Name(r)] = r]

\* Mutation of Written: the row is written without its session.
WrittenWithoutSession(r) == [login_last EXCEPT ![Name(r)] = "none"]

\* The row with the fields of this login.
Written(r) == [login_last EXCEPT ![Name(r)] = r]

\* A row that was found is updated; otherwise one is inserted, which the
\* unique index refuses when another login was faster.
SaveLast(r) ==
  /\ pc[r] = "SaveLast"
  /\ \/ /\ found[r] \/ login_last[Name(r)] = None
        /\ login_last' = Written(r)
        /\ (Reply(r, "ok") /\ UNCHANGED failures) \/ CallFails(r)
     \/ /\ ~found[r] /\ login_last[Name(r)] # None
        /\ Reply(r, "unavailable")
        /\ UNCHANGED <<login_last, failures>>
     \/ CallFails(r) /\ UNCHANGED login_last
  /\ UNCHANGED <<call, found, user_info, login_history, crashes, earlier>>

\* The process dies with its requests.
Crash ==
  /\ crashes < MaxCrashes
  /\ crashes' = crashes + 1
  /\ pc' = [r \in Requests |-> IF pc[r] \in Running THEN "over" ELSE pc[r]]
  /\ UNCHANGED <<call, found, answer, database, failures, earlier>>

AccountNext ==
  \/ \E r \in Requests :
       \/ Send(r) \/ GetUserByUserName(r) \/ SaveUser(r)
       \/ SaveHistory(r) \/ GetLoginLast(r) \/ SaveLast(r)
  \/ Crash

AccountSpec == AccountInit /\ [][AccountNext]_accountVars

-----------------------------------------------------------------------------
(* Properties.                                                             *)

Login(r) == call[r] # None /\ call[r].kind = "login"

\* A name is given away once: of all registrations of one name, racing or
\* repeated, one at most is told that it succeeded, its password stays the
\* account's, and "user exists" and a login are never answered without a user.
OneOwner ==
  \A r \in Requests :
    /\ (answer[r] = "ok" /\ call[r].kind = "register") =>
         /\ user_info[Name(r)] = call[r].password
         /\ \A q \in Requests :
              (answer[q] = "ok" /\ call[q].kind = "register" /\ Name(q) = Name(r)) => q = r
    /\ answer[r] = "exists" => user_info[Name(r)] # None

\* A login on record, and the one in the row of the last login, is one with
\* the user's name and password; what was answered with a session, or is in
\* the row, is in the history.
LoginsAreRecorded ==
  /\ \A r \in login_history : Login(r) /\ user_info[Name(r)] = call[r].password
  /\ \A n \in Names : login_last[n] # None =>
       login_last[n] \in login_history /\ Name(login_last[n]) = n
  /\ \A r \in Requests : Login(r) /\ answer[r] = "ok" => r \in login_history

\* After a login that succeeded, the row is not that of a login that was over
\* when this one began.
LastIsNotStale ==
  \A r \in Requests : Login(r) /\ answer[r] = "ok" =>
    /\ login_last[Name(r)] # None
    /\ login_last[Name(r)] \notin earlier[r]

\* The two tables tell the logins that took place: the history all of them,
\* the user's row one of the latest.
LoginsAreTold == LoginsAreRecorded /\ LastIsNotStale
=============================================================================
