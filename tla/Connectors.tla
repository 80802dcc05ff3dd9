----------------------------- MODULE Connectors -----------------------------
(***************************************************************************)
(* The OAuth tokens of one user for one connector with the authorization-  *)
(* code grant.  Calls of the connector read the user's row; a call that    *)
(* finds its access token expired refreshes it, alone in its process by an *)
(* asyncio lock and alone in the system by a lock on the row, and in a     *)
(* database session other than the one it came with.  Meanwhile the user   *)
(* connects again or disconnects.                                          *)
(*                                                                         *)
(*   services/connector_service.py      resolution, refresh and exchange   *)
(*   core/oauth_state.py                the state of a consent             *)
(*   api/v1/endpoints/connectors.py     authorize, disconnect              *)
(*   api/runtime/endpoints/authentication.py  the provider's redirect      *)
(*                                                                         *)
(* The provider belongs to somebody else.  Whenever it is asked it chooses *)
(* whether to rotate the refresh token and whether to tell a lifetime, and *)
(* it refuses a refresh token that it has rotated away.                    *)
(***************************************************************************)
EXTENDS Integers, FiniteSets

CONSTANTS
    Process,        \* backend and worker processes
    Call,           \* calls of the connector on the user's behalf
    Home,           \* the process each call is made in
    PoolSize,       \* db_pool_size + db_max_overflow, of a process
    Consent,        \* authorizations the user begins
    MaxExpiries,    \* bound: how often the access token expires
    MaxFailures     \* bound: how often something fails

ASSUME ConnectorsAssumption ==
    /\ IsFiniteSet(Call)
    /\ Home \in [Call -> Process]
    /\ PoolSize \in Nat \ {0}
    /\ MaxExpiries \in Nat /\ MaxFailures \in Nat

None == 0           \* SQL's NULL, no refresh token

VARIABLES
    row,        \* the connector_oauth_tokens row of the user, if present
    issued,     \* how many refresh tokens the provider has issued
    rotated,    \* those it has replaced by another one
    reused,     \* those presented to it after that
    orphaned,   \* those whose replacement was lost before it was stored
    call,       \* each call: its place, the refresh token it read, the answer
    consent,    \* each authorization likewise; read is None without a row
    expiries, failures

provider == <<issued, rotated, reused, orphaned>>
connectorsVars == <<row, provider, call, consent, expiries, failures>>

Answer == [refresh : Nat, lifetime : BOOLEAN]
NoAnswer == [refresh |-> None, lifetime |-> FALSE]

Absent == [present |-> FALSE, refresh |-> None, expiry |-> "unknown"]
Blank == [pc |-> "idle", read |-> None, answer |-> NoAnswer]

Call_PC == {"idle", "locking", "connecting", "selecting", "posting", "storing",
            "sending", "over"}
Consent_PC == {"idle", "begun", "posting", "reading", "updating", "inserting", "over"}

TypeOK ==
    /\ row \in [present : BOOLEAN, refresh : Nat, expiry : {"unknown", "later", "past"}]
    /\ issued \in Nat
    /\ rotated \subseteq 1..issued /\ reused \subseteq rotated /\ orphaned \subseteq rotated
    /\ call \in [Call -> [pc : Call_PC, read : Nat, answer : Answer]]
    /\ consent \in [Consent -> [pc : Consent_PC, read : Nat, answer : Answer]]
    /\ expiries \in Nat /\ failures \in Nat

ConnectorsInit ==
    /\ row = Absent
    /\ issued = 0 /\ rotated = {} /\ reused = {} /\ orphaned = {}
    /\ call = [c \in Call |-> Blank]
    /\ consent = [s \in Consent |-> Blank]
    /\ expiries = 0 /\ failures = 0

Strike == failures < MaxFailures /\ failures' = failures + 1

-----------------------------------------------------------------------------
(* Locks and connections.  A call holds the connection of the session it   *)
(* came with, whose transaction its first query began, until it is over: a *)
(* call that waits for the lock too.                                       *)

At(c, places) == call[c].pc \in places

Refreshing == {"connecting", "selecting", "posting", "storing"}
Owning == {"locking", "sending"} \cup Refreshing
Borrowing == {"selecting", "posting", "storing"}

Calls(p, places) == {c \in Call : Home[c] = p /\ At(c, places)}

\* The process's lock for this connector and user.
LockFree(p) == Calls(p, Refreshing) = {}

ConnectionFree(p) ==
    Cardinality(Calls(p, Owning)) + Cardinality(Calls(p, Borrowing)) < PoolSize

\* SELECT without FOR UPDATE.
UnlockedRowFree == TRUE

\* SELECT ... FOR UPDATE holds the row until its transaction ends.
RowFree == \A c \in Call : ~At(c, {"posting", "storing"})

-----------------------------------------------------------------------------
(* Tokens.                                                                 *)

TokenStillValid == row.expiry # "past"

\* What a session that read the refresh token read writes of an answer.  The
\* columns it does not set keep what they hold by then.
Stored(read, answer) ==
    [present |-> TRUE,
     refresh |-> IF answer.refresh # None THEN answer.refresh ELSE row.refresh,
     expiry |-> IF answer.lifetime \/ answer.refresh # None \/ read # None
                THEN "later" ELSE row.expiry]

\* The provider's choice of an answer; rotating tells whether it comes with a
\* new refresh token.
Answers(rotating, answer) ==
    /\ issued' = IF rotating THEN issued + 1 ELSE issued
    /\ answer \in [refresh : {IF rotating THEN issued + 1 ELSE None}, lifetime : BOOLEAN]

AccessExpires ==
    /\ row.expiry = "later"
    /\ expiries < MaxExpiries /\ expiries' = expiries + 1
    /\ row' = [row EXCEPT !.expiry = "past"]
    /\ UNCHANGED <<provider, call, consent, failures>>

-----------------------------------------------------------------------------
(* A call.                                                                 *)

Goes(c, place) == call' = [call EXCEPT ![c].pc = place]

\* It returns or raises.
Ends(c) == call' = [call EXCEPT ![c] = [Blank EXCEPT !.pc = "over"]]

\* What the row, as read just now, lets a call do; next is where it goes to
\* if the access token is to be refreshed.
Resolve(c, next) ==
    IF ~row.present THEN Ends(c)
    ELSE IF TokenStillValid THEN Goes(c, "sending")
    ELSE IF row.refresh = None THEN Ends(c)
    ELSE call' = [call EXCEPT ![c].pc = next, ![c].read = row.refresh]

\* The common case: a valid token is read without any lock.
GetToken(c) ==
    /\ At(c, {"idle"}) /\ ConnectionFree(Home[c])
    /\ Resolve(c, "locking")
    /\ UNCHANGED <<row, provider, consent, expiries, failures>>

GetLock(c) ==
    /\ At(c, {"locking"}) /\ LockFree(Home[c])
    /\ Goes(c, "connecting")
    /\ UNCHANGED <<row, provider, consent, expiries, failures>>

OpenSession(c) ==
    /\ At(c, {"connecting"}) /\ ConnectionFree(Home[c])
    /\ Goes(c, "selecting")
    /\ UNCHANGED <<row, provider, consent, expiries, failures>>

\* A pool that waits for a connection without end.
PoolWaits(c) ==
    /\ At(c, {"connecting"}) /\ ConnectionFree(Home[c])
    /\ UNCHANGED connectorsVars

\* No connection comes free in time: the pool raises, the call fails.
PoolTimesOut(c) ==
    /\ At(c, {"connecting"}) /\ ~ConnectionFree(Home[c])
    /\ Ends(c)
    /\ UNCHANGED <<row, provider, consent, expiries, failures>>

\* Under the row lock the token may turn out to be refreshed already.
SelectForUpdate(c) ==
    /\ At(c, {"selecting"}) /\ (RowFree \/ ~row.present)
    /\ Resolve(c, "posting")
    /\ UNCHANGED <<row, provider, consent, expiries, failures>>

\* The secret with the client's password is gone, or the provider was not
\* reached: no token.
NothingPosted(c) ==
    /\ At(c, {"posting"}) /\ Strike
    /\ Ends(c)
    /\ UNCHANGED <<row, provider, consent, expiries>>

PostRefresh(c) ==
    /\ At(c, {"posting"}) /\ call[c].read \notin rotated
    /\ \E rotating \in BOOLEAN, answer \in [refresh : {None, issued + 1}, lifetime : BOOLEAN] :
          /\ Answers(rotating, answer)
          /\ rotated' = IF rotating THEN rotated \cup {call[c].read} ELSE rotated
          /\ call' = [call EXCEPT ![c].pc = "storing", ![c].answer = answer]
    /\ UNCHANGED <<row, reused, orphaned, consent, expiries, failures>>

PostRefused(c) ==
    /\ At(c, {"posting"}) /\ call[c].read \in rotated
    /\ reused' = reused \cup {call[c].read}
    /\ Ends(c)
    /\ UNCHANGED <<row, issued, rotated, orphaned, consent, expiries, failures>>

StoreToken(c) ==
    /\ At(c, {"storing"})
    /\ row' = Stored(call[c].read, call[c].answer)
    /\ Goes(c, "sending")
    /\ UNCHANGED <<provider, consent, expiries, failures>>

\* The request, with its retries, has an answer or raises.
Send(c) ==
    /\ At(c, {"sending"})
    /\ Ends(c)
    /\ UNCHANGED <<row, provider, consent, expiries, failures>>

\* The provider's answer got lost, the commit failed, the tool round was over
\* and cancelled its tools, or the process stopped: the transaction is rolled
\* back, and so is what the provider said.
Stopped(c) ==
    /\ At(c, Owning) /\ Strike
    /\ orphaned' = orphaned \cup ({call[c].read} \cap rotated)
    /\ Ends(c)
    /\ UNCHANGED <<row, issued, rotated, reused, consent, expiries>>

-----------------------------------------------------------------------------
(* The user.                                                               *)

Moves(s, place) == consent' = [consent EXCEPT ![s].pc = place]

Closes(s) == consent' = [consent EXCEPT ![s] = [Blank EXCEPT !.pc = "over"]]

Authorize(s) ==
    /\ consent[s].pc = "idle"
    /\ Moves(s, "begun")
    /\ UNCHANGED <<row, provider, call, expiries, failures>>

\* The provider's redirect takes the state out of Redis: it, or the end of the
\* state's time, comes first.
Callback(s) ==
    /\ consent[s].pc = "begun"
    /\ \/ Moves(s, "posting")
       \/ Closes(s)
    /\ UNCHANGED <<row, provider, call, expiries, failures>>

ExchangeCode(s) ==
    /\ consent[s].pc = "posting"
    /\ \E rotating \in BOOLEAN, answer \in [refresh : {None, issued + 1}, lifetime : BOOLEAN] :
          /\ Answers(rotating, answer)
          /\ consent' = [consent EXCEPT ![s].pc = "reading", ![s].answer = answer]
    /\ UNCHANGED <<row, rotated, reused, orphaned, call, expiries, failures>>

\* The row is read without a lock.
ReadRow(s) ==
    /\ consent[s].pc = "reading"
    /\ consent' = [consent EXCEPT
          ![s].pc = IF row.present THEN "updating" ELSE "inserting",
          ![s].read = row.refresh]
    /\ UNCHANGED <<row, provider, call, expiries, failures>>

\* UPDATE waits for the row, and raises if it is gone.
FlushUpdate(s) ==
    /\ consent[s].pc = "updating" /\ RowFree
    /\ IF row.present
       THEN /\ row' = Stored(consent[s].read, consent[s].answer)
            /\ Closes(s)
       ELSE /\ Closes(s)
            /\ UNCHANGED row
    /\ UNCHANGED <<provider, call, expiries, failures>>

\* INSERT raises if the other consent came first.
FlushInsert(s) ==
    /\ consent[s].pc = "inserting"
    /\ IF row.present
       THEN /\ Closes(s)
            /\ UNCHANGED row
       ELSE /\ row' = Stored(consent[s].read, consent[s].answer)
            /\ Closes(s)
    /\ UNCHANGED <<provider, call, expiries, failures>>

ConsentFails(s) ==
    /\ consent[s].pc \in {"posting", "reading", "updating", "inserting"} /\ Strike
    /\ Closes(s)
    /\ UNCHANGED <<row, provider, call, expiries>>

\* DELETE waits for the row.
Disconnect ==
    /\ row.present /\ RowFree
    /\ row' = Absent
    /\ UNCHANGED <<provider, call, consent, expiries, failures>>

-----------------------------------------------------------------------------

CallStep(c) ==
    \/ GetLock(c) \/ OpenSession(c) \/ PoolTimesOut(c) \/ SelectForUpdate(c)
    \/ PostRefresh(c) \/ PostRefused(c) \/ StoreToken(c) \/ Send(c)

UserStep(s) ==
    \/ Authorize(s) \/ Callback(s) \/ ExchangeCode(s) \/ ReadRow(s)
    \/ FlushUpdate(s) \/ FlushInsert(s) \/ ConsentFails(s)

ConnectorsNext ==
    \/ AccessExpires \/ Disconnect
    \/ \E c \in Call : GetToken(c) \/ CallStep(c) \/ NothingPosted(c) \/ Stopped(c)
    \/ \E s \in Consent : UserStep(s)

\* A call that has begun is driven by the event loop, the pool's timeout and
\* the token request's; nobody need begin one.
Fairness == \A c \in Call : WF_connectorsVars(CallStep(c))

ConnectorsSpec == ConnectorsInit /\ [][ConnectorsNext]_connectorsVars /\ Fairness

-----------------------------------------------------------------------------
(* What the refresh is written for: "a rotating refresh token isn't spent  *)
(* twice" (services/connector_service.py:569), by calls in however many    *)
(* processes and with the user connecting anew at any point.  A stored     *)
(* refresh token is one that the provider still takes, or its replacement  *)
(* is about to be stored by the call that holds the row; only a            *)
(* replacement lost between the provider and the commit breaks that.       *)

TokensKept ==
    /\ reused \subseteq orphaned
    /\ row.refresh \in rotated \ orphaned =>
          \E c \in Call : At(c, {"storing"}) /\ call[c].read = row.refresh

\* A call that began ends, although calls that wait for the lock hold the
\* connections that the one with the lock needs: the pool's timeout makes one
\* of them fail, and the next one goes on.
CallsEnd ==
    \A c \in Call : ~At(c, {"idle"}) ~> At(c, {"over"})

=============================================================================
