------------------------------ MODULE TokenLock ------------------------------
(***************************************************************************)
(* The access token of the controller (c.jwt) and the RWMutex around it:   *)
(* the refresh goroutine of New() takes the write lock for its login, every *)
(* Keycloak or device-repository call holds the read lock until it returns, *)
(* and DeleteOutdatedDevices returns with the read lock held if GetUsers    *)
(* fails.  SyncGateway reads the token without the lock.                   *)
(*                                                                         *)
(* Go's sync.RWMutex: a Lock that waits for readers blocks new readers, and *)
(* Unlock lets in every reader that waited.                                *)
(*                                                                         *)
(* A call without a deadline may hang with its lock for good: the login of  *)
(* the refresh goroutine, which gets the context of the process, and calls  *)
(* of the device repository, which get none.                               *)
(***************************************************************************)
EXTENDS Naturals

CONSTANTS
  Caller,     \* goroutines that call with the read lock
  Janitor,    \* those that run DeleteOutdatedDevices
  Bare,       \* goroutines that read the token without the lock (SyncGateway)
  Token,      \* access tokens Keycloak may issue
  GetUsersFails,  \* a janitor's GetUsers may fail
  LoginFails,     \* a login may fail
  LoginHangs,     \* a login may never return
  Unbounded,      \* callers whose call has no deadline
  MaxLeaks    \* bound on read locks that are never released

ASSUME TokenLockAssumption ==
  /\ Janitor \subseteq Caller /\ Unbounded \subseteq Caller
  /\ Caller \cap Bare = {}
  /\ GetUsersFails \in BOOLEAN /\ LoginFails \in BOOLEAN /\ LoginHangs \in BOOLEAN
  /\ MaxLeaks \in Nat

VARIABLES
  pc,        \* of each goroutine: "idle", "waiting" in RLock, "calling", or
             \* "hung" in a call that never returns
  used,      \* the token a goroutine's call carries
  leaked,    \* read locks whose holder has returned
  refresh,   \* refresh goroutine: timer running, timer of 5s running after a
             \* failed login, waiting in Lock, in LoginClient, or hung there
  jwt,       \* c.jwt
  expired    \* c.jwt is past its lifetime

vars == <<pc, used, leaked, refresh, jwt, expired>>

TypeOK ==
  /\ pc \in [Caller \cup Bare -> {"idle", "waiting", "calling", "hung"}]
  /\ used \in [Caller \cup Bare -> Token]
  /\ leaked \in 0..MaxLeaks
  /\ refresh \in {"sleeping", "retrying", "locking", "login", "hung"}
  /\ jwt \in Token
  /\ expired \in BOOLEAN

Readers == {c \in Caller : pc[c] \in {"calling", "hung"}}
WriterWaits == refresh \in {"locking", "login", "hung"}
\* Unlock: the readers that waited hold the lock and read the token.
Admit(token) ==
  /\ pc' = [c \in Caller \cup Bare |->
              IF pc[c] = "waiting" THEN "calling" ELSE pc[c]]
  /\ used' = [c \in Caller \cup Bare |->
                IF pc[c] = "waiting" THEN token ELSE used[c]]

\* Fault: a reader overtakes a writer that waits.
RLockOvertaking(c) ==
  /\ pc[c] = "idle" /\ refresh \notin {"login", "hung"}
  /\ pc' = [pc EXCEPT ![c] = "calling"]
  /\ used' = [used EXCEPT ![c] = jwt]
  /\ UNCHANGED <<leaked, refresh, jwt, expired>>

\* RLock: at once, or after the writer that holds the lock or waits for it.
RLock(c) ==
  /\ pc[c] = "idle"
  /\ \/ /\ WriterWaits
        /\ pc' = [pc EXCEPT ![c] = "waiting"]
        /\ UNCHANGED used
     \/ /\ ~WriterWaits
        /\ pc' = [pc EXCEPT ![c] = "calling"]
        /\ used' = [used EXCEPT ![c] = jwt]
  /\ UNCHANGED <<leaked, refresh, jwt, expired>>

\* The call returns and its goroutine releases the lock.
RUnlock(c) ==
  /\ pc[c] = "calling"
  /\ pc' = [pc EXCEPT ![c] = "idle"]
  /\ UNCHANGED <<used, leaked, refresh, jwt, expired>>

\* The call never returns and keeps the lock.
CallHangs(c) ==
  /\ pc[c] = "calling"
  /\ pc' = [pc EXCEPT ![c] = "hung"]
  /\ UNCHANGED <<used, leaked, refresh, jwt, expired>>

\* DeleteOutdatedDevices: "return err" between RLock and RUnlock.
ReturnLocked(c) ==
  /\ GetUsersFails /\ leaked < MaxLeaks
  /\ pc[c] = "calling"
  /\ pc' = [pc EXCEPT ![c] = "idle"]
  /\ leaked' = leaked + 1
  /\ UNCHANGED <<used, refresh, jwt, expired>>

\* SyncGateway: SetHub with c.jwt.AccessToken and no lock.
BareCall(b) ==
  /\ pc[b] = "idle"
  /\ pc' = [pc EXCEPT ![b] = "calling"]
  /\ used' = [used EXCEPT ![b] = jwt]
  /\ UNCHANGED <<leaked, refresh, jwt, expired>>
BareReturn(b) ==
  /\ pc[b] = "calling"
  /\ pc' = [pc EXCEPT ![b] = "idle"]
  /\ UNCHANGED <<used, leaked, refresh, jwt, expired>>

\* The timer fires, a minute before the token expires or 5s after a failure.
Lock ==
  /\ refresh \in {"sleeping", "retrying"}
  /\ refresh' = "locking"
  /\ UNCHANGED <<pc, used, leaked, jwt, expired>>

\* Fault: the refresh does not wait for the readers.
LockedAtOnce ==
  /\ refresh = "locking"
  /\ refresh' = "login"
  /\ UNCHANGED <<pc, used, leaked, jwt, expired>>

Locked ==
  /\ refresh = "locking"
  /\ Readers = {} /\ leaked = 0
  /\ refresh' = "login"
  /\ UNCHANGED <<pc, used, leaked, jwt, expired>>

LoginOk ==
  /\ refresh = "login"
  /\ \E t \in Token \ {jwt} : jwt' = t /\ Admit(t)
  /\ expired' = FALSE
  /\ refresh' = "sleeping"
  /\ UNCHANGED leaked

\* Fault: the nil token of a failed login is assigned.
LoginErrorAssigns ==
  /\ refresh = "login" /\ LoginFails
  /\ Admit(jwt)
  /\ jwt' = "nil"
  /\ refresh' = "retrying"
  /\ UNCHANGED <<leaked, expired>>
\* Fault: a failed login does not release the lock.
LoginErrorLocked ==
  /\ refresh = "login" /\ LoginFails
  /\ refresh' = "retrying"
  /\ UNCHANGED <<pc, used, leaked, jwt, expired>>

LoginError ==
  /\ refresh = "login" /\ LoginFails
  /\ Admit(jwt)
  /\ refresh' = "retrying"
  /\ UNCHANGED <<leaked, jwt, expired>>

\* LoginClient never returns and the write lock is held for good.
LoginHang ==
  /\ refresh = "login" /\ LoginHangs
  /\ refresh' = "hung"
  /\ UNCHANGED <<pc, used, leaked, jwt, expired>>

\* Time passes: the timer fires well before the token expires.
Expire ==
  /\ ~expired /\ refresh # "sleeping"
  /\ expired' = TRUE
  /\ UNCHANGED <<pc, used, leaked, refresh, jwt>>

Init ==
  /\ pc = [c \in Caller \cup Bare |-> "idle"]
  /\ jwt \in Token
  /\ used = [c \in Caller \cup Bare |-> jwt]
  /\ leaked = 0
  /\ refresh = "sleeping"
  /\ expired = FALSE

Return(c) == RUnlock(c) \/ (c \in Janitor /\ ReturnLocked(c))
Refresh == Lock \/ Locked \/ LoginOk \/ LoginError

Next ==
  \/ \E c \in Caller : RLock(c) \/ Return(c)
  \/ \E b \in Bare : BareCall(b) \/ BareReturn(b)
  \/ \E c \in Unbounded : CallHangs(c)
  \/ Refresh \/ LoginHang
  \/ Expire

Spec == Init /\ [][Next]_vars

\* A call returns unless it hangs, which only calls without a deadline do, and
\* the refresh goroutine runs; nothing makes a goroutine call again.
FairSpec == Spec /\ (\A c \in Caller : WF_vars(Return(c))) /\ WF_vars(Refresh)

-----------------------------------------------------------------------------
\* The token that a call under the read lock carries stays the controller's
\* token until the call returns, whatever refreshes, failed logins and leaked
\* locks come between (jwtMux around every GetUsers, ListHubs, ...).
HeldTokenIsCurrent == \A c \in Readers : used[c] = jwt

\* The lock implements the token service: a call begins with the current token,
\* the token changes only when no call is under way, and callers that queued
\* during a login begin with its result (jwtMux and the refresh of New()).
Service == INSTANCE TokenService
             WITH current <- jwt, carried <- [c \in Readers |-> used[c]]
ImplementsService == Service!Spec

\* A call under the lock starts with an expired token only while the refresh
\* goroutine retries a failed login: readers queue behind a due refresh.
ExpiredOnlyWhileRetrying ==
  [][\A c \in Caller : pc[c] # "calling" /\ pc'[c] = "calling" /\ expired'
                       => refresh' = "retrying"]_vars

\* A lock that is never given back: DeleteOutdatedDevices has returned with it, or
\* its holder hangs in a call without a deadline.
LockLost == leaked > 0 \/ refresh = "hung" \/ \E c \in Caller : pc[c] = "hung"

\* Every caller that asks for the read lock gets to make its call, however often
\* logins fail, if no lock is lost: neither leaked by DeleteOutdatedDevices nor held
\* by a login (controller.go:118) or a call of the device repository that hangs
\* (RLock around every call).
CallersServed ==
  \A c \in Caller : pc[c] = "waiting" ~> pc[c] = "calling" \/ LockLost

\* A refresh that is due ends in a login that gives the lock back, however busy
\* the readers are, if no lock is lost and the login itself returns: it has no
\* timeout of its own ("setup token refresh").
RefreshCompletes ==
  refresh = "locking" ~> refresh \in {"sleeping", "retrying"} \/ LockLost
=============================================================================
