--------------------------- MODULE TokenLockProofs ---------------------------
(* Proofs about TokenLock for any number of callers, tokens and leaks.      *)
EXTENDS TokenLock, TLAPS

\* While the refresh goroutine has the lock, nobody reads under it; that is why
\* a login cannot change the token of a call in flight.
Exclusive == refresh \in {"login", "hung"} => Readers = {} /\ leaked = 0

Inv == TypeOK /\ Exclusive /\ HeldTokenIsCurrent

LEMMA InitInv == Init => Inv
<1> SUFFICES ASSUME Init PROVE Inv
  OBVIOUS
<1>1. Readers = {}
  BY DEF Init, Readers
<1>2. jwt \in Token /\ refresh = "sleeping" /\ leaked = 0 /\ expired = FALSE
  BY DEF Init
<1>3. pc \in [Caller \cup Bare -> {"idle", "waiting", "calling", "hung"}]
  BY DEF Init
<1>4. used \in [Caller \cup Bare -> Token]
  BY <1>2 DEF Init
<1>5. leaked \in 0..MaxLeaks
  BY <1>2, TokenLockAssumption
<1>6. TypeOK
  BY <1>2, <1>3, <1>4, <1>5 DEF TypeOK
<1> QED BY <1>1, <1>2, <1>6 DEF Inv, Exclusive, HeldTokenIsCurrent

LEMMA TypeStep == TypeOK /\ [Next]_vars => TypeOK'
<1> SUFFICES ASSUME TypeOK, [Next]_vars PROVE TypeOK'
  OBVIOUS
<1> USE TokenLockAssumption DEF TypeOK
<1>1. ASSUME NEW c \in Caller, RLock(c) \/ RUnlock(c) \/ CallHangs(c)
      PROVE  TypeOK'
  BY <1>1 DEF RLock, RUnlock, CallHangs
<1>2. ASSUME NEW c \in Janitor, ReturnLocked(c) PROVE TypeOK'
  BY <1>2 DEF ReturnLocked
<1>3. ASSUME NEW b \in Bare, BareCall(b) \/ BareReturn(b) PROVE TypeOK'
  BY <1>3 DEF BareCall, BareReturn
<1>4. ASSUME NEW t \in Token, Admit(t)
      PROVE  /\ pc' \in [Caller \cup Bare -> {"idle", "waiting", "calling", "hung"}]
             /\ used' \in [Caller \cup Bare -> Token]
  BY <1>4 DEF Admit
<1>5. CASE Lock \/ Locked \/ LoginHang \/ Expire
  BY <1>5 DEF Lock, Locked, LoginHang, Expire
<1>6. CASE LoginOk \/ LoginError
  BY <1>4, <1>6 DEF LoginOk, LoginError
<1>7. CASE UNCHANGED vars
  BY <1>7 DEF vars
<1> QED BY <1>1, <1>2, <1>3, <1>5, <1>6, <1>7 DEF Next, Return, Refresh

LEMMA LockStep == Inv /\ [Next]_vars => Exclusive' /\ HeldTokenIsCurrent'
<1> SUFFICES ASSUME Inv, [Next]_vars PROVE Exclusive' /\ HeldTokenIsCurrent'
  OBVIOUS
<1> USE TokenLockAssumption DEF Inv, TypeOK, Exclusive, HeldTokenIsCurrent, Readers
<1>1. ASSUME NEW c \in Caller, RLock(c) PROVE Exclusive' /\ HeldTokenIsCurrent'
  BY <1>1 DEF RLock, WriterWaits
<1>2. ASSUME NEW c \in Caller, RUnlock(c) \/ CallHangs(c)
      PROVE  Exclusive' /\ HeldTokenIsCurrent'
  BY <1>2 DEF RUnlock, CallHangs
<1>3. ASSUME NEW c \in Janitor, ReturnLocked(c) PROVE Exclusive' /\ HeldTokenIsCurrent'
  BY <1>3 DEF ReturnLocked
<1>4. ASSUME NEW b \in Bare, BareCall(b) \/ BareReturn(b)
      PROVE  Exclusive' /\ HeldTokenIsCurrent'
  <2>1. b \notin Caller
    OBVIOUS
  <2> QED BY <1>4, <2>1 DEF BareCall, BareReturn
<1>5. CASE Lock \/ Locked \/ LoginHang \/ Expire
  BY <1>5 DEF Lock, Locked, LoginHang, Expire
<1>6. CASE LoginOk
  <2>1. PICK t \in Token : jwt' = t /\ Admit(t)
    BY <1>6 DEF LoginOk
  <2>2. refresh' = "sleeping" /\ Readers = {}
    BY <1>6 DEF LoginOk
  <2>3. ASSUME NEW c \in Caller, pc'[c] \in {"calling", "hung"} PROVE used'[c] = jwt'
    BY <2>1, <2>2, <2>3 DEF Admit
  <2> QED BY <2>2, <2>3
<1>7. CASE LoginError
  BY <1>7 DEF LoginError, Admit
<1>8. CASE UNCHANGED vars
  BY <1>8 DEF vars
<1> QED BY <1>1, <1>2, <1>3, <1>4, <1>5, <1>6, <1>7, <1>8 DEF Next, Return, Refresh

LEMMA InvHolds == Spec => []Inv
<1>1. Inv /\ [Next]_vars => Inv'
  BY TypeStep, LockStep DEF Inv
<1> QED BY InitInv, <1>1, PTL DEF Spec

\* The lock's state keeps its type (TokenLock's TypeOK).
THEOREM TypeCorrect == Spec => []TypeOK
<1>1. Inv => TypeOK
  BY DEF Inv
<1> QED BY InvHolds, <1>1, PTL

\* No refresh changes the token under a call that holds the read lock
\* (TokenLock's HeldTokenIsCurrent).
THEOREM HeldTokenCorrect == Spec => []HeldTokenIsCurrent
<1>1. Inv => HeldTokenIsCurrent
  BY DEF Inv
<1> QED BY InvHolds, <1>1, PTL

-----------------------------------------------------------------------------
\* The token expires only after the timer has fired.
ExpiryInv == expired => refresh # "sleeping"

LEMMA ExpiryStep == TypeOK /\ ExpiryInv /\ [Next]_vars => ExpiryInv'
<1> SUFFICES ASSUME TypeOK, ExpiryInv, [Next]_vars PROVE ExpiryInv'
  OBVIOUS
<1> USE DEF ExpiryInv
<1>1. CASE \E c \in Caller : RLock(c) \/ Return(c) \/ CallHangs(c)
  BY <1>1 DEF RLock, Return, RUnlock, ReturnLocked, CallHangs
<1>2. CASE \E b \in Bare : BareCall(b) \/ BareReturn(b)
  BY <1>2 DEF BareCall, BareReturn
<1>3. CASE Refresh
  BY <1>3 DEF Refresh, Lock, Locked, LoginOk, LoginError
<1>4. CASE Expire \/ LoginHang
  BY <1>4 DEF Expire, LoginHang
<1>5. CASE UNCHANGED vars
  BY <1>5 DEF vars
<1> QED BY <1>1, <1>2, <1>3, <1>4, <1>5, TokenLockAssumption DEF Next

\* The step part of ExpiredOnlyWhileRetrying.
LateStart ==
  \A c \in Caller : pc[c] # "calling" /\ pc'[c] = "calling" /\ expired'
                   => refresh' = "retrying"

LEMMA LateStartStep == TypeOK /\ ExpiryInv /\ [Next]_vars => LateStart
<1> SUFFICES ASSUME TypeOK, ExpiryInv, [Next]_vars,
                    NEW d \in Caller, pc[d] # "calling", pc'[d] = "calling", expired'
             PROVE  refresh' = "retrying"
  BY DEF LateStart
<1> USE TokenLockAssumption DEF TypeOK, ExpiryInv
<1>1. ASSUME NEW c \in Caller, RLock(c) PROVE refresh' = "retrying"
  BY <1>1 DEF RLock, WriterWaits
<1>2. ASSUME NEW c \in Caller, Return(c) \/ CallHangs(c) PROVE refresh' = "retrying"
  BY <1>2 DEF Return, RUnlock, ReturnLocked, CallHangs
<1>3. ASSUME NEW b \in Bare, BareCall(b) \/ BareReturn(b) PROVE refresh' = "retrying"
  <2>1. b # d
    OBVIOUS
  <2> QED BY <1>3, <2>1 DEF BareCall, BareReturn
<1>4. CASE Lock \/ Locked \/ LoginHang \/ Expire
  BY <1>4 DEF Lock, Locked, LoginHang, Expire
<1>5. CASE LoginOk \/ LoginError
  BY <1>5 DEF LoginOk, LoginError
<1>6. CASE UNCHANGED vars
  BY <1>6 DEF vars
<1> QED BY <1>1, <1>2, <1>3, <1>4, <1>5, <1>6 DEF Next, Refresh

\* A call that starts with an expired token starts while the refresh goroutine
\* retries (TokenLock's ExpiredOnlyWhileRetrying), whatever the callers do.
THEOREM ExpiryCorrect == Spec => ExpiredOnlyWhileRetrying
<1>1. Init => TypeOK /\ ExpiryInv
  BY InitInv DEF Inv, Init, ExpiryInv
<1>2. TypeOK /\ ExpiryInv /\ [Next]_vars => (TypeOK /\ ExpiryInv)'
  BY TypeStep, ExpiryStep
<1>3. TypeOK /\ ExpiryInv /\ [Next]_vars => [LateStart]_vars
  BY LateStartStep
<1> QED BY <1>1, <1>2, <1>3, PTL DEF Spec, ExpiredOnlyWhileRetrying, LateStart

-----------------------------------------------------------------------------
\* The refinement mapping of TokenLock's Service: the calls under way.
Calls == [c \in Readers |-> used[c]]

LEMMA ServiceInit == Init => Service!Init
<1> SUFFICES ASSUME Init PROVE Service!Init
  OBVIOUS
<1>1. Readers = {}
  BY DEF Init, Readers
<1> QED BY <1>1 DEF Init, Service!Init

\* One caller begins its call.
LEMMA ServiceBegin ==
  ASSUME TypeOK, NEW c \in Caller, RLock(c)
  PROVE  [Service!Next]_<<jwt, Calls>>
<1> USE TokenLockAssumption DEF TypeOK
<1>1. CASE WriterWaits
  <2>1. Readers' = Readers
    BY <1>1 DEF RLock, Readers
  <2>2. Calls' = Calls /\ jwt' = jwt
    BY <1>1, <2>1 DEF RLock, Calls
  <2> QED BY <2>2
<1>2. CASE ~WriterWaits
  <2>1. Readers' = Readers \cup {c} /\ c \notin Readers
    BY <1>2 DEF RLock, Readers
  <2>2. \A d \in Readers : used'[d] = used[d]
    BY <1>2, <2>1 DEF RLock, Readers
  <2>3. used'[c] = jwt /\ jwt' = jwt
    BY <1>2 DEF RLock
  <2>4. Service!Begin({c})
    BY <2>1, <2>2, <2>3 DEF Service!Begin, Service!Begun
  <2>5. {c} \in SUBSET Caller
    OBVIOUS
  <2> QED BY <2>4, <2>5 DEF Service!Next
<1> QED BY <1>1, <1>2

\* A call ends, with or without its lock.
LEMMA ServiceEnd ==
  ASSUME TypeOK, NEW c \in Caller, Return(c)
  PROVE  [Service!Next]_<<jwt, Calls>>
<1> USE TokenLockAssumption DEF TypeOK
<1>1. Readers' = Readers \ {c} /\ used' = used /\ jwt' = jwt
  BY DEF Return, RUnlock, ReturnLocked, Readers
<1>2. Service!End(c)
  BY <1>1 DEF Service!End
<1> QED BY <1>2 DEF Service!Next

\* A call that hangs goes on for the service.
LEMMA ServiceHang ==
  ASSUME TypeOK, NEW c \in Caller, CallHangs(c)
  PROVE  [Service!Next]_<<jwt, Calls>>
<1>1. Readers' = Readers
  BY DEF CallHangs, Readers, TypeOK
<1>2. Calls' = Calls /\ jwt' = jwt
  BY <1>1 DEF CallHangs, Calls
<1> QED BY <1>2

\* A login ends and the callers that queued begin.
LEMMA ServiceLogin ==
  ASSUME TypeOK, Exclusive, LoginOk \/ LoginError
  PROVE  [Service!Next]_<<jwt, Calls>>
<1> USE TokenLockAssumption DEF TypeOK
<1>0. PICK Q \in SUBSET Caller : Q = {c \in Caller : pc[c] = "waiting"}
  OBVIOUS
<1>1. Readers = {}
  BY DEF LoginOk, LoginError, Exclusive
<1>2. PICK t \in Token : Admit(t) /\ jwt' = t
                        /\ (LoginOk => t # jwt) /\ (~LoginOk => t = jwt)
  BY DEF LoginOk, LoginError
<1>3. Readers' = Q
  BY <1>0, <1>1, <1>2 DEF Admit, Readers
<1>4. \A c \in Q : used'[c] = t
  BY <1>0, <1>2 DEF Admit
<1>5. Calls' = [c \in Q |-> t]
  BY <1>3, <1>4 DEF Calls
<1>6. CASE t # jwt
  <2>1. Service!Renew(Q)
    BY <1>1, <1>2, <1>3, <1>4, <1>6 DEF Service!Renew, Service!Begun
  <2> QED BY <2>1 DEF Service!Next
<1>7. CASE t = jwt
  <2>1. Service!Begin(Q)
    BY <1>1, <1>2, <1>3, <1>4, <1>7 DEF Service!Begin, Service!Begun
  <2> QED BY <2>1 DEF Service!Next
<1> QED BY <1>6, <1>7

LEMMA ServiceStep == Inv /\ [Next]_vars => [Service!Next]_<<jwt, Calls>>
<1> SUFFICES ASSUME Inv, [Next]_vars PROVE [Service!Next]_<<jwt, Calls>>
  OBVIOUS
<1> USE TokenLockAssumption DEF Inv
<1>1. ASSUME NEW c \in Caller, RLock(c) PROVE [Service!Next]_<<jwt, Calls>>
  BY <1>1, ServiceBegin
<1>2. ASSUME NEW c \in Caller, Return(c) PROVE [Service!Next]_<<jwt, Calls>>
  BY <1>2, ServiceEnd
<1>2h. ASSUME NEW c \in Caller, CallHangs(c) PROVE [Service!Next]_<<jwt, Calls>>
  BY <1>2h, ServiceHang
<1>3. ASSUME NEW b \in Bare, BareCall(b) \/ BareReturn(b)
      PROVE  [Service!Next]_<<jwt, Calls>>
  <2>1. b \notin Caller /\ jwt' = jwt
    BY <1>3 DEF BareCall, BareReturn
  <2>2. \A c \in Caller : pc'[c] = pc[c] /\ used'[c] = used[c]
    BY <1>3, <2>1 DEF BareCall, BareReturn, TypeOK
  <2>3. Readers' = Readers
    BY <2>2 DEF Readers
  <2>4. \A c \in Readers : used'[c] = used[c]
    BY <2>2 DEF Readers
  <2> QED BY <2>1, <2>3, <2>4 DEF Calls
<1>4. CASE LoginOk \/ LoginError
  BY <1>4, ServiceLogin
<1>5. CASE Lock \/ Locked \/ LoginHang \/ Expire \/ UNCHANGED vars
  <2>1. pc' = pc /\ used' = used /\ jwt' = jwt
    BY <1>5 DEF Lock, Locked, LoginHang, Expire, vars
  <2>2. Readers' = Readers
    BY <2>1 DEF Readers
  <2> QED BY <2>1, <2>2 DEF Calls
<1> QED BY <1>1, <1>2, <1>2h, <1>3, <1>4, <1>5 DEF Next, Refresh

\* The lock implements the token service (TokenLock's ImplementsService).
THEOREM ServiceCorrect == Spec => ImplementsService
<1>1. Inv /\ [Next]_vars => [Service!Next]_Service!svars
  BY ServiceStep DEF Service!svars, Calls
<1> QED BY InvHolds, ServiceInit, <1>1, PTL DEF Spec, ImplementsService, Service!Spec
=============================================================================
