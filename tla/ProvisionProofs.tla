--------------------------- MODULE ProvisionProofs ---------------------------
(***************************************************************************)
(* Proofs about Provision for any number of accounts, emails, concurrent   *)
(* callers, restarts and failing calls.                                    *)
(***************************************************************************)
EXTENDS Provision, TLAPS

\* What the pc of a goroutine says about the ids it holds.
LocalOK(g, p) ==
  /\ p.pc = "idle" => p.op = "none"
  /\ p.op = "provision" => p.sub # None
  /\ p.pc \in {"member", "addMember", "integration", "deleteIntegration",
               "createIntegration"} => p.op = "provision"
  /\ p.pc \in {"assign", "readCtx", "deleteUser", "deleteTenant"}
       => p.op = "delete"
  /\ p.op = "delete" => g[1] \in Syncer
  /\ p.pc \in {"updateTenant", "member", "addMember", "app", "createApp",
               "deleteUser", "deleteTenant"} => p.tid # None
  /\ /\ p.pc \in {"tenant", "createTenant", "updateTenant", "member",
                  "addMember", "deleteUser"}
     /\ p.op \in {"provision", "delete"}
     => p.uid # None

LocalsOK == \A g \in Goroutine : LocalOK(g, proc[g])

\* TypeOK is not inductive: AddMember stores the ids the goroutine holds.
TypeInv == TypeOK /\ LocalsOK

StoreType ==
  /\ user \in [Email -> UserId \cup {None}]
  /\ tenant \in [TenantId -> Email \cup {None}]
  /\ members \subseteq TenantId \X UserId
  /\ app \in [AppId -> TenantId \cup {None}]
  /\ integ \in [AppId -> Integration \cup {None}]
ProcInv == proc \in [Goroutine -> Worker] /\ LocalsOK
RestType ==
  /\ kc \in [Sub -> Email \cup {Absent, Deleted, NoEmail}]
  /\ run \in [Syncer -> Run]
  /\ cached \in [Sub -> Email \cup {None}]
  /\ endpoint \in Endpoint
  /\ serving \in BOOLEAN
  /\ changes \in 0..MaxChanges
  /\ crashes \in 0..MaxCrashes

LEMMA TypeParts == TypeInv <=> StoreType /\ ProcInv /\ RestType
BY DEF TypeInv, TypeOK, StoreType, ProcInv, RestType

LEMMA TypePartsPrime == TypeInv' <=> StoreType' /\ ProcInv' /\ RestType'
BY DEF TypeInv, TypeOK, StoreType, ProcInv, RestType

\* A goroutine that replaces its record by one that is in order leaves all
\* records in order; so does one whose call fails.
LEMMA MoveOn ==
  ASSUME NEW g \in Goroutine, NEW l, l \in Worker, LocalOK(g, l), ProcInv,
         proc' = [proc EXCEPT ![g] = l]
  PROVE  ProcInv'
BY DEF ProcInv, LocalsOK

LEMMA Fail ==
  ASSUME NEW g \in Goroutine, ProcInv,
         proc' = [proc EXCEPT ![g].pc = "error"]
  PROVE  ProcInv'
BY DEF ProcInv, LocalsOK, LocalOK, Worker, Pc

LEMMA ReplyMoves ==
  ASSUME NEW g \in Goroutine, NEW l, l \in Worker, LocalOK(g, l), ProcInv,
         Reply(g, l)
  PROVE  ProcInv'
BY MoveOn, Fail DEF Reply

-----------------------------------------------------------------------------
(* The goroutines' records.                                                *)

LEMMA IdleOK ==
  ASSUME NEW g \in Goroutine
  PROVE  Idle \in Worker /\ LocalOK(g, Idle)
BY DEF Idle, Worker, Pc, Op, LocalOK

LEMMA StartedOK ==
  ASSUME NEW g \in Goroutine,
         NEW o \in {"provision", "device", "gateway", "delete"},
         NEW p \in {"user", "tenant", "assign"},
         NEW s \in Sub \cup {None}, NEW u \in UserId \cup {None},
         o = "provision" => s # None,
         p = "tenant" /\ o = "provision" => u # None,
         p = "assign" <=> o = "delete",
         o = "delete" => g[1] \in Syncer
  PROVE  Started(o, p, s, u) \in Worker /\ LocalOK(g, Started(o, p, s, u))
BY DEF Started, Idle, Worker, Pc, CallPc, Op, LocalOK

LEMMA AfterTenantOK ==
  ASSUME NEW o \in Op
  PROVE  /\ AfterTenant(o) \in {"member", "app", "ok", "deleteUser", "error"}
         /\ AfterTenant(o) = "member" => o = "provision"
         /\ AfterTenant(o) = "deleteUser" => o = "delete"
BY DEF AfterTenant, Op

LEMMA TenantGoesOn ==
  ASSUME NEW g \in Goroutine, NEW p \in Worker, LocalOK(g, p),
         p.pc \in {"tenant", "createTenant", "updateTenant"},
         NEW t \in TenantId
  PROVE  LET l == [p EXCEPT !.tid = t, !.pc = AfterTenant(p.op)]
             m == [p EXCEPT !.tid = t, !.pc = "updateTenant"]
         IN  /\ l \in Worker /\ LocalOK(g, l)
             /\ m \in Worker /\ LocalOK(g, m)
<1> DEFINE a == AfterTenant(p.op)
<1>1. /\ a \in Pc
      /\ a \in {"member", "app", "ok", "deleteUser", "error"}
      /\ a = "member" => p.op = "provision"
      /\ a = "deleteUser" => p.op = "delete"
  BY AfterTenantOK DEF Worker, Pc, CallPc
<1> HIDE DEF a
<1>2. [p EXCEPT !.tid = t, !.pc = a] \in Worker
  BY <1>1 DEF Worker
<1>3. LocalOK(g, [p EXCEPT !.tid = t, !.pc = a])
  BY <1>1, IdAssumption DEF Worker, LocalOK
<1>4. [p EXCEPT !.tid = t, !.pc = "updateTenant"] \in Worker
  BY DEF Worker, Pc, CallPc
<1>5. LocalOK(g, [p EXCEPT !.tid = t, !.pc = "updateTenant"])
  BY IdAssumption DEF Worker, LocalOK
<1> QED BY <1>2, <1>3, <1>4, <1>5 DEF a

LEMMA WorkProc ==
  ASSUME TypeInv, NEW g \in Goroutine, Work(g)
  PROVE  ProcInv'
<1> DEFINE p == proc[g]
<1>a. /\ ProcInv /\ StoreType
      /\ p \in Worker /\ LocalOK(g, p) /\ p.op \in Op
      /\ g[2] \in Email
  BY DEF TypeInv, TypeOK, StoreType, ProcInv, LocalsOK, Worker, Goroutine
<1> USE IdAssumption DEF At, Goto
<1>1. CASE FindUser(g)
  <2>1. CASE user[g[2]] # None
    <3> DEFINE l == [p EXCEPT !.uid = user[g[2]], !.pc = "tenant"]
    <3>1. l \in Worker /\ LocalOK(g, l)
      BY <1>1, <1>a, <2>1 DEF FindUser, StoreType, Worker, Pc, CallPc, LocalOK
    <3> QED BY <1>1, <1>a, <2>1, <3>1, ReplyMoves DEF FindUser
  <2>2. CASE user[g[2]] = None
    <3>1. Goto(g, "createUser") \in Worker /\ LocalOK(g, Goto(g, "createUser"))
      BY <1>1, <1>a DEF FindUser, Worker, Pc, CallPc, LocalOK
    <3> QED BY <1>1, <1>a, <2>2, <3>1, ReplyMoves DEF FindUser
  <2> QED BY <2>1, <2>2
<1>2. CASE CreateUser(g)
  <2>1. ASSUME NEW u \in UserId, Reply(g, [p EXCEPT !.uid = u, !.pc = "tenant"])
        PROVE  ProcInv'
    <3>1. /\ [p EXCEPT !.uid = u, !.pc = "tenant"] \in Worker
          /\ LocalOK(g, [p EXCEPT !.uid = u, !.pc = "tenant"])
      BY <1>2, <1>a DEF CreateUser, Worker, Pc, CallPc, LocalOK
    <3> QED BY <2>1, <3>1, <1>a, ReplyMoves
  <2> QED BY <1>2, <1>a, <2>1, Fail DEF CreateUser
<1>3. CASE FindTenant(g)
  <2>1. CASE Reply(g, Goto(g, "createTenant"))
    <3>1. /\ Goto(g, "createTenant") \in Worker
          /\ LocalOK(g, Goto(g, "createTenant"))
      BY <1>3, <1>a DEF FindTenant, Worker, Pc, CallPc, LocalOK
    <3> QED BY <2>1, <3>1, <1>a, ReplyMoves
  <2>2. CASE proc' = [proc EXCEPT ![g].pc = "error"]
    BY <2>2, <1>a, Fail
  <2>3. ASSUME NEW t \in TenantId,
               Reply(g, [proc[g] EXCEPT !.tid = t,
                           !.pc = IF UpdateTenants THEN "updateTenant"
                                  ELSE AfterTenant(proc[g].op)])
        PROVE  ProcInv'
    <3>1. p.pc = "tenant"
      BY <1>3 DEF FindTenant
    <3>2. CASE UpdateTenants
      <4>1. Reply(g, [proc[g] EXCEPT !.tid = t, !.pc = "updateTenant"])
        BY <2>3, <3>2
      <4> QED BY <3>1, <4>1, <1>a, TenantGoesOn, ReplyMoves
    <3>3. CASE ~UpdateTenants
      <4>1. Reply(g, [proc[g] EXCEPT !.tid = t, !.pc = AfterTenant(proc[g].op)])
        BY <2>3, <3>3
      <4> QED BY <3>1, <4>1, <1>a, TenantGoesOn, ReplyMoves
    <3> QED BY <3>2, <3>3
  <2> QED BY <1>3, <2>1, <2>2, <2>3 DEF FindTenant, Matches
<1>4. CASE CreateTenant(g)
  <2>1. PICK t \in TenantId :
          Reply(g, [proc[g] EXCEPT !.tid = t, !.pc = AfterTenant(proc[g].op)])
    BY <1>4 DEF CreateTenant
  <2> QED BY <1>4, <2>1, <1>a, TenantGoesOn, ReplyMoves DEF CreateTenant
<1>5. CASE UpdateTenant(g)
  <2>1. CASE proc' = [proc EXCEPT ![g].pc = "error"]
    BY <2>1, <1>a, Fail
  <2>2. CASE Reply(g, Goto(g, AfterTenant(proc[g].op)))
    <3>1. p.tid \in TenantId /\ p.pc = "updateTenant"
      BY <1>5, <1>a DEF UpdateTenant, Worker, LocalOK
    <3>2. Goto(g, AfterTenant(p.op))
            = [p EXCEPT !.tid = p.tid, !.pc = AfterTenant(p.op)]
      BY <1>a DEF Worker
    <3>3. /\ Goto(g, AfterTenant(p.op)) \in Worker
          /\ LocalOK(g, Goto(g, AfterTenant(p.op)))
      BY <3>1, <3>2, <1>a, TenantGoesOn
    <3> QED BY <2>2, <3>3, <1>a, ReplyMoves
  <2> QED BY <1>5, <2>1, <2>2 DEF UpdateTenant
<1>6. CASE GetMember(g)
  BY <1>6, <1>a, ReplyMoves DEF GetMember, Worker, Pc, CallPc, LocalOK
<1>7. CASE AddMember(g)
  BY <1>7, <1>a, ReplyMoves, Fail DEF AddMember, Worker, Pc, CallPc, LocalOK
<1>8. CASE FindApp(g)
  <2>1. ASSUME NEW a \in AppId,
               Reply(g, [p EXCEPT !.aid = a, !.pc = AfterApp(p.op)])
        PROVE  ProcInv'
    <3>1. /\ [p EXCEPT !.aid = a, !.pc = AfterApp(p.op)] \in Worker
          /\ LocalOK(g, [p EXCEPT !.aid = a, !.pc = AfterApp(p.op)])
      BY <1>8, <1>a DEF FindApp, AfterApp, Worker, Pc, CallPc, LocalOK
    <3> QED BY <2>1, <3>1, <1>a, ReplyMoves
  <2>2. CASE Reply(g, Goto(g, "createApp"))
    <3>1. Goto(g, "createApp") \in Worker /\ LocalOK(g, Goto(g, "createApp"))
      BY <1>8, <1>a DEF FindApp, Worker, Pc, CallPc, LocalOK
    <3> QED BY <2>2, <3>1, <1>a, ReplyMoves
  <2> QED BY <1>8, <1>a, <2>1, <2>2, Fail DEF FindApp, AppsOf
<1>9. CASE CreateApp(g)
  <2>1. ASSUME NEW a \in AppId,
               Reply(g, [p EXCEPT !.aid = a, !.pc = AfterApp(p.op)])
        PROVE  ProcInv'
    <3>1. /\ [p EXCEPT !.aid = a, !.pc = AfterApp(p.op)] \in Worker
          /\ LocalOK(g, [p EXCEPT !.aid = a, !.pc = AfterApp(p.op)])
      BY <1>9, <1>a DEF CreateApp, AfterApp, Worker, Pc, CallPc, LocalOK
    <3> QED BY <2>1, <3>1, <1>a, ReplyMoves
  <2> QED BY <1>9, <1>a, <2>1, Fail DEF CreateApp
<1>10. CASE GetIntegration(g)
  BY <1>10, <1>a, ReplyMoves DEF GetIntegration, Worker, Pc, CallPc, LocalOK
<1>11. CASE DeleteIntegration(g)
  BY <1>11, <1>a, ReplyMoves, Fail
     DEF DeleteIntegration, Worker, Pc, CallPc, LocalOK
<1>12. CASE CreateIntegration(g)
  BY <1>12, <1>a, ReplyMoves, Fail
     DEF CreateIntegration, Worker, Pc, CallPc, LocalOK
<1>13. CASE AssignCtx(g)
  <2>1. Goto(g, "readCtx") \in Worker /\ LocalOK(g, Goto(g, "readCtx"))
    BY <1>13, <1>a DEF AssignCtx, Worker, Pc, LocalOK
  <2> QED BY <1>13, <1>a, <2>1, MoveOn DEF AssignCtx
<1>14. CASE ReadCtx(g)
  <2>1. PICK c \in {g[2], run[g[1]].ctxVar} :
               proc' = [proc EXCEPT ![g].pc = "user", ![g].ctx = c]
    BY <1>14 DEF ReadCtx
  <2>2. c \in Email \cup {None}
    <3>1. g[1] \in Syncer
      BY <1>14, <1>a DEF ReadCtx, LocalOK
    <3> QED BY <3>1, <1>a, <2>1 DEF TypeInv, TypeOK, Run
  <2>3. [p EXCEPT !.pc = "user", !.ctx = c] \in Worker
    BY <1>a, <2>2 DEF Worker, Pc, CallPc
  <2>4. LocalOK(g, [p EXCEPT !.pc = "user", !.ctx = c])
    BY <1>14, <1>a DEF ReadCtx, Worker, LocalOK
  <2>5. proc' = [proc EXCEPT ![g] = [p EXCEPT !.pc = "user", !.ctx = c]]
    BY <2>1, <1>a DEF ProcInv
  <2> QED BY <1>a, <2>3, <2>4, <2>5, MoveOn
<1>15. CASE DeleteUser(g)
  BY <1>15, <1>a, ReplyMoves, Fail DEF DeleteUser, Worker, Pc, CallPc, LocalOK
<1>16. CASE DeleteTenant(g)
  BY <1>16, <1>a, ReplyMoves, Fail DEF DeleteTenant, Worker, Pc, CallPc, LocalOK
<1>17. CASE EndDelete(g)
  BY <1>17, <1>a, MoveOn, IdleOK DEF EndDelete
<1>18. CASE EndProvision(g)
  BY <1>18, <1>a, MoveOn, IdleOK DEF EndProvision
<1>19. CASE CallError(g)
  BY <1>19, <1>a, Fail DEF CallError
<1> QED BY <1>1, <1>2, <1>3, <1>4, <1>5, <1>6, <1>7, <1>8, <1>9, <1>10, <1>11,
           <1>12, <1>13, <1>14, <1>15, <1>16, <1>17, <1>18, <1>19 DEF Work

-----------------------------------------------------------------------------
(* The stores and the sync runs.                                           *)

LEMMA WorkStore ==
  ASSUME TypeInv, NEW g \in Goroutine, Work(g)
  PROVE  StoreType'
<1> DEFINE p == proc[g]
<1>a. /\ StoreType /\ p \in Worker /\ LocalOK(g, p)
      /\ g[2] \in Email
  BY DEF TypeInv, TypeOK, StoreType, LocalsOK, Goroutine
<1>b. CASE UNCHANGED chirp
  BY <1>b, <1>a DEF StoreType, chirp
<1>2. CASE CreateUser(g)
  BY <1>2, <1>a DEF CreateUser, StoreType
<1>4. CASE CreateTenant(g)
  BY <1>4, <1>a DEF CreateTenant, StoreType
<1>5. CASE UpdateTenant(g)
  BY <1>5, <1>a DEF UpdateTenant, StoreType
<1>7. CASE AddMember(g)
  <2>1. p.tid \in TenantId /\ p.uid \in UserId
    BY <1>7, <1>a DEF AddMember, At, Worker, LocalOK
  <2> QED BY <1>7, <1>a, <2>1 DEF AddMember, StoreType
<1>9. CASE CreateApp(g)
  BY <1>9, <1>a DEF CreateApp, StoreType, Worker
<1>11. CASE DeleteIntegration(g)
  BY <1>11, <1>a DEF DeleteIntegration, StoreType
<1>12. CASE CreateIntegration(g)
  <2>1. p.sub \in Sub
    BY <1>12, <1>a DEF CreateIntegration, At, Worker, LocalOK
  <2>2. [sub |-> p.sub, endpoint |-> endpoint] \in Integration
    BY <2>1 DEF TypeInv, TypeOK, Integration
  <2> QED BY <1>12, <1>a, <2>2 DEF CreateIntegration, StoreType
<1>15. CASE DeleteUser(g)
  BY <1>15, <1>a DEF DeleteUser, StoreType
<1>16. CASE DeleteTenant(g)
  BY <1>16, <1>a DEF DeleteTenant, StoreType
<1> QED BY <1>b, <1>2, <1>4, <1>5, <1>7, <1>9, <1>11, <1>12, <1>15, <1>16
        DEF Work, FindUser, FindTenant, GetMember, FindApp, GetIntegration,
            AssignCtx, ReadCtx, EndDelete, EndProvision, CallError

LEMMA WorkRest ==
  ASSUME TypeInv, NEW g \in Goroutine, Work(g)
  PROVE  RestType'
<1>a. RestType /\ g[2] \in Email
  BY DEF TypeInv, TypeOK, RestType, Goroutine
<1>1. UNCHANGED <<kc, config, changes>>
  BY DEF Work, FindUser, CreateUser, FindTenant, CreateTenant, UpdateTenant,
     GetMember, AddMember, FindApp, CreateApp, GetIntegration,
     DeleteIntegration, CreateIntegration, AssignCtx, ReadCtx, DeleteUser,
     DeleteTenant, EndDelete, EndProvision, CallError
<1>2. run' \in [Syncer -> Run]
  <2> DEFINE s == g[1]
             r == run[s]
  <2>a. ASSUME s \in Syncer PROVE r \in Run
    BY <2>a, <1>a DEF RestType
  <2>1. CASE UNCHANGED run
    BY <2>1, <1>a DEF RestType
  <2>2. CASE AssignCtx(g)
    <3>1. s \in Syncer
      BY <2>2 DEF AssignCtx, At, TypeInv, LocalsOK, LocalOK
    <3>2. [r EXCEPT !.ctxVar = g[2]] \in Run
      BY <3>1, <2>a, <1>a DEF Run
    <3> QED BY <2>2, <3>1, <3>2, <1>a DEF AssignCtx, RestType
  <2>3. CASE ReadCtx(g)
    <3>1. s \in Syncer
      BY <2>3 DEF ReadCtx, At, TypeInv, LocalsOK, LocalOK
    <3>2. [r EXCEPT !.cfVar = g[2]] \in Run
      BY <3>1, <2>a, <1>a DEF Run
    <3> QED BY <2>3, <3>1, <3>2, <1>a DEF ReadCtx, RestType
  <2>4. CASE EndDelete(g)
    <3>1. s \in Syncer
      BY <2>4 DEF EndDelete, TypeInv, LocalsOK, LocalOK
    <3>2. PICK c \in {g[2], r.cfVar} :
            run' = [run EXCEPT ![s].err = @ \/ At(g, "error"),
                               ![s].cancelled = @ \cup {c}]
      BY <2>4 DEF EndDelete
    <3> DEFINE b == r.err \/ At(g, "error")
               C == r.cancelled \cup {c}
    <3>3. b \in BOOLEAN
      BY Zenon
    <3>4. C \in SUBSET (Email \cup {None})
      BY <3>1, <3>2, <2>a, <1>a DEF Run
    <3>5. run' = [run EXCEPT ![s] = [r EXCEPT !.err = b, !.cancelled = C]]
      BY <3>1, <3>2, <1>a, Zenon DEF RestType
    <3> HIDE DEF b, C
    <3>6. [r EXCEPT !.err = b, !.cancelled = C] \in Run
      BY <3>1, <3>3, <3>4, <2>a DEF Run
    <3> QED BY <3>1, <3>5, <3>6, <1>a DEF RestType
  <2>5. CASE EndProvision(g)
    <3>1. CASE s \notin Syncer
      BY <2>5, <3>1, <1>a DEF EndProvision, RestType
    <3>2. CASE s \in Syncer
      <4> DEFINE b == r.err \/ At(g, "error")
      <4>1. b \in BOOLEAN
        BY Zenon
      <4>2. run' = [run EXCEPT ![s] = [r EXCEPT !.err = b]]
        BY <2>5, <3>2, <1>a, Zenon DEF EndProvision, RestType
      <4> HIDE DEF b
      <4>3. [r EXCEPT !.err = b] \in Run
        BY <3>2, <4>1, <2>a DEF Run
      <4> QED BY <3>2, <4>2, <4>3, <1>a DEF RestType
    <3> QED BY <3>1, <3>2
  <2> QED BY <2>1, <2>2, <2>3, <2>4, <2>5
          DEF Work, FindUser, CreateUser, FindTenant, CreateTenant,
              UpdateTenant, GetMember, AddMember, FindApp, CreateApp,
              GetIntegration, DeleteIntegration, CreateIntegration,
              DeleteUser, DeleteTenant, CallError
<1> QED BY <1>a, <1>1, <1>2 DEF RestType, config

LEMMA DisturbType ==
  ASSUME run \in [Syncer -> Run]
  PROVE  Disturb(run) \in [Syncer -> Run]
BY DEF Disturb, Run

LEMMA NoRunType ==
  /\ NoRun \in Run
  /\ \A b \in BOOLEAN : [NoRun EXCEPT !.pc = "list", !.quiet = b] \in Run
BY DEF NoRun, Run, RunPc

LEMMA RunStep ==
  ASSUME RestType, NEW s \in Syncer, NEW r \in Run,
         run' = [run EXCEPT ![s] = r]
  PROVE  run' \in [Syncer -> Run]
BY DEF RestType

LEMMA SyncType ==
  ASSUME TypeInv, NEW s \in Syncer, StartSync(s) \/ SyncStep(s)
  PROVE  TypeInv'
<1> DEFINE r == run[s]
<1>a. StoreType /\ ProcInv /\ RestType /\ r \in Run
  BY TypeParts DEF RestType
<1>b. StoreType'
  <2>1. UNCHANGED chirp
    BY DEF StartSync, SyncStep, ListAccounts, WaitProvisioned,
       SnapshotAccounts, ListChirpUsers, WaitDeleted
  <2> QED BY <2>1, <1>a DEF StoreType, chirp
<1>c. ProcInv'
  <2>1. CASE UNCHANGED proc
    BY <2>1, <1>a DEF ProcInv, LocalsOK
  <2>2. CASE ListAccounts(s)
    <3>1. ASSUME NEW A \in Pages,
                 proc' = [g \in Goroutine |->
                   IF g[1] = s /\ \E a \in A : kc[a] = g[2]
                   THEN Started("provision", "user",
                                CHOOSE a \in A : kc[a] = g[2], None)
                   ELSE proc[g]]
          PROVE  ProcInv'
      <4>1. ASSUME NEW g \in Goroutine
            PROVE  proc'[g] \in Worker /\ LocalOK(g, proc'[g])
        <5>1. CASE g[1] = s /\ \E a \in A : kc[a] = g[2]
          <6> DEFINE a == CHOOSE a \in A : kc[a] = g[2]
          <6>1. a \in Sub /\ a # None
            BY <5>1, IdAssumption DEF Pages
          <6>2. proc'[g] = Started("provision", "user", a, None)
            BY <3>1, <5>1
          <6> HIDE DEF a
          <6> QED BY <6>1, <6>2, StartedOK
        <5>2. CASE ~(g[1] = s /\ \E a \in A : kc[a] = g[2])
          BY <3>1, <5>2, <1>a DEF ProcInv, LocalsOK
        <5> QED BY <5>1, <5>2
      <4> QED BY <3>1, <4>1 DEF ProcInv, LocalsOK
    <3> QED BY <2>2, <3>1, <2>1 DEF ListAccounts
  <2>3. CASE ListChirpUsers(s)
    <3>1. CASE UNCHANGED proc
      BY <3>1, <2>1
    <3>2. CASE proc' = [g \in Goroutine |->
             IF /\ g[1] = s
                /\ user[g[2]] # None
                /\ g[2] \notin Protected \cup run[s].seen
             THEN Started("delete", "assign", None, None)
             ELSE proc[g]]
      <4>1. ASSUME NEW g \in Goroutine
            PROVE  proc'[g] \in Worker /\ LocalOK(g, proc'[g])
        <5>1. g[1] = s => /\ Started("delete", "assign", None, None) \in Worker
                          /\ LocalOK(g, Started("delete", "assign", None, None))
          BY StartedOK
        <5> QED BY <3>2, <5>1, <1>a DEF ProcInv, LocalsOK
      <4> QED BY <3>2, <4>1 DEF ProcInv, LocalsOK
    <3> QED BY <2>3, <3>1, <3>2 DEF ListChirpUsers
  <2> QED BY <2>1, <2>2, <2>3
          DEF StartSync, SyncStep, WaitProvisioned, SnapshotAccounts, WaitDeleted
<1>d. RestType'
  <2>1. ASSUME NEW f \in BOOLEAN, Finish(s, f)
        PROVE  run' \in [Syncer -> Run] /\ serving' \in BOOLEAN
    <3> DEFINE b == r.err \/ f
    <3>1. b \in BOOLEAN
      BY Zenon
    <3>2. run' = [run EXCEPT ![s] = [r EXCEPT !.pc = "done", !.err = b,
                   !.seen = {}, !.ctxVar = None, !.cfVar = None,
                   !.cancelled = {}]]
      BY <2>1, <1>a, Zenon DEF Finish, RestType
    <3> HIDE DEF b
    <3>3. [r EXCEPT !.pc = "done", !.err = b, !.seen = {}, !.ctxVar = None,
                    !.cfVar = None, !.cancelled = {}] \in Run
      BY <3>1, <1>a DEF Run, RunPc
    <3>4. serving' \in BOOLEAN
      BY <2>1 DEF Finish
    <3> QED BY <3>2, <3>3, <3>4, <1>a, RunStep
  <2>2. CASE StartSync(s)
    <3>1. Alone(s) \in BOOLEAN
      BY Zenon DEF Alone
    <3>2. [NoRun EXCEPT !.pc = "list", !.quiet = Alone(s)] \in Run
      BY <3>1, NoRunType
    <3> QED BY <2>2, <3>2, <1>a, DisturbType DEF StartSync, RestType, config
  <2>3. CASE ListAccounts(s)
    <3>1. ASSUME NEW A \in Pages,
                 run' = [run EXCEPT ![s].pc = "provisioning",
                       ![s].err = @ \/ \E a \in A : kc[a] = NoEmail]
          PROVE  run' \in [Syncer -> Run]
      <4> DEFINE b == r.err \/ \E a \in A : kc[a] = NoEmail
      <4>1. b \in BOOLEAN
        BY Zenon
      <4>2. run' = [run EXCEPT ![s] = [r EXCEPT !.pc = "provisioning", !.err = b]]
        BY <3>1, <1>a, Zenon DEF RestType
      <4> HIDE DEF b
      <4>3. [r EXCEPT !.pc = "provisioning", !.err = b] \in Run
        BY <4>1, <1>a DEF Run, RunPc
      <4> QED BY <4>2, <4>3, <1>a, RunStep
    <3>2. ASSUME run' = [run EXCEPT ![s].pc = "listDelete", ![s].err = TRUE]
          PROVE  run' \in [Syncer -> Run]
      <4>1. [r EXCEPT !.pc = "listDelete", !.err = TRUE] \in Run
        BY <1>a DEF Run, RunPc
      <4>2. run' = [run EXCEPT ![s] = [r EXCEPT !.pc = "listDelete", !.err = TRUE]]
        BY <3>2, <1>a, Zenon DEF RestType
      <4> QED BY <4>1, <4>2, <1>a, RunStep
    <3>3. run' \in [Syncer -> Run]
      <4>1. \/ \E A \in Pages :
                 run' = [run EXCEPT ![s].pc = "provisioning",
                           ![s].err = @ \/ \E a \in A : kc[a] = NoEmail]
            \/ run' = [run EXCEPT ![s].pc = "listDelete", ![s].err = TRUE]
        BY <2>3, Zenon DEF ListAccounts
      <4> QED BY <3>1, <3>2, <4>1, Zenon
    <3> QED BY <2>3, <3>3, <1>a DEF ListAccounts, RestType, config
  <2>4. CASE WaitProvisioned(s)
    <3>1. [r EXCEPT !.pc = "listDelete"] \in Run
      BY <1>a DEF Run, RunPc
    <3> QED BY <2>4, <3>1, <1>a DEF WaitProvisioned, RestType, config
  <2>5. CASE SnapshotAccounts(s)
    <3>1. ASSUME NEW A \in Pages,
                 run' = [run EXCEPT ![s].pc = "listChirp",
                                ![s].seen = {kc[a] : a \in A} \cap Email]
          PROVE  run' \in [Syncer -> Run]
      <4> DEFINE S == {kc[a] : a \in A} \cap Email
      <4>1. S \in SUBSET Email
        OBVIOUS
      <4> HIDE DEF S
      <4>2. [r EXCEPT !.pc = "listChirp", !.seen = S] \in Run
        BY <4>1, <1>a DEF Run, RunPc
      <4>3. run' = [run EXCEPT ![s] = [r EXCEPT !.pc = "listChirp", !.seen = S]]
        BY <3>1, <1>a DEF RestType, S
      <4> QED BY <4>2, <4>3, <1>a, RunStep
    <3> QED BY <2>5, <3>1, <2>1, <1>a DEF SnapshotAccounts, RestType
  <2>6. CASE ListChirpUsers(s)
    <3>1. [r EXCEPT !.pc = "deleting"] \in Run
      BY <1>a DEF Run, RunPc
    <3> QED BY <2>6, <3>1, <2>1, <1>a DEF ListChirpUsers, RestType
  <2>7. CASE WaitDeleted(s)
    BY <2>7, <2>1, <1>a DEF WaitDeleted, RestType
  <2> QED BY <2>2, <2>3, <2>4, <2>5, <2>6, <2>7 DEF SyncStep
<1> QED BY <1>b, <1>c, <1>d, TypePartsPrime

LEMMA EnvironmentType ==
  ASSUME TypeInv,
         \/ \E s \in Sub, x \in Email \cup {Deleted, NoEmail} : SetAccount(s, x)
         \/ \E s \in Sub, u \in UserId : Register(s, u)
         \/ \E s \in Sub, d \in Device : ResolveDevice(d, s)
         \/ \E s \in Sub : CacheExpires(s)
         \/ \E s \in Sub, w \in Gateway : ResolveGateway(w, s)
         \/ Restart
  PROVE  TypeInv'
<1>a. StoreType /\ ProcInv /\ RestType
  BY TypeParts
<1>b. ASSUME run' = Disturb(run) PROVE run' \in [Syncer -> Run]
  BY <1>a, <1>b, DisturbType DEF RestType
<1>c. ASSUME NEW g \in Goroutine, NEW o \in {"provision", "device", "gateway"},
             NEW s \in Sub, NEW u \in UserId \cup {None},
             o = "provision" => u # None,
             proc' = [proc EXCEPT ![g] = Started(o, "tenant", s, u)]
      PROVE  ProcInv'
  <2>1. s # None
    BY IdAssumption
  <2>2. Started(o, "tenant", s, u) \in Worker /\ LocalOK(g, Started(o, "tenant", s, u))
    BY <1>c, <2>1, StartedOK
  <2> QED BY <1>a, <1>c, <2>2, MoveOn
<1>d. ASSUME UNCHANGED proc PROVE ProcInv'
  BY <1>a, <1>d DEF ProcInv, LocalsOK
<1>1. ASSUME NEW s \in Sub, NEW x \in Email \cup {Deleted, NoEmail}, SetAccount(s, x)
      PROVE  TypeInv'
  <2>1. StoreType' /\ ProcInv'
    BY <1>1, <1>a, <1>d DEF SetAccount, StoreType, chirp
  <2>2. RestType'
    BY <1>1, <1>a, <1>b, BoundAssumption DEF SetAccount, RestType, config
  <2> QED BY <2>1, <2>2, TypePartsPrime
<1>2. ASSUME NEW s \in Sub, NEW u \in UserId, Register(s, u)
      PROVE  TypeInv'
  <2>1. StoreType'
    BY <1>2, <1>a DEF Register, StoreType
  <2>2. ProcInv'
    <3>1. u # None
      BY IdAssumption
    <3>2. ASSUME NEW p \in Post PROVE <<p, kc[s]>> \in Goroutine
      BY <1>2 DEF Register, Goroutine, Caller
    <3> QED BY <1>2, <3>1, <3>2, <1>c, <1>d DEF Register
  <2>3. RestType'
    BY <1>2, <1>a, <1>b DEF Register, RestType, config
  <2> QED BY <2>1, <2>2, <2>3, TypePartsPrime
<1>3. ASSUME NEW s \in Sub, NEW d \in Device, ResolveDevice(d, s)
      PROVE  TypeInv'
  <2>1. PICK e \in Email :
          /\ cached' = [cached EXCEPT ![s] = e]
          /\ proc' = [proc EXCEPT ![<<d, e>>] = Started("device", "tenant", s, None)]
    BY <1>3 DEF ResolveDevice
  <2>2. <<d, e>> \in Goroutine
    BY DEF Goroutine, Caller
  <2>3. ProcInv'
    BY <2>1, <2>2, <1>c
  <2>4. StoreType'
    BY <1>3, <1>a DEF ResolveDevice, StoreType, chirp
  <2>5. RestType'
    BY <1>3, <2>1, <1>a, <1>b DEF ResolveDevice, RestType
  <2> QED BY <2>3, <2>4, <2>5, TypePartsPrime
<1>4. ASSUME NEW s \in Sub, CacheExpires(s)
      PROVE  TypeInv'
  <2>1. StoreType' /\ ProcInv'
    BY <1>4, <1>a, <1>d DEF CacheExpires, StoreType, chirp
  <2>2. RestType'
    BY <1>4, <1>a DEF CacheExpires, RestType
  <2> QED BY <2>1, <2>2, TypePartsPrime
<1>5. ASSUME NEW s \in Sub, NEW w \in Gateway, ResolveGateway(w, s)
      PROVE  TypeInv'
  <2>1. <<w, kc[s]>> \in Goroutine
    BY <1>5 DEF ResolveGateway, Goroutine, Caller
  <2>2. ProcInv'
    BY <1>5, <2>1, <1>c DEF ResolveGateway
  <2>3. StoreType'
    BY <1>5, <1>a DEF ResolveGateway, StoreType, chirp
  <2>4. RestType'
    BY <1>5, <1>a, <1>b DEF ResolveGateway, RestType, config
  <2> QED BY <2>2, <2>3, <2>4, TypePartsPrime
<1>6. CASE Restart
  <2>1. BootRuns \in [Syncer -> Run]
    BY NoRunType DEF BootRuns
  <2>2. ProcInv'
    BY <1>6, IdleOK DEF Restart, ProcInv, LocalsOK
  <2>3. StoreType' /\ RestType'
    <3>1. crashes' \in 0..MaxCrashes
      BY <1>6, <1>a, BoundAssumption DEF Restart, RestType
    <3>2. run' \in [Syncer -> Run] /\ serving' \in BOOLEAN /\ endpoint' \in Endpoint
      BY <1>6, <2>1 DEF Restart
    <3> QED BY <1>6, <3>1, <3>2, <1>a DEF Restart, StoreType, RestType, chirp
  <2> QED BY <2>2, <2>3, TypePartsPrime
<1> QED BY <1>1, <1>2, <1>3, <1>4, <1>5, <1>6

LEMMA InitType == Init => TypeInv
<1> SUFFICES ASSUME Init PROVE TypeInv
  OBVIOUS
<1>1. BootRuns \in [Syncer -> Run]
  BY NoRunType DEF BootRuns
<1>2. StoreType
  BY DEF Init, StoreType
<1>3. ProcInv
  BY IdleOK DEF Init, ProcInv, LocalsOK
<1>4. RestType
  <2>1. run \in [Syncer -> Run] /\ serving \in BOOLEAN /\ endpoint \in Endpoint
    BY <1>1 DEF Init
  <2>2. kc \in [Sub -> Email \cup {Absent, Deleted, NoEmail}]
    BY DEF Init
  <2>3. cached \in [Sub -> Email \cup {None}]
    BY DEF Init
  <2>4. changes \in 0..MaxChanges /\ crashes \in 0..MaxCrashes
    BY BoundAssumption DEF Init
  <2> QED BY <2>1, <2>2, <2>3, <2>4 DEF RestType
<1> QED BY <1>2, <1>3, <1>4, TypeParts

LEMMA NextType == TypeInv /\ [Next]_vars => TypeInv'
<1> SUFFICES ASSUME TypeInv, [Next]_vars PROVE TypeInv'
  OBVIOUS
<1>1. ASSUME NEW g \in Goroutine, Work(g) PROVE TypeInv'
  BY <1>1, WorkProc, WorkStore, WorkRest, TypePartsPrime
<1>2. CASE UNCHANGED vars
  BY <1>2 DEF vars, chirp, config, TypeInv, TypeOK, LocalsOK
<1> QED BY <1>1, <1>2, SyncType, EnvironmentType DEF Next

\* The stores, the goroutines and the sync runs keep their types, and the ids a
\* goroutine uses are there when it uses them (Provision's TypeOK).
THEOREM TypeCorrect == Spec => []TypeOK
<1>1. Spec => []TypeInv
  BY InitType, NextType, PTL DEF Spec
<1>2. TypeInv => TypeOK
  BY DEF TypeInv
<1> QED BY <1>1, <1>2, PTL

-----------------------------------------------------------------------------
(* Who holds which user.  Every step does one of the following to the users *)
(* and to the user ids that goroutines hold.                               *)

UserKept ==
  UNCHANGED user /\ \A h \in Goroutine : proc'[h].uid \in {None, proc[h].uid}
OthersUid(g) ==
  \A h \in Goroutine \ {g} : proc'[h].uid \in {None, proc[h].uid}
UserFound(g) ==
  /\ UNCHANGED user /\ OthersUid(g)
  /\ user[g[2]] # None /\ proc'[g].uid = user[g[2]]
UserMade(g) ==
  \E u \in UserId :
    /\ FreshUser(u) /\ user[g[2]] = None
    /\ user' = [user EXCEPT ![g[2]] = u]
    /\ OthersUid(g) /\ proc'[g].uid \in {None, u, proc[g].uid}
UserDeleted(g) ==
  /\ proc[g].op = "delete" /\ proc[g].uid # None
  /\ user' = [e \in Email |-> IF user[e] = proc[g].uid THEN None ELSE user[e]]
  /\ \A h \in Goroutine : proc'[h].uid \in {None, proc[h].uid}

LEMMA ReplyIds ==
  ASSUME TypeInv, NEW g \in Goroutine, NEW l \in Worker, Reply(g, l)
  PROVE  /\ proc'[g].uid \in {l.uid, proc[g].uid}
         /\ proc'[g].tid \in {l.tid, proc[g].tid}
         /\ proc'[g].op \in {l.op, proc[g].op}
         /\ \A h \in Goroutine \ {g} : proc'[h] = proc[h]
BY DEF Reply, TypeInv, TypeOK, Worker

\* A step of g that only moves its pc, or ends it.
Moves(g) ==
  \/ proc' = [proc EXCEPT ![g] = Idle]
  \/ \E q \in Pc : proc' = [proc EXCEPT ![g].pc = q]
  \/ \E q \in Pc, c \in Email \cup {None} :
       proc' = [proc EXCEPT ![g].pc = q, ![g].ctx = c]
  \/ \E q \in Pc, a \in AppId : proc' = [proc EXCEPT ![g].aid = a, ![g].pc = q]

LEMMA MovesKeeps ==
  ASSUME TypeInv, NEW g \in Goroutine, Moves(g)
  PROVE  /\ \A h \in Goroutine : /\ proc'[h].uid \in {None, proc[h].uid}
                                 /\ proc'[h].tid \in {None, proc[h].tid}
                                 /\ proc'[h].op \in {"none", proc[h].op}
         /\ \A h \in Goroutine \ {g} : proc'[h] = proc[h]
<1>a. proc \in [Goroutine -> Worker] /\ Idle \in Worker
  BY IdleOK DEF TypeInv, TypeOK
<1>1. CASE proc' = [proc EXCEPT ![g] = Idle]
  BY <1>1, <1>a DEF Idle
<1>2. ASSUME NEW l \in Worker, proc' = [proc EXCEPT ![g] = l],
             l.uid = proc[g].uid, l.tid = proc[g].tid, l.op = proc[g].op
      PROVE  /\ \A h \in Goroutine : /\ proc'[h].uid = proc[h].uid
                                     /\ proc'[h].tid = proc[h].tid
                                     /\ proc'[h].op = proc[h].op
             /\ \A h \in Goroutine \ {g} : proc'[h] = proc[h]
  BY <1>2, <1>a
<1>3. ASSUME NEW q \in Pc, proc' = [proc EXCEPT ![g].pc = q]
      PROVE  \E l \in Worker : /\ proc' = [proc EXCEPT ![g] = l]
                               /\ l.uid = proc[g].uid /\ l.tid = proc[g].tid
                               /\ l.op = proc[g].op
  <2>1. [proc[g] EXCEPT !.pc = q] \in Worker
    BY <1>a DEF Worker
  <2> WITNESS [proc[g] EXCEPT !.pc = q] \in Worker
  <2> QED BY <1>3, <1>a DEF Worker
<1>4. ASSUME NEW q \in Pc, NEW c \in Email \cup {None},
             proc' = [proc EXCEPT ![g].pc = q, ![g].ctx = c]
      PROVE  \E l \in Worker : /\ proc' = [proc EXCEPT ![g] = l]
                               /\ l.uid = proc[g].uid /\ l.tid = proc[g].tid
                               /\ l.op = proc[g].op
  <2>1. [proc[g] EXCEPT !.pc = q, !.ctx = c] \in Worker
    BY <1>a DEF Worker
  <2> WITNESS [proc[g] EXCEPT !.pc = q, !.ctx = c] \in Worker
  <2> QED BY <1>4, <1>a DEF Worker
<1>5. ASSUME NEW q \in Pc, NEW a \in AppId,
             proc' = [proc EXCEPT ![g].aid = a, ![g].pc = q]
      PROVE  \E l \in Worker : /\ proc' = [proc EXCEPT ![g] = l]
                               /\ l.uid = proc[g].uid /\ l.tid = proc[g].tid
                               /\ l.op = proc[g].op
  <2>1. [proc[g] EXCEPT !.aid = a, !.pc = q] \in Worker
    BY <1>a DEF Worker
  <2> WITNESS [proc[g] EXCEPT !.aid = a, !.pc = q] \in Worker
  <2> QED BY <1>5, <1>a DEF Worker
<1> QED BY <1>1, <1>2, <1>3, <1>4, <1>5 DEF Moves

LEMMA ReplyGoto ==
  ASSUME TypeInv, NEW g \in Goroutine, NEW q \in Pc, Reply(g, Goto(g, q))
  PROVE  Moves(g)
<1>1. CASE proc' = [proc EXCEPT ![g] = Goto(g, q)]
  BY <1>1 DEF Moves, Goto, TypeInv, TypeOK
<1>2. CASE proc' = [proc EXCEPT ![g].pc = "error"]
  BY <1>2 DEF Moves, Pc
<1> QED BY <1>1, <1>2 DEF Reply

LEMMA ReplyApp ==
  ASSUME TypeInv, NEW g \in Goroutine, NEW q \in Pc, NEW a \in AppId,
         Reply(g, [proc[g] EXCEPT !.aid = a, !.pc = q])
  PROVE  Moves(g)
<1>1. CASE proc' = [proc EXCEPT ![g] = [proc[g] EXCEPT !.aid = a, !.pc = q]]
  BY <1>1 DEF Moves, TypeInv, TypeOK
<1>2. CASE proc' = [proc EXCEPT ![g].pc = "error"]
  BY <1>2 DEF Moves, Pc
<1> QED BY <1>1, <1>2 DEF Reply

\* The steps that neither look up nor create a user or a tenant.
LEMMA PlainMoves ==
  ASSUME TypeInv, NEW g \in Goroutine, Work(g),
         ~FindUser(g), ~CreateUser(g), ~FindTenant(g), ~CreateTenant(g)
  PROVE  Moves(g)
<1>a. /\ "error" \in Pc /\ "app" \in Pc /\ "addMember" \in Pc
      /\ "ok" \in Pc /\ "createIntegration" \in Pc /\ "deleteIntegration" \in Pc
      /\ "integration" \in Pc /\ "createApp" \in Pc /\ "readCtx" \in Pc
      /\ "user" \in Pc /\ "deleteTenant" \in Pc
      /\ AfterTenant(proc[g].op) \in Pc /\ AfterApp(proc[g].op) \in Pc
  BY AfterTenantOK DEF Pc, CallPc, TypeInv, TypeOK, Worker, AfterApp
<1>b. ASSUME proc' = [proc EXCEPT ![g].pc = "error"] PROVE Moves(g)
  BY <1>a, <1>b DEF Moves
<1> HIDE DEF Pc
<1>1. CASE UpdateTenant(g)
  BY <1>1, <1>a, <1>b, ReplyGoto DEF UpdateTenant
<1>2. CASE GetMember(g)
  BY <1>2, <1>a, ReplyGoto DEF GetMember
<1>3. CASE AddMember(g)
  BY <1>3, <1>a, <1>b, ReplyGoto DEF AddMember
<1>4. CASE FindApp(g)
  BY <1>4, <1>a, <1>b, ReplyGoto, ReplyApp DEF FindApp, AppsOf
<1>5. CASE CreateApp(g)
  BY <1>5, <1>a, <1>b, ReplyApp DEF CreateApp
<1>6. CASE GetIntegration(g)
  <2>1. PICK q \in {"createIntegration", "deleteIntegration", "ok"} :
          Reply(g, Goto(g, q))
    BY <1>6 DEF GetIntegration
  <2> QED BY <2>1, <1>a, ReplyGoto
<1>7. CASE DeleteIntegration(g)
  BY <1>7, <1>a, <1>b, ReplyGoto DEF DeleteIntegration
<1>8. CASE CreateIntegration(g)
  BY <1>8, <1>a, <1>b, ReplyGoto DEF CreateIntegration
<1>9. CASE AssignCtx(g)
  BY <1>9, <1>a DEF AssignCtx, Moves
<1>10. CASE ReadCtx(g)
  <2>1. g[1] \in Syncer /\ g[2] \in Email
    BY <1>10 DEF ReadCtx, At, TypeInv, LocalsOK, LocalOK, Goroutine
  <2>2. {g[2], run[g[1]].ctxVar} \subseteq Email \cup {None}
    BY <2>1 DEF TypeInv, TypeOK, Run
  <2> QED BY <1>10, <1>a, <2>2 DEF ReadCtx, Moves
<1>11. CASE DeleteUser(g)
  BY <1>11, <1>a, <1>b, ReplyGoto DEF DeleteUser
<1>12. CASE DeleteTenant(g)
  BY <1>12, <1>a, <1>b, ReplyGoto DEF DeleteTenant
<1>13. CASE EndDelete(g) \/ EndProvision(g)
  BY <1>13 DEF EndDelete, EndProvision, Moves
<1>14. CASE CallError(g)
  BY <1>14, <1>b DEF CallError
<1> QED BY <1>1, <1>2, <1>3, <1>4, <1>5, <1>6, <1>7, <1>8, <1>9, <1>10, <1>11,
           <1>12, <1>13, <1>14 DEF Work

TenantKept ==
  UNCHANGED tenant /\ \A h \in Goroutine : proc'[h].tid \in {None, proc[h].tid}
OthersTid(g) ==
  \A h \in Goroutine \ {g} : proc'[h].tid \in {None, proc[h].tid}
TenantFound(g) ==
  /\ UNCHANGED tenant /\ OthersTid(g)
  /\ \E t \in TenantId : /\ tenant[t] \in Found[g[2]]
                         /\ proc'[g].tid \in {t, proc[g].tid}
TenantMade(g) ==
  \E t \in TenantId :
    /\ FreshTenant(t)
    /\ tenant' = [tenant EXCEPT ![t] = g[2]]
    /\ OthersTid(g) /\ proc'[g].tid \in {t, proc[g].tid}
TenantRenamed(g) ==
  /\ proc[g].tid \in TenantId /\ tenant[proc[g].tid] # None
  /\ tenant' = [tenant EXCEPT ![proc[g].tid] = g[2]]
  /\ \A h \in Goroutine : proc'[h].tid \in {None, proc[h].tid}
TenantDeleted(g) ==
  /\ proc[g].op = "delete" /\ proc[g].tid \in TenantId
  /\ tenant' = [tenant EXCEPT ![proc[g].tid] = None]
  /\ \A h \in Goroutine : proc'[h].tid \in {None, proc[h].tid}

LEMMA WorkIds ==
  ASSUME TypeInv, NEW g \in Goroutine, Work(g)
  PROVE  /\ UserKept \/ UserFound(g) \/ UserMade(g) \/ UserDeleted(g)
         /\ \/ TenantKept \/ TenantFound(g) \/ TenantMade(g)
            \/ TenantRenamed(g) \/ TenantDeleted(g)
<1>a. /\ proc[g] \in Worker /\ LocalOK(g, proc[g]) /\ g[2] \in Email
      /\ user \in [Email -> UserId \cup {None}]
  BY DEF TypeInv, TypeOK, LocalsOK, Goroutine
<1>b. ASSUME Moves(g) PROVE \A h \in Goroutine :
        proc'[h].uid \in {None, proc[h].uid} /\ proc'[h].tid \in {None, proc[h].tid}
  BY <1>b, MovesKeeps
<1>1. CASE FindUser(g)
  <2>1. UNCHANGED <<user, tenant>>
    BY <1>1 DEF FindUser, chirp
  <2>2. CASE user[g[2]] # None
    <3> DEFINE l == [proc[g] EXCEPT !.uid = user[g[2]], !.pc = "tenant"]
    <3>1. l \in Worker
      BY <1>a, <2>2 DEF Worker, Pc, CallPc
    <3>2. Reply(g, l)
      BY <1>1, <2>2 DEF FindUser
    <3>3. l.uid = user[g[2]] /\ l.tid = proc[g].tid
      BY <1>a DEF Worker
    <3> HIDE DEF l
    <3>4. /\ proc'[g].uid \in {user[g[2]], proc[g].uid}
          /\ proc'[g].tid = proc[g].tid
          /\ \A h \in Goroutine \ {g} : proc'[h] = proc[h]
      BY <3>1, <3>2, <3>3, ReplyIds
    <3> QED BY <2>1, <2>2, <3>4 DEF UserKept, UserFound, OthersUid, TenantKept
  <2>3. CASE user[g[2]] = None
    <3>1. Reply(g, Goto(g, "createUser")) /\ "createUser" \in Pc
      BY <1>1, <2>3 DEF FindUser, Pc, CallPc
    <3> QED BY <2>1, <3>1, <1>b, ReplyGoto DEF UserKept, TenantKept
  <2> QED BY <2>2, <2>3
<1>2. CASE CreateUser(g)
  <2>1. UNCHANGED tenant
    BY <1>2 DEF CreateUser
  <2>2. ASSUME proc' = [proc EXCEPT ![g].pc = "error"] PROVE Moves(g)
    BY <2>2 DEF Moves, Pc
  <2>3. CASE UNCHANGED user /\ proc' = [proc EXCEPT ![g].pc = "error"]
    BY <2>1, <2>2, <2>3, <1>b DEF UserKept, TenantKept
  <2>4. ASSUME NEW u \in UserId, FreshUser(u), user[g[2]] = None,
               user' = [user EXCEPT ![g[2]] = u],
               Reply(g, [proc[g] EXCEPT !.uid = u, !.pc = "tenant"])
        PROVE  UserMade(g) /\ TenantKept
    <3> DEFINE l == [proc[g] EXCEPT !.uid = u, !.pc = "tenant"]
    <3>1. l \in Worker /\ l.uid = u /\ l.tid = proc[g].tid
      BY <1>a DEF Worker, Pc, CallPc
    <3>2. Reply(g, l)
      BY <2>4
    <3> HIDE DEF l
    <3>3. /\ proc'[g].uid \in {u, proc[g].uid}
          /\ proc'[g].tid = proc[g].tid
          /\ \A h \in Goroutine \ {g} : proc'[h] = proc[h]
      BY <3>1, <3>2, ReplyIds
    <3> QED BY <2>1, <2>4, <3>3 DEF UserMade, OthersUid, TenantKept
  <2> QED BY <1>2, <2>3, <2>4 DEF CreateUser
<1>3. CASE FindTenant(g)
  <2>1. UNCHANGED <<user, tenant>>
    BY <1>3 DEF FindTenant, chirp
  <2>2. CASE Reply(g, Goto(g, "createTenant"))
    <3>1. "createTenant" \in Pc
      BY DEF Pc, CallPc
    <3> QED BY <2>1, <2>2, <3>1, <1>b, ReplyGoto DEF UserKept, TenantKept
  <2>3. CASE proc' = [proc EXCEPT ![g].pc = "error"]
    <3>1. Moves(g)
      BY <2>3 DEF Moves, Pc
    <3> QED BY <2>1, <3>1, <1>b DEF UserKept, TenantKept
  <2>4. ASSUME NEW t \in TenantId, tenant[t] \in Found[g[2]],
               NEW q \in Pc, Reply(g, [proc[g] EXCEPT !.tid = t, !.pc = q])
        PROVE  UserKept /\ TenantFound(g)
    <3> DEFINE l == [proc[g] EXCEPT !.tid = t, !.pc = q]
    <3>1. l \in Worker /\ l.tid = t /\ l.uid = proc[g].uid
      BY <1>a DEF Worker
    <3>2. Reply(g, l)
      BY <2>4
    <3> HIDE DEF l
    <3>3. /\ proc'[g].tid \in {t, proc[g].tid} /\ proc'[g].uid = proc[g].uid
          /\ \A h \in Goroutine \ {g} : proc'[h] = proc[h]
      BY <3>1, <3>2, ReplyIds
    <3> QED BY <2>1, <2>4, <3>3 DEF UserKept, TenantFound, OthersTid
  <2>5. "updateTenant" \in Pc /\ AfterTenant(proc[g].op) \in Pc
    BY <1>a, AfterTenantOK DEF Worker, Pc, CallPc
  <2>6. ASSUME NEW t \in Matches(g[2]),
               Reply(g, [proc[g] EXCEPT !.tid = t,
                           !.pc = IF UpdateTenants THEN "updateTenant"
                                  ELSE AfterTenant(proc[g].op)])
        PROVE  UserKept /\ TenantFound(g)
    <3> DEFINE q == IF UpdateTenants THEN "updateTenant"
                    ELSE AfterTenant(proc[g].op)
    <3>1. q \in Pc
      BY <2>5
    <3>2. t \in TenantId /\ tenant[t] \in Found[g[2]]
      BY DEF Matches
    <3>3. Reply(g, [proc[g] EXCEPT !.tid = t, !.pc = q])
      BY <2>6
    <3> HIDE DEF q
    <3> QED BY <2>4, <3>1, <3>2, <3>3
  <2> QED BY <1>3, <2>2, <2>3, <2>6 DEF FindTenant
<1>4. CASE CreateTenant(g)
  <2>1. PICK t \in TenantId :
          /\ FreshTenant(t)
          /\ tenant' = [tenant EXCEPT ![t] = g[2]]
          /\ Reply(g, [proc[g] EXCEPT !.tid = t, !.pc = AfterTenant(proc[g].op)])
    BY <1>4 DEF CreateTenant
  <2> DEFINE l == [proc[g] EXCEPT !.tid = t, !.pc = AfterTenant(proc[g].op)]
  <2>2. AfterTenant(proc[g].op) \in Pc
    BY <1>a, AfterTenantOK DEF Worker, Pc, CallPc
  <2>3. l \in Worker /\ l.tid = t /\ l.uid = proc[g].uid
    BY <2>2, <1>a DEF Worker
  <2>4. Reply(g, l) /\ UNCHANGED user
    BY <1>4, <2>1 DEF CreateTenant
  <2> HIDE DEF l
  <2>5. /\ proc'[g].tid \in {t, proc[g].tid} /\ proc'[g].uid = proc[g].uid
        /\ \A h \in Goroutine \ {g} : proc'[h] = proc[h]
    BY <2>3, <2>4, ReplyIds
  <2> QED BY <2>1, <2>4, <2>5 DEF UserKept, TenantMade, OthersTid
<1>5. CASE ~FindUser(g) /\ ~CreateUser(g) /\ ~FindTenant(g) /\ ~CreateTenant(g)
  <2>1. \A h \in Goroutine : /\ proc'[h].uid \in {None, proc[h].uid}
                             /\ proc'[h].tid \in {None, proc[h].tid}
    BY <1>5, <1>b, PlainMoves
  <2>2. CASE UpdateTenant(g)
    <3>1. proc[g].tid \in TenantId
      BY <2>2, <1>a DEF UpdateTenant, At, LocalOK, Worker
    <3> QED BY <2>1, <2>2, <3>1 DEF UpdateTenant, UserKept, TenantKept, TenantRenamed
  <2>3. CASE DeleteUser(g)
    <3>1. proc[g].uid # None /\ proc[g].op = "delete"
      BY <2>3, <1>a DEF DeleteUser, At, LocalOK
    <3> QED BY <2>1, <2>3, <3>1 DEF DeleteUser, UserKept, UserDeleted, TenantKept
  <2>4. CASE DeleteTenant(g)
    <3>1. proc[g].tid \in TenantId /\ proc[g].op = "delete"
      BY <2>4, <1>a DEF DeleteTenant, At, LocalOK, Worker
    <3> QED BY <2>1, <2>4, <3>1 DEF DeleteTenant, UserKept, TenantKept, TenantDeleted
  <2>5. CASE UNCHANGED <<user, tenant>>
    BY <2>1, <2>5 DEF UserKept, TenantKept
  <2> QED BY <1>5, <2>2, <2>3, <2>4, <2>5
          DEF Work, GetMember, AddMember, FindApp, CreateApp, GetIntegration,
              DeleteIntegration, CreateIntegration, AssignCtx, ReadCtx,
              EndDelete, EndProvision, CallError, chirp
<1> QED BY <1>1, <1>2, <1>3, <1>4, <1>5

\* No step outside a goroutine touches a tenant; a registration makes a user.
LEMMA OtherIds ==
  ASSUME TypeInv,
         \/ \E s \in Syncer : StartSync(s) \/ SyncStep(s)
         \/ \E s \in Sub, x \in Email \cup {Deleted, NoEmail} : SetAccount(s, x)
         \/ \E s \in Sub, u \in UserId : Register(s, u)
         \/ \E s \in Sub, d \in Device : ResolveDevice(d, s)
         \/ \E s \in Sub : CacheExpires(s)
         \/ \E s \in Sub, w \in Gateway : ResolveGateway(w, s)
         \/ Restart
         \/ UNCHANGED vars
  PROVE  TenantKept /\ (UserKept \/ \E g \in Goroutine : UserMade(g))
<1>a. proc \in [Goroutine -> Worker] /\ user \in [Email -> UserId \cup {None}]
  BY DEF TypeInv, TypeOK
<1>b. ASSUME \A h \in Goroutine : \/ proc'[h] = proc[h]
                                  \/ (proc'[h].uid = None /\ proc'[h].tid = None),
             UNCHANGED <<user, tenant>>
      PROVE  TenantKept /\ UserKept
  BY <1>b DEF TenantKept, UserKept
<1>c. \A o, p, s, u : /\ Started(o, p, s, u).tid = None
                      /\ Started(o, p, s, u).uid = u
  BY DEF Started, Idle
<1>1. ASSUME NEW s \in Syncer, StartSync(s) \/ SyncStep(s)
      PROVE  TenantKept /\ UserKept
  <2>1. UNCHANGED <<user, tenant>>
    BY <1>1 DEF StartSync, SyncStep, ListAccounts, WaitProvisioned,
       SnapshotAccounts, ListChirpUsers, WaitDeleted, chirp
  <2>2. ASSUME NEW h \in Goroutine
        PROVE  proc'[h] = proc[h] \/ (proc'[h].uid = None /\ proc'[h].tid = None)
    <3>1. CASE ListAccounts(s)
      BY <3>1 DEF ListAccounts, Started, Idle
    <3>2. CASE ListChirpUsers(s)
      BY <3>2 DEF ListChirpUsers, Started, Idle
    <3>3. ASSUME UNCHANGED proc PROVE proc'[h] = proc[h]
      BY <3>3
    <3> QED BY <1>1, <3>1, <3>2, <3>3
            DEF StartSync, SyncStep, WaitProvisioned, SnapshotAccounts, WaitDeleted
  <2> QED BY <2>1, <2>2, <1>b
<1>2. ASSUME NEW s \in Sub, NEW u \in UserId, Register(s, u)
      PROVE  TenantKept /\ \E g \in Goroutine : UserMade(g)
  <2>1. /\ kc[s] \in Email /\ user[kc[s]] = None /\ FreshUser(u)
        /\ user' = [user EXCEPT ![kc[s]] = u] /\ UNCHANGED tenant
    BY <1>2 DEF Register
  <2>2. CASE UNCHANGED proc
    <3> DEFINE g == <<Boot, kc[s]>>
    <3>1. g \in Goroutine /\ g[2] = kc[s]
      BY <2>1 DEF Goroutine, Syncer
    <3>2. UserMade(g) /\ TenantKept
      BY <2>1, <2>2, <3>1 DEF UserMade, OthersUid, TenantKept
    <3> QED BY <3>1, <3>2
  <2>3. ASSUME NEW p \in Post,
               proc' = [proc EXCEPT ![<<p, kc[s]>>] =
                          Started("provision", "tenant", s, u)]
        PROVE  TenantKept /\ \E g \in Goroutine : UserMade(g)
    <3> DEFINE g == <<p, kc[s]>>
    <3>1. g \in Goroutine /\ g[2] = kc[s]
      BY <2>1 DEF Goroutine, Caller
    <3>2. /\ proc'[g].uid = u /\ proc'[g].tid = None
          /\ \A h \in Goroutine \ {g} : proc'[h] = proc[h]
      BY <2>3, <3>1, <1>a, <1>c
    <3>3. UserMade(g) /\ TenantKept
      BY <2>1, <3>1, <3>2 DEF UserMade, OthersUid, TenantKept
    <3> QED BY <3>1, <3>3
  <2> QED BY <1>2, <2>2, <2>3 DEF Register
<1>3. ASSUME NEW s \in Sub, NEW d \in Device, ResolveDevice(d, s)
      PROVE  TenantKept /\ UserKept
  <2>1. PICK e \in Email :
          proc' = [proc EXCEPT ![<<d, e>>] = Started("device", "tenant", s, None)]
    BY <1>3 DEF ResolveDevice
  <2>2. UNCHANGED <<user, tenant>>
    BY <1>3 DEF ResolveDevice, chirp
  <2>3. ASSUME NEW h \in Goroutine
        PROVE  proc'[h] = proc[h] \/ (proc'[h].uid = None /\ proc'[h].tid = None)
    BY <2>1, <1>a DEF Started, Idle
  <2> QED BY <2>2, <2>3, <1>b
<1>4. ASSUME NEW s \in Sub, NEW w \in Gateway, ResolveGateway(w, s)
      PROVE  TenantKept /\ UserKept
  <2>1. UNCHANGED <<user, tenant>>
    BY <1>4 DEF ResolveGateway, chirp
  <2>2. ASSUME NEW h \in Goroutine
        PROVE  proc'[h] = proc[h] \/ (proc'[h].uid = None /\ proc'[h].tid = None)
    BY <1>4, <1>a DEF ResolveGateway, Started, Idle
  <2> QED BY <2>1, <2>2, <1>b
<1>5. ASSUME \/ \E s \in Sub, x \in Email \cup {Deleted, NoEmail} : SetAccount(s, x)
             \/ \E s \in Sub : CacheExpires(s)
             \/ UNCHANGED vars
      PROVE  TenantKept /\ UserKept
  <2>1. UNCHANGED <<user, tenant, proc>>
    BY <1>5 DEF SetAccount, CacheExpires, vars, chirp
  <2>2. \A h \in Goroutine : proc'[h] = proc[h]
    BY <2>1
  <2> QED BY <2>1, <2>2 DEF TenantKept, UserKept
<1>6. CASE Restart
  BY <1>6, <1>b DEF Restart, chirp, Idle
<1> QED BY <1>1, <1>2, <1>3, <1>4, <1>5, <1>6

LEMMA NextIds ==
  ASSUME TypeInv, [Next]_vars
  PROVE  /\ \/ UserKept
            \/ \E g \in Goroutine : UserFound(g) \/ UserMade(g) \/ UserDeleted(g)
         /\ \/ TenantKept
            \/ \E g \in Goroutine : \/ TenantFound(g) \/ TenantMade(g)
                                    \/ TenantRenamed(g) \/ TenantDeleted(g)
<1>1. CASE \E g \in Goroutine : Work(g)
  BY <1>1, WorkIds
<1>2. CASE ~\E g \in Goroutine : Work(g)
  BY <1>2, OtherIds DEF Next
<1> QED BY <1>1, <1>2

-----------------------------------------------------------------------------
(* Held ids belong to the email the goroutine works on.                    *)

UsersUnique ==
  \A e, f \in Email : user[e] # None /\ user[e] = user[f] => e = f
HeldUserIsOwn ==
  \A g \in Goroutine, e \in Email :
    proc[g].uid # None /\ user[e] = proc[g].uid => e = g[2]
UserInv == UsersUnique /\ HeldUserIsOwn

LEMMA UserInvStep ==
  ASSUME TypeInv, UserInv, [Next]_vars
  PROVE  UserInv'
<1>a. \A g \in Goroutine : g[2] \in Email
  BY DEF Goroutine
<1>b. user \in [Email -> UserId \cup {None}] /\ None \notin UserId
  BY IdAssumption DEF TypeInv, TypeOK
<1>1. CASE UserKept
  BY <1>1 DEF UserInv, UsersUnique, HeldUserIsOwn, UserKept
<1>2. ASSUME NEW g \in Goroutine, UserFound(g) PROVE UserInv'
  BY <1>2, <1>a DEF UserInv, UsersUnique, HeldUserIsOwn, UserFound, OthersUid
<1>3. ASSUME NEW g \in Goroutine, UserMade(g) PROVE UserInv'
  <2>1. PICK u \in UserId :
          /\ FreshUser(u) /\ user[g[2]] = None
          /\ user' = [user EXCEPT ![g[2]] = u]
          /\ OthersUid(g) /\ proc'[g].uid \in {None, u, proc[g].uid}
    BY <1>3 DEF UserMade
  <2>2. /\ \A e \in Email : user[e] # u
        /\ \A h \in Goroutine : proc[h].uid # u
    BY <2>1 DEF FreshUser, UnusedUser, UserLives
  <2>3. UsersUnique'
    BY <2>1, <2>2, <1>a, <1>b DEF UserInv, UsersUnique
  <2>4. HeldUserIsOwn'
    BY <2>1, <2>2, <1>a, <1>b DEF UserInv, HeldUserIsOwn, OthersUid
  <2> QED BY <2>3, <2>4 DEF UserInv
<1>4. ASSUME NEW g \in Goroutine, UserDeleted(g) PROVE UserInv'
  BY <1>4, <1>b DEF UserInv, UsersUnique, HeldUserIsOwn, UserDeleted
<1> QED BY <1>1, <1>2, <1>3, <1>4, NextIds

LEMMA HeldTenantStep ==
  ASSUME TypeInv, ExactSearch, HeldTenantIsOwn, [Next]_vars
  PROVE  HeldTenantIsOwn'
<1>a. \A g \in Goroutine : g[2] \in Email
  BY DEF Goroutine
<1>b. /\ tenant \in [TenantId -> Email \cup {None}]
      /\ None \notin TenantId /\ None \notin Email
      /\ \A g \in Goroutine : proc[g].tid \in TenantId \cup {None}
  BY IdAssumption DEF TypeInv, TypeOK, Worker
<1>1. CASE TenantKept
  BY <1>1 DEF HeldTenantIsOwn, TenantKept
<1>2. ASSUME NEW g \in Goroutine, TenantFound(g) PROVE HeldTenantIsOwn'
  BY <1>2, <1>a DEF HeldTenantIsOwn, TenantFound, OthersTid, ExactSearch
<1>3. ASSUME NEW g \in Goroutine, TenantMade(g) PROVE HeldTenantIsOwn'
  BY <1>3, <1>a, <1>b DEF HeldTenantIsOwn, TenantMade, OthersTid, FreshTenant, UnusedTenant
<1>4. ASSUME NEW g \in Goroutine, TenantRenamed(g) PROVE HeldTenantIsOwn'
  <2>1. tenant[proc[g].tid] = g[2]
    BY <1>4, <1>b DEF HeldTenantIsOwn, TenantRenamed
  <2> QED BY <1>4, <2>1, <1>b DEF HeldTenantIsOwn, TenantRenamed
<1>5. ASSUME NEW g \in Goroutine, TenantDeleted(g) PROVE HeldTenantIsOwn'
  BY <1>5, <1>b DEF HeldTenantIsOwn, TenantDeleted
<1> QED BY <1>1, <1>2, <1>3, <1>4, <1>5, NextIds

\* With a search that finds exact names, no interleaving, failure or restart
\* makes a goroutine hold somebody else's tenant (Provision's HeldTenantIsOwn).
THEOREM HeldTenantCorrect ==
  ASSUME ExactSearch
  PROVE  Spec => []HeldTenantIsOwn
<1>1. Init => HeldTenantIsOwn
  BY DEF Init, HeldTenantIsOwn, Idle
<1>2. TypeInv /\ HeldTenantIsOwn /\ [Next]_vars => HeldTenantIsOwn'
  BY HeldTenantStep
<1> QED BY <1>1, <1>2, InitType, NextType, PTL DEF Spec

LEMMA MembersStep ==
  ASSUME TypeInv, ExactSearch, UserInv, HeldTenantIsOwn, OnlyOwnMembers,
         [Next]_vars
  PROVE  OnlyOwnMembers'
<1>a. /\ user \in [Email -> UserId \cup {None}]
      /\ tenant \in [TenantId -> Email \cup {None}]
      /\ members \subseteq TenantId \X UserId
      /\ None \notin Email \cup UserId \cup TenantId
      /\ \A g \in Goroutine : g[2] \in Email
  BY IdAssumption DEF TypeInv, TypeOK, Goroutine
<1>b. \A m \in members : /\ m[1] \in TenantId /\ m[2] \in UserId
                         /\ tenant[m[1]] \in Email
                         /\ user[tenant[m[1]]] = m[2]
  BY <1>a DEF OnlyOwnMembers
<1>c. ASSUME UNCHANGED <<user, tenant, members>> PROVE OnlyOwnMembers'
  BY <1>c DEF OnlyOwnMembers
<1>d. ASSUME NEW e \in Email, NEW u \in UserId, user[e] = None,
             user' = [user EXCEPT ![e] = u], UNCHANGED <<tenant, members>>
      PROVE  OnlyOwnMembers'
  BY <1>d, <1>a, <1>b DEF OnlyOwnMembers
<1>1. ASSUME NEW g \in Goroutine, Work(g) PROVE OnlyOwnMembers'
  <2>a. g[2] \in Email /\ LocalOK(g, proc[g]) /\ proc[g] \in Worker
    BY <1>a DEF TypeInv, TypeOK, LocalsOK
  <2>1. CASE CreateUser(g)
    BY <2>1, <2>a, <1>c, <1>d DEF CreateUser
  <2>2. CASE CreateTenant(g)
    <3>1. PICK t \in TenantId : /\ tenant[t] = None
                                /\ tenant' = [tenant EXCEPT ![t] = g[2]]
      BY <2>2 DEF CreateTenant, FreshTenant, UnusedTenant
    <3>2. UNCHANGED <<user, members>>
      BY <2>2 DEF CreateTenant
    <3> QED BY <3>1, <3>2, <1>a, <1>b DEF OnlyOwnMembers
  <2>3. CASE UpdateTenant(g)
    <3>1. CASE UNCHANGED tenant
      BY <2>3, <3>1, <1>c DEF UpdateTenant
    <3>2. CASE /\ tenant[proc[g].tid] # None
               /\ tenant' = [tenant EXCEPT ![proc[g].tid] = g[2]]
      <4>1. tenant[proc[g].tid] = g[2] /\ proc[g].tid \in TenantId
        BY <2>3, <2>a, <3>2 DEF UpdateTenant, At, LocalOK, Worker, HeldTenantIsOwn
      <4>2. tenant' = tenant
        BY <3>2, <4>1, <1>a
      <4> QED BY <2>3, <4>2, <1>c DEF UpdateTenant
    <3> QED BY <2>3, <3>1, <3>2 DEF UpdateTenant
  <2>4. CASE AddMember(g)
    <3>1. UNCHANGED <<user, tenant>>
      BY <2>4 DEF AddMember
    <3>2. CASE UNCHANGED members
      BY <3>1, <3>2, <1>c
    <3>3. CASE /\ tenant[proc[g].tid] # None /\ UserLives(proc[g].uid)
               /\ members' = members \cup {<<proc[g].tid, proc[g].uid>>}
      <4>1. /\ proc[g].tid # None /\ proc[g].uid # None
        BY <2>4, <2>a DEF AddMember, At, LocalOK
      <4>2. tenant[proc[g].tid] = g[2]
        BY <3>3, <4>1 DEF HeldTenantIsOwn
      <4>3. user[g[2]] = proc[g].uid
        BY <3>3, <4>1 DEF UserLives, UserInv, HeldUserIsOwn
      <4> QED BY <3>1, <3>3, <4>2, <4>3, <2>a, <1>a, <1>b DEF OnlyOwnMembers
    <3> QED BY <2>4, <3>2, <3>3 DEF AddMember
  <2>5. CASE DeleteUser(g)
    <3>1. CASE UNCHANGED <<user, members>>
      BY <2>5, <3>1, <1>c DEF DeleteUser
    <3>2. CASE /\ user' = [e \in Email |->
                        IF user[e] = proc[g].uid THEN None ELSE user[e]]
               /\ members' = {m \in members : m[2] # proc[g].uid}
      BY <2>5, <3>2, <1>a, <1>b DEF DeleteUser, OnlyOwnMembers
    <3> QED BY <2>5, <3>1, <3>2 DEF DeleteUser
  <2>6. CASE DeleteTenant(g)
    <3>1. CASE UNCHANGED <<tenant, members>>
      BY <2>6, <3>1, <1>c DEF DeleteTenant
    <3>2. CASE /\ tenant' = [tenant EXCEPT ![proc[g].tid] = None]
               /\ members' = {m \in members : m[1] # proc[g].tid}
      BY <2>6, <3>2, <1>a, <1>b DEF DeleteTenant, OnlyOwnMembers
    <3> QED BY <2>6, <3>1, <3>2 DEF DeleteTenant
  <2>7. CASE UNCHANGED <<user, tenant, members>>
    BY <2>7, <1>c
  <2> QED BY <1>1, <2>1, <2>2, <2>3, <2>4, <2>5, <2>6, <2>7
          DEF Work, FindUser, FindTenant, GetMember, FindApp, CreateApp,
              GetIntegration, DeleteIntegration, CreateIntegration, AssignCtx,
              ReadCtx, EndDelete, EndProvision, CallError, chirp
<1>2. ASSUME NEW s \in Sub, NEW u \in UserId, Register(s, u)
      PROVE  OnlyOwnMembers'
  BY <1>2, <1>d DEF Register
<1>3. ASSUME NEW s \in Syncer, StartSync(s) \/ SyncStep(s)
      PROVE  OnlyOwnMembers'
  BY <1>3, <1>c DEF StartSync, SyncStep, ListAccounts, WaitProvisioned,
     SnapshotAccounts, ListChirpUsers, WaitDeleted, chirp
<1>4. ASSUME \/ \E s \in Sub, x \in Email \cup {Deleted, NoEmail} : SetAccount(s, x)
             \/ \E s \in Sub, d \in Device : ResolveDevice(d, s)
             \/ \E s \in Sub : CacheExpires(s)
             \/ \E s \in Sub, w \in Gateway : ResolveGateway(w, s)
             \/ Restart
             \/ UNCHANGED vars
      PROVE  OnlyOwnMembers'
  BY <1>4, <1>c DEF SetAccount, ResolveDevice, CacheExpires, ResolveGateway,
     Restart, vars, chirp
<1> QED BY <1>1, <1>2, <1>3, <1>4 DEF Next

\* Under the same search, a user never becomes or stays a member of a tenant
\* that is not named after the user's own email (Provision's OnlyOwnMembers).
THEOREM OnlyOwnMembersCorrect ==
  ASSUME ExactSearch
  PROVE  Spec => []OnlyOwnMembers
<1> DEFINE Inv == TypeInv /\ UserInv /\ HeldTenantIsOwn /\ OnlyOwnMembers
<1>1. Init => Inv
  BY InitType DEF Init, Idle, UserInv, UsersUnique, HeldUserIsOwn,
     HeldTenantIsOwn, OnlyOwnMembers
<1>2. Inv /\ [Next]_vars => Inv'
  BY NextType, UserInvStep, HeldTenantStep, MembersStep
<1>3. Inv => OnlyOwnMembers
  OBVIOUS
<1> QED BY <1>1, <1>2, <1>3, PTL DEF Spec

-----------------------------------------------------------------------------
(* Deletes.                                                                *)

\* A delete runs while its sync waits for it, for an email that the sync did
\* not see in Keycloak and that is not protected.
DeleteJustified(g) ==
  /\ run[g[1]].pc = "deleting"
  /\ g[2] \notin run[g[1]].seen /\ g[2] \notin Protected
DeletesJustified ==
  \A g \in Goroutine : proc[g].op = "delete" => DeleteJustified(g)

LEMMA WorkOps ==
  ASSUME TypeInv, NEW g \in Goroutine, Work(g)
  PROVE  \A h \in Goroutine : proc'[h].op \in {"none", proc[h].op}
<1>a. proc[g] \in Worker /\ g[2] \in Email /\ user \in [Email -> UserId \cup {None}]
  BY DEF TypeInv, TypeOK, Goroutine
<1>b. ASSUME NEW l \in Worker, l.op = proc[g].op, Reply(g, l)
      PROVE  \A h \in Goroutine : proc'[h].op = proc[h].op
  BY <1>b, ReplyIds
<1>c. ASSUME proc' = [proc EXCEPT ![g].pc = "error"]
      PROVE  Moves(g)
  BY <1>c DEF Moves, Pc
<1>1. CASE FindUser(g)
  <2>1. CASE user[g[2]] # None
    <3> DEFINE l == [proc[g] EXCEPT !.uid = user[g[2]], !.pc = "tenant"]
    <3>1. l \in Worker /\ l.op = proc[g].op
      BY <1>a, <2>1 DEF Worker, Pc, CallPc
    <3>2. Reply(g, l)
      BY <1>1, <2>1 DEF FindUser
    <3> QED BY <3>1, <3>2, <1>b
  <2>2. CASE user[g[2]] = None
    BY <1>1, <2>2, ReplyGoto, MovesKeeps DEF FindUser, Pc, CallPc
  <2> QED BY <2>1, <2>2
<1>2. CASE CreateUser(g)
  <2>1. ASSUME NEW u \in UserId, Reply(g, [proc[g] EXCEPT !.uid = u, !.pc = "tenant"])
        PROVE  \A h \in Goroutine : proc'[h].op = proc[h].op
    <3> DEFINE l == [proc[g] EXCEPT !.uid = u, !.pc = "tenant"]
    <3>1. l \in Worker /\ l.op = proc[g].op
      BY <1>a DEF Worker, Pc, CallPc
    <3> QED BY <2>1, <3>1, <1>b
  <2> QED BY <1>2, <2>1, <1>c, MovesKeeps DEF CreateUser
<1>3. ASSUME NEW t \in TenantId, NEW q \in Pc,
             Reply(g, [proc[g] EXCEPT !.tid = t, !.pc = q])
      PROVE  \A h \in Goroutine : proc'[h].op = proc[h].op
  <2> DEFINE l == [proc[g] EXCEPT !.tid = t, !.pc = q]
  <2>1. l \in Worker /\ l.op = proc[g].op
    BY <1>a DEF Worker
  <2> QED BY <1>3, <2>1, <1>b
<1>4. "updateTenant" \in Pc /\ AfterTenant(proc[g].op) \in Pc /\ "createTenant" \in Pc
  BY <1>a, AfterTenantOK DEF Worker, Pc, CallPc
<1>5. CASE FindTenant(g)
  <2>1. ASSUME NEW t \in Matches(g[2]),
               Reply(g, [proc[g] EXCEPT !.tid = t,
                           !.pc = IF UpdateTenants THEN "updateTenant"
                                  ELSE AfterTenant(proc[g].op)])
        PROVE  \A h \in Goroutine : proc'[h].op = proc[h].op
    <3> DEFINE q == IF UpdateTenants THEN "updateTenant"
                    ELSE AfterTenant(proc[g].op)
    <3>1. q \in Pc /\ t \in TenantId
      BY <1>4 DEF Matches
    <3>2. Reply(g, [proc[g] EXCEPT !.tid = t, !.pc = q])
      BY <2>1
    <3> HIDE DEF q
    <3> QED BY <3>1, <3>2, <1>3
  <2> QED BY <1>5, <2>1, <1>c, <1>4, ReplyGoto, MovesKeeps DEF FindTenant
<1>6. CASE CreateTenant(g)
  BY <1>6, <1>3, <1>4 DEF CreateTenant
<1>7. CASE ~FindUser(g) /\ ~CreateUser(g) /\ ~FindTenant(g) /\ ~CreateTenant(g)
  BY <1>7, PlainMoves, MovesKeeps
<1> QED BY <1>1, <1>2, <1>5, <1>6, <1>7

LEMMA JustifiedStep ==
  ASSUME TypeInv, DeletesJustified, [Next]_vars
  PROVE  DeletesJustified'
<1>e. \A g \in Goroutine :
        /\ proc[g].op = "delete" => g[1] \in Syncer
        /\ proc[g].pc = "idle" => proc[g].op = "none"
        /\ g[2] \in Email
  BY DEF TypeInv, LocalsOK, LocalOK, Goroutine
<1>a. run \in [Syncer -> Run] /\ proc \in [Goroutine -> Worker]
  BY DEF TypeInv, TypeOK, LocalsOK, LocalOK, Goroutine
<1>b. ASSUME \A h \in Goroutine : proc'[h].op \in {"none", proc[h].op},
             \A s \in Syncer : run'[s].pc = run[s].pc /\ run'[s].seen = run[s].seen
      PROVE  DeletesJustified'
  <2>1. ASSUME NEW h \in Goroutine, proc'[h].op = "delete"
        PROVE  DeleteJustified(h)'
    <3>1. proc[h].op = "delete"
      BY <1>b, <2>1
    <3>2. h[1] \in Syncer /\ DeleteJustified(h)
      BY <1>e, <3>1 DEF DeletesJustified
    <3> QED BY <1>b, <3>2 DEF DeleteJustified
  <2> QED BY <2>1 DEF DeletesJustified
<1>c. ASSUME run' = Disturb(run)
      PROVE  \A s \in Syncer : run'[s].pc = run[s].pc /\ run'[s].seen = run[s].seen
  BY <1>c, <1>a DEF Disturb, Run
<1>d. ASSUME \A h \in Goroutine :
               proc'[h].op \in {"none", "provision", "device", "gateway", proc[h].op},
             run' = Disturb(run)
      PROVE  DeletesJustified'
  <2>1. ASSUME NEW h \in Goroutine, proc'[h].op = "delete"
        PROVE  DeleteJustified(h)'
    <3>1. proc[h].op = "delete"
      BY <1>d, <2>1
    <3>2. h[1] \in Syncer /\ DeleteJustified(h)
      BY <1>e, <3>1 DEF DeletesJustified
    <3> QED BY <1>d, <1>c, <3>2 DEF DeleteJustified
  <2> QED BY <2>1 DEF DeletesJustified
<1>1. ASSUME NEW g \in Goroutine, Work(g) PROVE DeletesJustified'
  <2>1. \A s \in Syncer : run'[s].pc = run[s].pc /\ run'[s].seen = run[s].seen
    <3>1. CASE UNCHANGED run
      BY <3>1
    <3>2. CASE AssignCtx(g)
      BY <3>2, <1>a DEF AssignCtx, Run
    <3>3. CASE ReadCtx(g)
      BY <3>3, <1>a DEF ReadCtx, Run
    <3>4. CASE EndDelete(g)
      <4>1. PICK c \in {g[2], run[g[1]].cfVar} :
              run' = [run EXCEPT ![g[1]].err = @ \/ At(g, "error"),
                                 ![g[1]].cancelled = @ \cup {c}]
        BY <3>4 DEF EndDelete
      <4> QED BY <4>1, <1>a DEF Run
    <3>5. CASE EndProvision(g)
      BY <3>5, <1>a DEF EndProvision, Run
    <3> QED BY <1>1, <3>1, <3>2, <3>3, <3>4, <3>5
            DEF Work, FindUser, CreateUser, FindTenant, CreateTenant,
                UpdateTenant, GetMember, AddMember, FindApp, CreateApp,
                GetIntegration, DeleteIntegration, CreateIntegration,
                DeleteUser, DeleteTenant, CallError
  <2> QED BY <1>1, <2>1, <1>b, WorkOps
<1>2. ASSUME NEW s \in Syncer, StartSync(s) \/ SyncStep(s)
      PROVE  DeletesJustified'
  <2>1. \A r \in Syncer \ {s} : run'[r].pc = run[r].pc /\ run'[r].seen = run[r].seen
    <3>1. CASE StartSync(s)
      BY <3>1, <1>a DEF StartSync, Disturb, Run
    <3>2. CASE SyncStep(s)
      BY <3>2, <1>a DEF SyncStep, ListAccounts, WaitProvisioned,
         SnapshotAccounts, ListChirpUsers, WaitDeleted, Finish
    <3> QED BY <1>2, <3>1, <3>2
  <2>2. \A h \in Goroutine : h[1] # s => proc'[h] = proc[h]
    BY <1>2 DEF StartSync, SyncStep, ListAccounts, WaitProvisioned,
       SnapshotAccounts, ListChirpUsers, WaitDeleted
  <2>3. ASSUME NEW h \in Goroutine, h[1] # s, proc'[h].op = "delete"
        PROVE  DeleteJustified(h)'
    <3>1. proc[h].op = "delete"
      BY <2>2, <2>3
    <3>2. h[1] \in Syncer /\ DeleteJustified(h)
      BY <1>e, <3>1 DEF DeletesJustified
    <3> QED BY <2>1, <2>3, <3>2 DEF DeleteJustified
  <2>4. ASSUME NEW h \in Goroutine, h[1] = s, proc'[h].op = "delete"
        PROVE  DeleteJustified(h)'
    <3>1. CASE ListChirpUsers(s)
      <4>1. proc[h].op # "delete"
        BY <2>4, <3>1 DEF ListChirpUsers, DeletesJustified, DeleteJustified
      <4>2. /\ user[h[2]] # None /\ h[2] \notin Protected \cup run[s].seen
            /\ run' = [run EXCEPT ![s].pc = "deleting"]
        BY <2>4, <3>1, <4>1 DEF ListChirpUsers
      <4> QED BY <2>4, <4>2, <1>a DEF DeleteJustified, Run
    <3>2. CASE WaitDeleted(s)
      <4>1. proc[h].pc = "idle"
        <5>1. h = <<s, h[2]>>
          BY <2>4 DEF Goroutine
        <5>2. h[2] \in Email /\ Free(s)
          BY <3>2, <1>e DEF WaitDeleted
        <5>3. proc[<<s, h[2]>>].pc = "idle"
          BY <5>2 DEF Free
        <5> QED BY <5>1, <5>3
      <4> QED BY <2>4, <3>2, <4>1, <1>e DEF WaitDeleted
    <3>3. CASE ListAccounts(s)
      <4>1. proc[h].op # "delete"
        BY <2>4, <3>3 DEF ListAccounts, DeletesJustified, DeleteJustified
      <4>2. proc'[h].op \in {"provision", proc[h].op}
        BY <3>3 DEF ListAccounts, Started, Idle
      <4> QED BY <2>4, <4>1, <4>2
    <3>4. CASE StartSync(s) \/ WaitProvisioned(s) \/ SnapshotAccounts(s)
      <4>1. proc'[h] = proc[h] /\ run[s].pc # "deleting"
        BY <3>4 DEF StartSync, WaitProvisioned, SnapshotAccounts
      <4> QED BY <2>4, <4>1 DEF DeletesJustified, DeleteJustified
    <3> QED BY <1>2, <3>1, <3>2, <3>3, <3>4 DEF SyncStep
  <2> QED BY <2>3, <2>4 DEF DeletesJustified
<1>3. ASSUME NEW s \in Sub, NEW u \in UserId, Register(s, u)
      PROVE  DeletesJustified'
  <2>1. \A h \in Goroutine : proc'[h].op \in {"provision", proc[h].op}
    <3>1. ASSUME NEW p \in Post,
                 proc' = [proc EXCEPT ![<<p, kc[s]>>] =
                            Started("provision", "tenant", s, u)]
          PROVE  \A h \in Goroutine : proc'[h].op \in {"provision", proc[h].op}
      BY <3>1, <1>a DEF Started, Idle
    <3>2. ASSUME UNCHANGED proc
          PROVE  \A h \in Goroutine : proc'[h].op \in {"provision", proc[h].op}
      BY <3>2
    <3> QED BY <1>3, <3>1, <3>2 DEF Register
  <2> QED BY <1>3, <2>1, <1>d DEF Register
<1>4. ASSUME NEW s \in Sub, NEW d \in Device, ResolveDevice(d, s)
      PROVE  DeletesJustified'
  <2>1. \A h \in Goroutine : proc'[h].op \in {"device", proc[h].op}
    <3>1. PICK e \in Email :
            proc' = [proc EXCEPT ![<<d, e>>] = Started("device", "tenant", s, None)]
      BY <1>4 DEF ResolveDevice
    <3> QED BY <3>1, <1>a DEF Started, Idle
  <2> QED BY <1>4, <2>1, <1>d DEF ResolveDevice
<1>5. ASSUME NEW s \in Sub, NEW w \in Gateway, ResolveGateway(w, s)
      PROVE  DeletesJustified'
  <2>1. \A h \in Goroutine : proc'[h].op \in {"gateway", proc[h].op}
    BY <1>5, <1>a DEF ResolveGateway, Started, Idle
  <2> QED BY <1>5, <2>1, <1>d DEF ResolveGateway
<1>6. ASSUME \/ \E s \in Sub, x \in Email \cup {Deleted, NoEmail} : SetAccount(s, x)
             \/ \E s \in Sub : CacheExpires(s)
             \/ UNCHANGED vars
      PROVE  DeletesJustified'
  <2>1. UNCHANGED proc
    BY <1>6 DEF SetAccount, CacheExpires, vars
  <2>2. \A s \in Syncer : run'[s].pc = run[s].pc /\ run'[s].seen = run[s].seen
    BY <1>6, <1>c DEF SetAccount, CacheExpires, vars
  <2> QED BY <2>1, <2>2, <1>b
<1>7. CASE Restart
  BY <1>7 DEF Restart, Idle, DeletesJustified
<1> QED BY <1>1, <1>2, <1>3, <1>4, <1>5, <1>6, <1>7 DEF Next

DeleteStep ==
  \A e \in Email :
    \/ user[e] # None /\ user'[e] # user[e]
    \/ \E t \in TenantId : tenant[t] = e /\ tenant'[t] # e
    => /\ e \notin Protected
       /\ \E s \in Syncer : run[s].pc = "deleting" /\ e \notin run[s].seen

LEMMA DeleteStepHolds ==
  ASSUME TypeInv, ExactSearch, UserInv, HeldTenantIsOwn, DeletesJustified,
         [Next]_vars
  PROVE  DeleteStep
<1>a. /\ \A g \in Goroutine : proc[g].op = "delete" => g[1] \in Syncer
      /\ \A g \in Goroutine : g[2] \in Email
      /\ tenant \in [TenantId -> Email \cup {None}] /\ None \notin Email
      /\ user \in [Email -> UserId \cup {None}]
      /\ None \notin TenantId
  BY IdAssumption DEF TypeInv, TypeOK, LocalsOK, LocalOK, Goroutine
<1>b. ASSUME NEW g \in Goroutine, proc[g].op = "delete"
      PROVE  /\ g[2] \notin Protected
             /\ \E s \in Syncer : run[s].pc = "deleting" /\ g[2] \notin run[s].seen
  BY <1>a, <1>b DEF DeletesJustified, DeleteJustified
<1>1. ASSUME NEW e \in Email, user[e] # None, user'[e] # user[e]
      PROVE  \E g \in Goroutine : proc[g].op = "delete" /\ g[2] = e
  <2>1. PICK g \in Goroutine : UserFound(g) \/ UserMade(g) \/ UserDeleted(g)
    BY <1>1, NextIds DEF UserKept
  <2>2. UserDeleted(g)
    BY <1>1, <2>1, <1>a DEF UserFound, UserMade
  <2>3. user[e] = proc[g].uid /\ proc[g].op = "delete"
    BY <1>1, <2>2 DEF UserDeleted
  <2> QED BY <1>1, <2>3 DEF UserInv, HeldUserIsOwn
<1>2. ASSUME NEW e \in Email, NEW t \in TenantId, tenant[t] = e, tenant'[t] # e
      PROVE  \E g \in Goroutine : proc[g].op = "delete" /\ g[2] = e
  <2>1. PICK g \in Goroutine : \/ TenantFound(g) \/ TenantMade(g)
                               \/ TenantRenamed(g) \/ TenantDeleted(g)
    BY <1>2, NextIds DEF TenantKept
  <2>2. CASE TenantFound(g) \/ TenantMade(g)
    BY <1>2, <2>2, <1>a DEF TenantFound, TenantMade, FreshTenant, UnusedTenant
  <2>3. CASE TenantRenamed(g)
    <3>1. tenant[proc[g].tid] = g[2]
      BY <2>3, <1>a DEF TenantRenamed, HeldTenantIsOwn
    <3> QED BY <1>2, <2>3, <3>1, <1>a DEF TenantRenamed
  <2>4. CASE TenantDeleted(g)
    <3>1. proc[g].tid = t /\ proc[g].op = "delete"
      BY <1>2, <2>4, <1>a DEF TenantDeleted
    <3> QED BY <1>2, <3>1, <1>a DEF HeldTenantIsOwn
  <2> QED BY <2>1, <2>2, <2>3, <2>4
<1> QED BY <1>1, <1>2, <1>b DEF DeleteStep

\* Under the same search, users and tenants disappear only by a sync that did
\* not find their email in Keycloak, and protected users never do
\* (Provision's DeletesOnlyUnseen).
THEOREM DeletesOnlyUnseenCorrect ==
  ASSUME ExactSearch
  PROVE  Spec => DeletesOnlyUnseen
<1> DEFINE Inv == TypeInv /\ UserInv /\ HeldTenantIsOwn /\ DeletesJustified
<1>1. Init => Inv
  BY InitType DEF Init, Idle, UserInv, UsersUnique, HeldUserIsOwn,
     HeldTenantIsOwn, DeletesJustified
<1>2. Inv /\ [Next]_vars => Inv'
  BY NextType, UserInvStep, HeldTenantStep, JustifiedStep
<1>3. Inv /\ [Next]_vars => [DeleteStep]_vars
  BY DeleteStepHolds
<1> QED BY <1>1, <1>2, <1>3, PTL DEF Spec, DeletesOnlyUnseen, DeleteStep

=============================================================================
