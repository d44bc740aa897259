------------------------- MODULE ProvisionSyncProofs -------------------------
(***************************************************************************)
(* Proofs about what a sync of the users achieves and about tenants that    *)
(* are there once (Provision), for any number of accounts, emails,         *)
(* restarts and failing calls.                                             *)
(***************************************************************************)
EXTENDS ProvisionProofs, FiniteSetTheorems

-----------------------------------------------------------------------------
(* Steps.                                                                  *)

LEMMA Domains ==
  ASSUME TypeInv
  PROVE  /\ proc \in [Goroutine -> Worker] /\ run \in [Syncer -> Run]
         /\ \A g \in Goroutine : g[2] \in Email /\ g = <<g[1], g[2]>>
         /\ \A s \in Syncer, e \in Email : <<s, e>> \in Goroutine
         /\ \A c \in Caller, e \in Email : <<c, e>> \in Goroutine
BY DEF TypeInv, TypeOK, Goroutine

\* A goroutine's step changes its own record only, and it has work to do.
LEMMA WorkOthers ==
  ASSUME TypeInv, NEW g \in Goroutine, Work(g)
  PROVE  /\ \A h \in Goroutine \ {g} : proc'[h] = proc[h]
         /\ ~At(g, "idle")
<1>a. proc \in [Goroutine -> Worker]
  BY Domains
<1>b. ASSUME NEW l, Reply(g, l)
      PROVE  \A h \in Goroutine \ {g} : proc'[h] = proc[h]
  BY <1>a, <1>b DEF Reply
<1>1. ~At(g, "idle")
  BY DEF At, Work, FindUser, CreateUser, FindTenant, CreateTenant, UpdateTenant,
     GetMember, AddMember, FindApp, CreateApp, GetIntegration,
     DeleteIntegration, CreateIntegration, AssignCtx, ReadCtx, DeleteUser,
     DeleteTenant, EndDelete, EndProvision, CallError, CallPc
<1>2. CASE FindUser(g) \/ CreateUser(g)
  BY <1>1, <1>2, <1>a, <1>b DEF FindUser, CreateUser
<1>3. CASE FindTenant(g) \/ CreateTenant(g) \/ UpdateTenant(g)
  BY <1>1, <1>3, <1>a, <1>b DEF FindTenant, CreateTenant, UpdateTenant
<1>4. CASE ~FindUser(g) /\ ~CreateUser(g) /\ ~FindTenant(g) /\ ~CreateTenant(g)
  BY <1>1, <1>4, PlainMoves, MovesKeeps
<1> QED
  BY <1>1, <1>2, <1>3, <1>4

\* What the reply of a call makes of the goroutine's record.
LEMMA Replied ==
  ASSUME TypeInv, NEW g \in Goroutine, NEW l, Reply(g, l)
  PROVE  \/ proc'[g] = l
         \/ /\ proc'[g] = [proc[g] EXCEPT !.pc = "error"]
            /\ CallsFail \/ Cancelled(g)
BY Domains DEF Reply

LEMMA Failed ==
  ASSUME TypeInv, NEW g \in Goroutine, proc' = [proc EXCEPT ![g].pc = "error"]
  PROVE  proc'[g] = [proc[g] EXCEPT !.pc = "error"] /\ proc'[g].pc = "error"
BY Domains DEF Worker

\* A tenant or an app is created by a goroutine that has just found none.
LEMMA Enters ==
  ASSUME TypeInv, NEW g \in Goroutine, Work(g)
  PROVE  /\ proc'[g].pc = "createTenant" => FindTenant(g) /\ Matches(g[2]) = {}
         /\ proc'[g].pc = "createApp" =>
              /\ FindApp(g) /\ AppsOf(proc[g].tid) = {}
              /\ proc'[g].tid = proc[g].tid
<1> DEFINE p == proc'[g].pc
<1>a. /\ proc[g] \in Worker /\ LocalOK(g, proc[g]) /\ proc \in [Goroutine -> Worker]
      /\ AfterTenant(proc[g].op) \notin {"createTenant", "createApp"}
      /\ AfterApp(proc[g].op) \notin {"createTenant", "createApp"}
  BY AfterTenantOK, Domains DEF TypeInv, LocalsOK, Worker, AfterApp
<1>b. ASSUME NEW l, Reply(g, l), l.pc \notin {"createTenant", "createApp"}
      PROVE  p \notin {"createTenant", "createApp"}
  BY <1>a, <1>b, Replied DEF Worker
<1>c. ASSUME proc' = [proc EXCEPT ![g].pc = "error"]
      PROVE  p \notin {"createTenant", "createApp"}
  BY <1>c, Failed
<1>d. ASSUME NEW q, q \notin {"createTenant", "createApp"}, Reply(g, Goto(g, q))
      PROVE  p \notin {"createTenant", "createApp"}
  BY <1>a, <1>b, <1>d DEF Goto, Worker
<1>1. CASE FindUser(g)
  <2>1. CASE user[g[2]] # None
    BY <1>1, <1>a, <1>b, <2>1 DEF FindUser, Worker
  <2>2. CASE user[g[2]] = None
    BY <1>1, <1>d, <2>2 DEF FindUser
  <2> QED BY <2>1, <2>2
<1>2. CASE CreateUser(g)
  <2>1. ASSUME NEW u \in UserId, Reply(g, [proc[g] EXCEPT !.uid = u, !.pc = "tenant"])
        PROVE  p \notin {"createTenant", "createApp"}
    BY <1>a, <1>b, <2>1 DEF Worker
  <2> QED BY <1>2, <1>c, <2>1 DEF CreateUser
<1>3. CASE FindTenant(g)
  <2>1. CASE Matches(g[2]) = {} /\ Reply(g, Goto(g, "createTenant"))
    <3>1. p \in {"createTenant", "error"}
      BY <1>a, <2>1, Replied DEF Goto, Worker
    <3> QED BY <1>3, <2>1, <3>1
  <2>2. ASSUME NEW t, Reply(g, [proc[g] EXCEPT !.tid = t,
                                 !.pc = IF UpdateTenants THEN "updateTenant"
                                        ELSE AfterTenant(proc[g].op)])
        PROVE  p \notin {"createTenant", "createApp"}
    BY <1>a, <1>b, <2>2 DEF Worker
  <2> QED BY <1>3, <1>c, <2>1, <2>2 DEF FindTenant
<1>4. CASE CreateTenant(g)
  <2>1. PICK t : Reply(g, [proc[g] EXCEPT !.tid = t, !.pc = AfterTenant(proc[g].op)])
    BY <1>4 DEF CreateTenant
  <2> QED BY <1>a, <1>b, <2>1 DEF Worker
<1>5. CASE UpdateTenant(g)
  BY <1>5, <1>a, <1>c, <1>d DEF UpdateTenant
<1>6. CASE GetMember(g) \/ AddMember(g)
  BY <1>6, <1>c, <1>d DEF GetMember, AddMember
<1>7. CASE FindApp(g)
  <2>1. CASE AppsOf(proc[g].tid) = {} /\ Reply(g, Goto(g, "createApp"))
    <3>1. p \in {"createApp", "error"} /\ proc'[g].tid = proc[g].tid
      BY <1>a, <2>1, Replied DEF Goto, Worker
    <3> QED BY <1>7, <2>1, <3>1
  <2>2. ASSUME NEW a, Reply(g, [proc[g] EXCEPT !.aid = a, !.pc = AfterApp(proc[g].op)])
        PROVE  p \notin {"createTenant", "createApp"}
    BY <1>a, <1>b, <2>2 DEF Worker
  <2> QED BY <1>7, <1>c, <2>1, <2>2 DEF FindApp
<1>8. CASE CreateApp(g)
  <2>1. ASSUME NEW a, Reply(g, [proc[g] EXCEPT !.aid = a, !.pc = AfterApp(proc[g].op)])
        PROVE  p \notin {"createTenant", "createApp"}
    BY <1>a, <1>b, <2>1 DEF Worker
  <2> QED BY <1>8, <1>c, <2>1 DEF CreateApp
<1>9. CASE GetIntegration(g)
  <2>1. PICK q \in {"createIntegration", "deleteIntegration", "ok"} :
          Reply(g, Goto(g, q))
    BY <1>9 DEF GetIntegration
  <2> QED BY <1>d, <2>1
<1>10. CASE DeleteIntegration(g) \/ CreateIntegration(g)
  BY <1>10, <1>c, <1>d DEF DeleteIntegration, CreateIntegration
<1>11. CASE AssignCtx(g)
  BY <1>11, <1>a DEF AssignCtx, Worker
<1>12. CASE ReadCtx(g)
  BY <1>12, <1>a DEF ReadCtx, Worker
<1>13. CASE DeleteUser(g) \/ DeleteTenant(g)
  BY <1>13, <1>c, <1>d DEF DeleteUser, DeleteTenant
<1>14. CASE EndDelete(g) \/ EndProvision(g)
  BY <1>14, <1>a DEF EndDelete, EndProvision, Idle
<1>15. CASE CallError(g)
  BY <1>15, <1>c DEF CallError
<1> QED BY <1>1, <1>2, <1>3, <1>4, <1>5, <1>6, <1>7, <1>8, <1>9, <1>10, <1>11,
           <1>12, <1>13, <1>14, <1>15 DEF Work

\* Whatever else happens leaves tenants and apps alone, and goroutines where
\* they are, at their start or gone.
LEMMA OtherKeeps ==
  ASSUME TypeInv, [Next]_vars, ~\E g \in Goroutine : Work(g)
  PROVE  /\ UNCHANGED <<tenant, members, app, integ>>
         /\ \A g \in Goroutine :
              proc'[g] = proc[g] \/ proc'[g].pc \in {"idle", "user", "tenant", "assign"}
<1>a. proc \in [Goroutine -> Worker]
  BY Domains
<1>1. ASSUME NEW s \in Syncer, StartSync(s) \/ SyncStep(s)
      PROVE  /\ UNCHANGED <<tenant, members, app, integ>>
             /\ \A g \in Goroutine : \/ proc'[g] = proc[g]
                                     \/ proc'[g].pc \in {"user", "assign"}
  <2>1. UNCHANGED chirp
    BY <1>1 DEF StartSync, SyncStep, ListAccounts, WaitProvisioned,
       SnapshotAccounts, ListChirpUsers, WaitDeleted
  <2>2. CASE UNCHANGED proc
    BY <2>1, <2>2 DEF chirp
  <2>3. CASE ListAccounts(s) /\ ~UNCHANGED proc
    BY <2>1, <2>3 DEF chirp, ListAccounts, Started, Idle
  <2>4. CASE ListChirpUsers(s) /\ ~UNCHANGED proc
    BY <2>1, <2>4 DEF chirp, ListChirpUsers, Started, Idle
  <2> QED BY <1>1, <2>2, <2>3, <2>4
          DEF StartSync, SyncStep, WaitProvisioned, SnapshotAccounts, WaitDeleted
<1>2. ASSUME NEW h \in Goroutine, NEW o, NEW s, NEW u,
             proc' = [proc EXCEPT ![h] = Started(o, "tenant", s, u)]
      PROVE  \A g \in Goroutine : proc'[g] = proc[g] \/ proc'[g].pc = "tenant"
  BY <1>2, <1>a DEF Started, Idle
<1>3. ASSUME NEW s \in Sub, NEW u \in UserId, Register(s, u)
      PROVE  /\ UNCHANGED <<tenant, members, app, integ>>
             /\ \A g \in Goroutine : proc'[g] = proc[g] \/ proc'[g].pc = "tenant"
  <2>1. \/ UNCHANGED proc
        \/ \E h \in Goroutine : proc' = [proc EXCEPT ![h] =
                                           Started("provision", "tenant", s, u)]
    BY <1>3, Domains DEF Register, Caller
  <2> QED BY <1>2, <1>3, <2>1 DEF Register
<1>4. ASSUME NEW s \in Sub, NEW d \in Device, ResolveDevice(d, s)
      PROVE  /\ UNCHANGED <<tenant, members, app, integ>>
             /\ \A g \in Goroutine : proc'[g] = proc[g] \/ proc'[g].pc = "tenant"
  BY <1>4, <1>a DEF ResolveDevice, Started, Idle, chirp
<1>5. ASSUME NEW s \in Sub, NEW w \in Gateway, ResolveGateway(w, s)
      PROVE  /\ UNCHANGED <<tenant, members, app, integ>>
             /\ \A g \in Goroutine : proc'[g] = proc[g] \/ proc'[g].pc = "tenant"
  BY <1>5, <1>a DEF ResolveGateway, Started, Idle, chirp
<1>6. CASE Restart
  BY <1>6 DEF Restart, Idle, chirp
<1>7. ASSUME \/ \E s \in Sub, x \in Email \cup {Deleted, NoEmail} : SetAccount(s, x)
             \/ \E s \in Sub : CacheExpires(s)
             \/ UNCHANGED vars
      PROVE  UNCHANGED <<tenant, members, app, integ, proc>>
  BY <1>7 DEF SetAccount, CacheExpires, vars, chirp
<1> QED BY <1>1, <1>3, <1>4, <1>5, <1>6, <1>7 DEF Next

-----------------------------------------------------------------------------
(* One caller at a time.                                                   *)

\* No two goroutines work on the same email.
OneWorker ==
  \A g, h \in Goroutine :
    g[2] = h[2] /\ ~At(g, "idle") /\ ~At(h, "idle") => g = h

\* Whoever is about to create a tenant is the only one who could, and there is
\* none; the same for the app of a tenant.
TenantInv ==
  /\ OneTenantPerEmail
  /\ \A g \in Goroutine : At(g, "createTenant") =>
       \A t \in TenantId : tenant[t] # g[2]
AppInv ==
  /\ \A a, b \in AppId : app[a] # None /\ app[a] = app[b] => a = b
  /\ \A g \in Goroutine : At(g, "createApp") => AppsOf(proc[g].tid) = {}

LEMMA TenantStep ==
  ASSUME TypeInv, ExactSearch, HeldTenantIsOwn, OneWorker, TenantInv, [Next]_vars
  PROVE  TenantInv'
<1>a. /\ tenant \in [TenantId -> Email \cup {None}] /\ None \notin Email
      /\ \A g \in Goroutine : g[2] \in Email
  BY IdAssumption, Domains DEF TypeInv, TypeOK
<1>1. CASE ~\E g \in Goroutine : Work(g)
  <2>1. tenant' = tenant
    BY <1>1, OtherKeeps
  <2>2. \A g \in Goroutine : At(g, "createTenant")' => At(g, "createTenant")
    BY <1>1, OtherKeeps DEF At
  <2> QED BY <2>1, <2>2 DEF TenantInv, OneTenantPerEmail
<1>2. ASSUME NEW g \in Goroutine, Work(g)
      PROVE  TenantInv'
  <2>a. /\ \A h \in Goroutine \ {g} : proc'[h] = proc[h]
        /\ \A h \in Goroutine \ {g} : ~At(h, "idle") => h[2] # g[2]
        /\ LocalOK(g, proc[g]) /\ proc[g] \in Worker
    BY <1>2, WorkOthers DEF OneWorker, TypeInv, TypeOK, LocalsOK
  <2>b. \A h \in Goroutine : At(h, "createTenant") =>
          \A t \in TenantId : tenant[t] # h[2]
    BY DEF TenantInv
  \* Nothing gets a name, except the new tenant.
  <2>c. ASSUME ~CreateTenant(g)
        PROVE  \A t \in TenantId : tenant'[t] \in {None, tenant[t]}
    <3>1. CASE UpdateTenant(g)
      <4>1. proc[g].tid # None /\ proc[g].tid \in TenantId
        BY <2>a, <3>1, IdAssumption DEF UpdateTenant, At, LocalOK, Worker
      <4> QED BY <1>a, <3>1, <4>1 DEF UpdateTenant, HeldTenantIsOwn
    <3>2. CASE DeleteTenant(g)
      BY <1>a, <3>2 DEF DeleteTenant
    <3>3. CASE UNCHANGED tenant
      BY <3>3
    <3> QED BY <1>2, <2>c, <3>1, <3>2, <3>3
            DEF Work, FindUser, CreateUser, FindTenant, GetMember, AddMember,
                FindApp, CreateApp, GetIntegration, DeleteIntegration,
                CreateIntegration, AssignCtx, ReadCtx, DeleteUser, EndDelete,
                EndProvision, CallError, chirp
  <2>1. CASE CreateTenant(g)
    <3>1. PICK t \in TenantId : /\ tenant[t] = None
                                /\ tenant' = [tenant EXCEPT ![t] = g[2]]
      BY <2>1 DEF CreateTenant, FreshTenant, UnusedTenant
    <3>2. \A v \in TenantId : tenant[v] # g[2]
      BY <2>1, <2>b DEF CreateTenant
    <3>3. OneTenantPerEmail'
      BY <1>a, <3>1, <3>2 DEF TenantInv, OneTenantPerEmail
    <3>4. ~At(g, "createTenant")'
      BY <1>2, <2>1, Enters DEF At, FindTenant, CreateTenant
    <3>5. ASSUME NEW h \in Goroutine, At(h, "createTenant")'
          PROVE  \A v \in TenantId : tenant'[v] # h[2]
      <4>1. h # g /\ At(h, "createTenant") /\ ~At(h, "idle")
        BY <2>a, <3>4, <3>5 DEF At
      <4>2. h[2] # g[2] /\ h[2] # None
        BY <1>a, <2>a, <4>1
      <4> QED BY <1>a, <2>b, <3>1, <4>1, <4>2
    <3> QED BY <3>3, <3>5 DEF TenantInv
  <2>2. CASE ~CreateTenant(g)
    <3>1. OneTenantPerEmail'
      BY <2>c, <2>2 DEF TenantInv, OneTenantPerEmail
    <3>2. ASSUME NEW h \in Goroutine, At(h, "createTenant")'
          PROVE  \A v \in TenantId : tenant[v] # h[2]
      <4>1. CASE h = g
        BY <1>2, <1>a, <3>2, <4>1, Enters DEF At, Matches, ExactSearch
      <4>2. CASE h # g
        BY <2>a, <2>b, <3>2, <4>2 DEF At
      <4> QED BY <4>1, <4>2
    <3>3. \A h \in Goroutine : h[2] # None
      BY <1>a
    <3> QED BY <2>c, <2>2, <3>1, <3>2, <3>3 DEF TenantInv
  <2> QED BY <2>1, <2>2
<1> QED
  BY <1>1, <1>2

\* As long as no two callers work on an email at the same time, no restart,
\* failed call or lost reply gives it a second tenant, although looking one up
\* and creating it are two calls (getOrCreateChirpstackTenantId).
THEOREM OneTenantCorrect ==
  ASSUME ExactSearch
  PROVE  Spec /\ []OneWorker => []OneTenantPerEmail
<1> DEFINE Inv == TypeInv /\ HeldTenantIsOwn /\ TenantInv
<1>1. Init => Inv
  <2>1. Init => OneTenantPerEmail
    BY DEF Init, OneTenantPerEmail
  <2> QED BY <2>1, InitType DEF Init, Idle, HeldTenantIsOwn, TenantInv, At
<1>2. Inv /\ OneWorker /\ [Next]_vars => Inv'
  BY NextType, HeldTenantStep, TenantStep
<1>3. Inv => OneTenantPerEmail
  BY DEF TenantInv
<1> QED BY <1>1, <1>2, <1>3, PTL DEF Spec

-----------------------------------------------------------------------------
(* Phases of the sync runs.                                                *)

\* The goroutines of a run work in the phase of the run that waits for them.
PhaseInv ==
  \A s \in Syncer, e \in Email : ~At(<<s, e>>, "idle") =>
    \/ proc[<<s, e>>].op = "provision" /\ run[s].pc = "provisioning"
    \/ proc[<<s, e>>].op = "delete" /\ run[s].pc = "deleting"
\* A quiet run is the only one that does anything.
QuietInv == \A s \in Syncer : run[s].quiet => Alone(s)

LEMMA WorkOp ==
  ASSUME TypeInv, NEW g \in Goroutine, Work(g)
  PROVE  proc'[g] = Idle \/ proc'[g].op = proc[g].op
<1>a. proc[g] \in Worker /\ proc \in [Goroutine -> Worker]
  BY Domains
<1>b. ASSUME NEW l, Reply(g, l), l.op = proc[g].op
      PROVE  proc'[g].op = proc[g].op
  BY <1>a, <1>b, Replied DEF Worker
<1>c. ASSUME proc' = [proc EXCEPT ![g].pc = "error"]
      PROVE  proc'[g].op = proc[g].op
  BY <1>a, <1>c, Failed DEF Worker
<1>1. CASE FindUser(g)
  <2>1. CASE user[g[2]] # None
    BY <1>1, <1>a, <1>b, <2>1 DEF FindUser, Worker
  <2>2. CASE user[g[2]] = None
    BY <1>1, <1>a, <1>b, <2>2 DEF FindUser, Goto, Worker
  <2> QED BY <2>1, <2>2
<1>2. CASE CreateUser(g)
  <2>1. ASSUME NEW u \in UserId, Reply(g, [proc[g] EXCEPT !.uid = u, !.pc = "tenant"])
        PROVE  proc'[g].op = proc[g].op
    BY <1>a, <1>b, <2>1 DEF Worker
  <2> QED BY <1>2, <1>c, <2>1 DEF CreateUser
<1>3. CASE FindTenant(g)
  <2>1. CASE Reply(g, Goto(g, "createTenant"))
    BY <1>a, <1>b, <2>1 DEF Goto, Worker
  <2>2. ASSUME NEW t, Reply(g, [proc[g] EXCEPT !.tid = t,
                                 !.pc = IF UpdateTenants THEN "updateTenant"
                                        ELSE AfterTenant(proc[g].op)])
        PROVE  proc'[g].op = proc[g].op
    BY <1>a, <1>b, <2>2 DEF Worker
  <2> QED BY <1>3, <1>c, <2>1, <2>2 DEF FindTenant
<1>4. CASE CreateTenant(g)
  <2>1. PICK t : Reply(g, [proc[g] EXCEPT !.tid = t, !.pc = AfterTenant(proc[g].op)])
    BY <1>4 DEF CreateTenant
  <2> QED BY <1>a, <1>b, <2>1 DEF Worker
<1>5. CASE Moves(g)
  BY <1>5, <1>a DEF Moves, Worker
<1>6. CASE ~FindUser(g) /\ ~CreateUser(g) /\ ~FindTenant(g) /\ ~CreateTenant(g)
  BY <1>5, <1>6, PlainMoves
<1> QED BY <1>1, <1>2, <1>3, <1>4, <1>6

\* A goroutine's step leaves its run where it is; only one that has failed sets
\* the run's error.
LEMMA WorkRuns ==
  ASSUME TypeInv, NEW g \in Goroutine, Work(g), NEW s \in Syncer
  PROVE  /\ run'[s].pc = run[s].pc /\ run'[s].seen = run[s].seen
         /\ run'[s].quiet = run[s].quiet
         /\ run[s].cancelled \subseteq run'[s].cancelled
         /\ run[s].err => run'[s].err
         /\ ~run[s].err /\ run'[s].err => g[1] = s /\ At(g, "error")
         /\ ~run'[s].err /\ g[1] = s /\ proc'[g] = Idle => At(g, "ok")
<1>a. run \in [Syncer -> Run] /\ proc \in [Goroutine -> Worker]
  BY Domains
<1>b. ASSUME ~EndDelete(g), ~EndProvision(g)
      PROVE  proc'[g] # Idle
  <2>1. proc'[g].pc # "idle"
    <3>a. /\ AfterTenant(proc[g].op) # "idle" /\ AfterApp(proc[g].op) # "idle"
          /\ proc[g] \in Worker
      BY <1>a, AfterTenantOK DEF Worker, AfterApp
    <3>b. ASSUME NEW l, Reply(g, l), l.pc # "idle"
          PROVE  proc'[g].pc # "idle"
      BY <3>a, <3>b, Replied DEF Worker
    <3>c. ASSUME proc' = [proc EXCEPT ![g].pc = "error"]
          PROVE  proc'[g].pc # "idle"
      BY <3>c, Failed
    <3>d. ASSUME NEW q, q # "idle", Reply(g, Goto(g, q))
          PROVE  proc'[g].pc # "idle"
      BY <3>a, <3>b, <3>d DEF Goto, Worker
    <3>1. CASE FindUser(g)
      <4>1. CASE user[g[2]] # None
        BY <3>1, <3>a, <3>b, <4>1 DEF FindUser, Worker
      <4>2. CASE user[g[2]] = None
        BY <3>1, <3>d, <4>2 DEF FindUser
      <4> QED BY <4>1, <4>2
    <3>2. CASE CreateUser(g)
      <4>1. ASSUME NEW u \in UserId,
                   Reply(g, [proc[g] EXCEPT !.uid = u, !.pc = "tenant"])
            PROVE  proc'[g].pc # "idle"
        BY <3>a, <3>b, <4>1 DEF Worker
      <4> QED BY <3>2, <3>c, <4>1 DEF CreateUser
    <3>3. CASE FindTenant(g)
      <4>1. ASSUME NEW t, Reply(g, [proc[g] EXCEPT !.tid = t,
                                     !.pc = IF UpdateTenants THEN "updateTenant"
                                            ELSE AfterTenant(proc[g].op)])
            PROVE  proc'[g].pc # "idle"
        BY <3>a, <3>b, <4>1 DEF Worker
      <4> QED BY <3>3, <3>c, <3>d, <4>1 DEF FindTenant
    <3>4. CASE CreateTenant(g)
      <4>1. PICK t : Reply(g, [proc[g] EXCEPT !.tid = t,
                                              !.pc = AfterTenant(proc[g].op)])
        BY <3>4 DEF CreateTenant
      <4> QED BY <3>a, <3>b, <4>1 DEF Worker
    <3>5. CASE UpdateTenant(g) \/ GetMember(g) \/ AddMember(g)
      BY <3>5, <3>a, <3>c, <3>d DEF UpdateTenant, GetMember, AddMember
    <3>6. CASE FindApp(g) \/ CreateApp(g)
      <4>1. ASSUME NEW a, Reply(g, [proc[g] EXCEPT !.aid = a,
                                                   !.pc = AfterApp(proc[g].op)])
            PROVE  proc'[g].pc # "idle"
        BY <3>a, <3>b, <4>1 DEF Worker
      <4> QED BY <3>6, <3>c, <3>d, <4>1 DEF FindApp, CreateApp
    <3>7. CASE GetIntegration(g)
      <4>1. PICK q \in {"createIntegration", "deleteIntegration", "ok"} :
              Reply(g, Goto(g, q))
        BY <3>7 DEF GetIntegration
      <4> QED BY <3>d, <4>1
    <3>8. CASE \/ DeleteIntegration(g) \/ CreateIntegration(g)
               \/ DeleteUser(g) \/ DeleteTenant(g)
      BY <3>8, <3>c, <3>d
         DEF DeleteIntegration, CreateIntegration, DeleteUser, DeleteTenant
    <3>9. CASE AssignCtx(g) \/ ReadCtx(g) \/ CallError(g)
      BY <3>9, <3>a, <1>a, <3>c DEF AssignCtx, ReadCtx, CallError, Worker
    <3> QED BY <1>b, <3>1, <3>2, <3>3, <3>4, <3>5, <3>6, <3>7, <3>8, <3>9 DEF Work
  <2> QED BY <2>1 DEF Idle
<1>1. CASE UNCHANGED run /\ ~EndDelete(g) /\ ~EndProvision(g)
  BY <1>1, <1>b
<1>2. CASE AssignCtx(g)
  BY <1>2, <1>a, <1>b DEF AssignCtx, Run, EndDelete, EndProvision, At
<1>3. CASE ReadCtx(g)
  BY <1>3, <1>a, <1>b DEF ReadCtx, Run, EndDelete, EndProvision, At
<1>4. CASE EndDelete(g)
  <2>1. PICK c \in {g[2], run[g[1]].cfVar} :
          run' = [run EXCEPT ![g[1]].err = @ \/ At(g, "error"),
                             ![g[1]].cancelled = @ \cup {c}]
    BY <1>4 DEF EndDelete
  <2>2. /\ run'[s].pc = run[s].pc /\ run'[s].seen = run[s].seen
        /\ run'[s].quiet = run[s].quiet
        /\ run[s].cancelled \subseteq run'[s].cancelled
        /\ run'[s].err <=> run[s].err \/ (g[1] = s /\ At(g, "error"))
    BY <1>a, <2>1 DEF Run
  <2>3. At(g, "ok") \/ At(g, "error")
    BY <1>4 DEF EndDelete, At
  <2> QED BY <2>2, <2>3
<1>5. CASE EndProvision(g)
  <2>1. /\ run'[s].pc = run[s].pc /\ run'[s].seen = run[s].seen
        /\ run'[s].quiet = run[s].quiet
        /\ run[s].cancelled \subseteq run'[s].cancelled
        /\ run'[s].err <=> run[s].err \/ (g[1] = s /\ At(g, "error"))
    BY <1>5, <1>a DEF EndProvision, Run
  <2>2. At(g, "ok") \/ At(g, "error")
    BY <1>5 DEF EndProvision, At
  <2> QED BY <2>1, <2>2
<1> QED BY <1>1, <1>2, <1>3, <1>4, <1>5
        DEF Work, FindUser, CreateUser, FindTenant, CreateTenant, UpdateTenant,
            GetMember, AddMember, FindApp, CreateApp, GetIntegration,
            DeleteIntegration, CreateIntegration, DeleteUser, DeleteTenant, CallError

LEMMA PhaseFree ==
  ASSUME PhaseInv, NEW s \in Syncer, run[s].pc \notin {"provisioning", "deleting"}
  PROVE  \A e \in Email : At(<<s, e>>, "idle")
BY DEF PhaseInv

\* What a step of run r does to the goroutines and to the other runs.
LEMMA SyncOthers ==
  ASSUME TypeInv, NEW r \in Syncer, SyncStep(r)
  PROVE  /\ \A g \in Goroutine : g[1] # r => proc'[g] = proc[g]
         /\ \A s \in Syncer \ {r} : run'[s] = run[s]
         /\ run'[r].quiet = run[r].quiet
         /\ run[r].pc \notin {"off", "done"}
         /\ UNCHANGED <<kc, chirp, cached, endpoint, changes, crashes>>
<1>a. run \in [Syncer -> Run]
  BY Domains
<1> QED
  BY <1>a DEF SyncStep, ListAccounts, WaitProvisioned, SnapshotAccounts,
     ListChirpUsers, WaitDeleted, Finish, Run, config

LEMMA PhaseStep ==
  ASSUME TypeInv, PhaseInv, [Next]_vars
  PROVE  PhaseInv'
<1>a. /\ run \in [Syncer -> Run] /\ proc \in [Goroutine -> Worker]
      /\ \A s \in Syncer, e \in Email : <<s, e>> \in Goroutine
      /\ \A c \in Caller : c \notin Syncer
  BY Domains, ActorAssumption
<1>b. ASSUME \A s \in Syncer, e \in Email : proc'[<<s, e>>] = proc[<<s, e>>],
             \A s \in Syncer : run'[s].pc = run[s].pc
      PROVE  PhaseInv'
  BY <1>b DEF PhaseInv, At
<1>c. ASSUME run' = Disturb(run)
      PROVE  \A s \in Syncer : run'[s].pc = run[s].pc
  BY <1>a, <1>c DEF Disturb, Run
<1>1. ASSUME NEW g \in Goroutine, Work(g) PROVE PhaseInv'
  <2>1. \A s \in Syncer : run'[s].pc = run[s].pc
    BY <1>1, WorkRuns
  <2>2. /\ \A h \in Goroutine \ {g} : proc'[h] = proc[h]
        /\ proc'[g] = Idle \/ proc'[g].op = proc[g].op
        /\ ~At(g, "idle")
    BY <1>1, WorkOthers, WorkOp
  <2>3. ASSUME NEW s \in Syncer, NEW e \in Email, ~At(<<s, e>>, "idle")'
        PROVE  ~At(<<s, e>>, "idle") /\ proc'[<<s, e>>].op = proc[<<s, e>>].op
    BY <1>a, <2>2, <2>3 DEF At, Idle
  <2> QED BY <2>1, <2>3 DEF PhaseInv
<1>2. ASSUME NEW r \in Syncer, SyncStep(r) PROVE PhaseInv'
  <2>1. ASSUME NEW s \in Syncer \ {r}, NEW e \in Email, ~At(<<s, e>>, "idle")'
        PROVE  \/ proc'[<<s, e>>].op = "provision" /\ run'[s].pc = "provisioning"
               \/ proc'[<<s, e>>].op = "delete" /\ run'[s].pc = "deleting"
    BY <1>2, <1>a, <2>1, SyncOthers DEF PhaseInv, At
  <2>2. ASSUME NEW e \in Email, ~At(<<r, e>>, "idle")'
        PROVE  \/ proc'[<<r, e>>].op = "provision" /\ run'[r].pc = "provisioning"
               \/ proc'[<<r, e>>].op = "delete" /\ run'[r].pc = "deleting"
    <3>1. CASE ListAccounts(r)
      <4>1. At(<<r, e>>, "idle")
        BY <3>1, PhaseFree DEF ListAccounts
      <4>2. \/ proc'[<<r, e>>] = proc[<<r, e>>]
            \/ proc'[<<r, e>>].op = "provision" /\ run'[r].pc = "provisioning"
        <5>1. CASE UNCHANGED proc
          BY <5>1
        <5>2. CASE ~UNCHANGED proc
          <6>1. run'[r].pc = "provisioning"
            BY <1>a, <3>1, <5>2 DEF ListAccounts, Run
          <6>2. \A g \in Goroutine : proc'[g] = proc[g] \/ proc'[g].op = "provision"
            BY <3>1, <5>2 DEF ListAccounts, Started, Idle
          <6> QED BY <1>a, <6>1, <6>2
        <5> QED BY <5>1, <5>2
      <4> QED BY <2>2, <4>1, <4>2 DEF At
    <3>2. CASE ListChirpUsers(r)
      <4>1. At(<<r, e>>, "idle")
        BY <3>2, PhaseFree DEF ListChirpUsers
      <4>2. \/ proc'[<<r, e>>] = proc[<<r, e>>]
            \/ proc'[<<r, e>>].op = "delete" /\ run'[r].pc = "deleting"
        <5>1. CASE UNCHANGED proc
          BY <5>1
        <5>2. CASE ~UNCHANGED proc
          <6>1. run' = [run EXCEPT ![r].pc = "deleting"]
            BY <3>2, <5>2 DEF ListChirpUsers
          <6>2. \A g \in Goroutine : proc'[g] = proc[g] \/ proc'[g].op = "delete"
            BY <3>2, <5>2 DEF ListChirpUsers, Started, Idle
          <6> QED BY <1>a, <6>1, <6>2 DEF Run
        <5> QED BY <5>1, <5>2
      <4> QED BY <2>2, <4>1, <4>2 DEF At
    <3>3. CASE WaitProvisioned(r) \/ WaitDeleted(r)
      BY <2>2, <3>3 DEF WaitProvisioned, WaitDeleted, Free, At
    <3>4. CASE SnapshotAccounts(r)
      BY <2>2, <3>4, PhaseFree DEF SnapshotAccounts, At
    <3> QED BY <1>2, <3>1, <3>2, <3>3, <3>4 DEF SyncStep
  <2> QED BY <2>1, <2>2 DEF PhaseInv
<1>3. ASSUME NEW r \in Syncer, StartSync(r) PROVE PhaseInv'
  <2>1. \A s \in Syncer \ {r} : run'[s].pc = run[s].pc
    BY <1>3, <1>a DEF StartSync, Disturb, Run
  <2>2. \A e \in Email : At(<<r, e>>, "idle")'
    BY <1>3, PhaseFree DEF StartSync, At
  <2>3. proc' = proc
    BY <1>3 DEF StartSync
  <2> QED BY <2>1, <2>2, <2>3 DEF PhaseInv, At
<1>4. ASSUME NEW c \in Caller, NEW f \in Email, NEW l,
             proc' = [proc EXCEPT ![<<c, f>>] = l]
      PROVE  \A s \in Syncer, e \in Email : proc'[<<s, e>>] = proc[<<s, e>>]
  BY <1>4, <1>a
<1>5. ASSUME NEW s \in Sub, NEW u \in UserId, Register(s, u) PROVE PhaseInv'
  <2>1. \/ UNCHANGED proc
        \/ \E c \in Caller, f \in Email : \E l : proc' = [proc EXCEPT ![<<c, f>>] = l]
    BY <1>5 DEF Register, Caller
  <2>2. /\ \A r \in Syncer, e \in Email : proc'[<<r, e>>] = proc[<<r, e>>]
        /\ run' = Disturb(run)
    BY <1>5, <1>4, <2>1 DEF Register
  <2> QED BY <1>b, <1>c, <2>2
<1>6. ASSUME NEW s \in Sub, NEW d \in Device, ResolveDevice(d, s) PROVE PhaseInv'
  <2>1. \E c \in Caller, f \in Email : \E l : proc' = [proc EXCEPT ![<<c, f>>] = l]
    BY <1>6 DEF ResolveDevice, Caller
  <2> QED BY <1>6, <1>b, <1>c, <1>4, <2>1 DEF ResolveDevice
<1>7. ASSUME NEW s \in Sub, NEW w \in Gateway, ResolveGateway(w, s) PROVE PhaseInv'
  <2>1. \E c \in Caller, f \in Email : \E l : proc' = [proc EXCEPT ![<<c, f>>] = l]
    BY <1>7 DEF ResolveGateway, Caller
  <2> QED BY <1>7, <1>b, <1>c, <1>4, <2>1 DEF ResolveGateway
<1>8. ASSUME NEW s \in Sub, NEW x, SetAccount(s, x) PROVE PhaseInv'
  BY <1>8, <1>b, <1>c DEF SetAccount
<1>9. CASE Restart
  BY <1>9, <1>a DEF Restart, Idle, At, PhaseInv
<1>10. ASSUME (\E s \in Sub : CacheExpires(s)) \/ UNCHANGED vars PROVE PhaseInv'
  BY <1>10, <1>b DEF CacheExpires, vars
<1> QED BY <1>1, <1>2, <1>3, <1>5, <1>6, <1>7, <1>8, <1>9, <1>10 DEF Next

\* The steps that leave run s quiet.
LEMMA QuietNext ==
  ASSUME TypeInv, PhaseInv, QuietInv, [Next]_vars, NEW s \in Syncer, run'[s].quiet
  PROVE  /\ \/ run[s].quiet /\ \E e \in Email : Work(<<s, e>>)
            \/ run[s].quiet /\ SyncStep(s)
            \/ StartSync(s)
            \/ Restart
            \/ run[s].quiet /\ UNCHANGED <<kc, chirp, proc, run, endpoint>>
         /\ Alone(s)'
<1>a. /\ run \in [Syncer -> Run] /\ proc \in [Goroutine -> Worker]
      /\ \A g \in Goroutine : /\ g[1] \in Syncer \cup Caller /\ g[2] \in Email
                              /\ g = <<g[1], g[2]>>
      /\ \A c \in Caller, e \in Email : <<c, e>> \in Goroutine
      /\ \A c \in Caller : c \notin Syncer
  BY Domains, ActorAssumption DEF Goroutine
<1>b. run' # Disturb(run)
  BY <1>a DEF Disturb, Run
<1>c. run[s].quiet => Alone(s)
  BY DEF QuietInv
<1>1. ASSUME NEW g \in Goroutine, Work(g)
      PROVE  g[1] = s /\ run[s].quiet /\ Alone(s)'
  <2>1. run[s].quiet /\ Alone(s)
    BY <1>1, <1>c, WorkRuns
  <2>2. ~At(g, "idle") /\ \A h \in Goroutine \ {g} : proc'[h] = proc[h]
    BY <1>1, WorkOthers
  <2>3. g[1] = s
    <3>1. g[1] \notin Caller
      BY <1>a, <2>1, <2>2 DEF Alone, Free, At
    <3>2. CASE g[1] \in Syncer \ {s}
      <4>1. run[g[1]].pc \notin {"provisioning", "deleting"}
        BY <2>1, <3>2 DEF Alone
      <4> QED BY <1>a, <2>2, <3>2, <4>1, PhaseFree
    <3> QED BY <1>a, <3>1, <3>2
  <2>4. Alone(s)'
    BY <1>1, <1>a, <2>1, <2>2, <2>3, WorkRuns DEF Alone, Free
  <2> QED BY <2>1, <2>3, <2>4
<1>2. ASSUME NEW r \in Syncer, SyncStep(r)
      PROVE  r = s /\ run[s].quiet /\ Alone(s)'
  <2>1. run[s].quiet /\ Alone(s)
    BY <1>2, <1>c, SyncOthers
  <2>2. r = s
    BY <1>2, <2>1, SyncOthers DEF Alone
  <2>3. Alone(s)'
    BY <1>2, <1>a, <2>1, <2>2, SyncOthers DEF Alone, Free
  <2> QED BY <2>1, <2>2, <2>3
<1>3. ASSUME NEW r \in Syncer, StartSync(r)
      PROVE  r = s /\ Alone(s)'
  <2>1. r = s
    BY <1>3, <1>a DEF StartSync, Disturb, Run
  <2>2. Alone(s)
    <3>1. run'[s] = [NoRun EXCEPT !.pc = "list", !.quiet = Alone(s)]
      BY <1>3, <1>a, <2>1 DEF StartSync, Disturb
    <3>2. run'[s].quiet = Alone(s)
      BY <3>1 DEF NoRun
    <3> QED BY <3>2
  <2>3. Alone(s)'
    BY <1>3, <1>a, <2>1, <2>2 DEF StartSync, Disturb, Run, Alone, Free
  <2> QED BY <2>1, <2>3
<1>4. CASE Restart
  <2>1. s = Boot
    BY <1>4 DEF Restart, BootRuns, NoRun
  <2>2. Alone(s)'
    BY <1>4, <1>a, <2>1 DEF Restart, BootRuns, NoRun, Alone, Free, Idle
  <2> QED BY <1>4, <2>2
<1>5. ASSUME (\E r \in Sub : CacheExpires(r)) \/ UNCHANGED vars
      PROVE  /\ run[s].quiet /\ UNCHANGED <<kc, chirp, proc, run, endpoint>>
             /\ Alone(s)'
  <2>1. UNCHANGED <<kc, chirp, proc, run, endpoint>>
    BY <1>5 DEF CacheExpires, vars, config
  <2> QED BY <1>c, <2>1 DEF Alone, Free
<1>6. ~\E r \in Sub, x \in Email \cup {Deleted, NoEmail} : SetAccount(r, x)
  BY <1>b DEF SetAccount
<1>7. /\ ~\E r \in Sub, u \in UserId : Register(r, u)
      /\ ~\E r \in Sub, d \in Device : ResolveDevice(d, r)
      /\ ~\E r \in Sub, w \in Gateway : ResolveGateway(w, r)
  BY <1>b DEF Register, ResolveDevice, ResolveGateway
<1>8. ASSUME NEW g \in Goroutine, Work(g)
      PROVE  run[s].quiet /\ (\E e \in Email : Work(<<s, e>>)) /\ Alone(s)'
  BY <1>1, <1>8, <1>a
<1> QED BY <1>2, <1>3, <1>4, <1>5, <1>6, <1>7, <1>8 DEF Next

LEMMA QuietStep ==
  ASSUME TypeInv, PhaseInv, QuietInv, [Next]_vars
  PROVE  QuietInv'
BY QuietNext DEF QuietInv

LEMMA InitPhase == Init => PhaseInv /\ QuietInv
<1> SUFFICES ASSUME Init PROVE PhaseInv /\ QuietInv
  OBVIOUS
<1>1. \A g \in Goroutine : At(g, "idle")
  BY DEF Init, At, Idle
<1>2. \A s \in Syncer : /\ run[s].quiet => s = Boot
                        /\ s # Boot => run[s].pc = "off"
  BY DEF Init, BootRuns, NoRun
<1>3. PhaseInv
  BY <1>1, InitType, Domains DEF PhaseInv
<1>4. QuietInv
  BY <1>1, <1>2, InitType, Domains DEF QuietInv, Alone, Free, At
<1> QED BY <1>3, <1>4

-----------------------------------------------------------------------------
(* The startup sync and registrations never work at the same time: the API   *)
(* is up when New() has returned.                                          *)

\* Nobody else calls: no PATCH, no device and no gateway sync, one registration.
OneCaller ==
  Patch = {} /\ Device = {} /\ Gateway = {} /\ \A p, q \in Post : p = q
CallerInv ==
  /\ serving => run[Boot].pc = "done"
  /\ ~serving => \A p \in Post, e \in Email : At(<<p, e>>, "idle")

LEMMA CallerStep ==
  ASSUME TypeInv, OneCaller, PhaseInv, CallerInv, [Next]_vars
  PROVE  CallerInv'
<1>a. /\ run \in [Syncer -> Run] /\ proc \in [Goroutine -> Worker]
      /\ Boot \in Syncer /\ \A s \in Syncer : s = Boot
      /\ \A p \in Post, e \in Email : <<p, e>> \in Goroutine /\ p \notin Syncer
  BY Domains, ActorAssumption DEF OneCaller, Syncer, Caller
<1>b. ASSUME serving' = serving, run'[Boot].pc = run[Boot].pc,
             \A p \in Post, e \in Email :
               At(<<p, e>>, "idle") => At(<<p, e>>, "idle")'
      PROVE  CallerInv'
  BY <1>b DEF CallerInv
<1>c. ASSUME run' = Disturb(run)
      PROVE  run'[Boot].pc = run[Boot].pc
  BY <1>a, <1>c DEF Disturb, Run
<1>1. ASSUME NEW g \in Goroutine, Work(g) PROVE CallerInv'
  <2>1. serving' = serving
    BY <1>1 DEF Work, FindUser, CreateUser, FindTenant, CreateTenant, UpdateTenant,
       GetMember, AddMember, FindApp, CreateApp, GetIntegration,
       DeleteIntegration, CreateIntegration, AssignCtx, ReadCtx, DeleteUser,
       DeleteTenant, EndDelete, EndProvision, CallError, config
  <2>2. run'[Boot].pc = run[Boot].pc
    BY <1>1, <1>a, WorkRuns
  <2>3. \A h \in Goroutine : At(h, "idle") => At(h, "idle")'
    BY <1>1, WorkOthers DEF At
  <2> QED BY <1>a, <1>b, <2>1, <2>2, <2>3
<1>2. ASSUME NEW s \in Syncer, SyncStep(s) PROVE CallerInv'
  <2>1. s = Boot /\ run[Boot].pc # "done"
    BY <1>2, <1>a, SyncOthers
  <2>2. \A p \in Post, e \in Email : At(<<p, e>>, "idle")'
    BY <1>2, <1>a, <2>1, SyncOthers DEF At, CallerInv
  <2>3. serving' = serving \/ run'[Boot].pc = "done"
    BY <1>2, <1>a, <2>1 DEF SyncStep, ListAccounts, WaitProvisioned,
       SnapshotAccounts, ListChirpUsers, WaitDeleted, Finish, Run, config
  <2> QED BY <2>1, <2>2, <2>3 DEF CallerInv
<1>3. ASSUME NEW s \in Sub, NEW u \in UserId, Register(s, u) PROVE CallerInv'
  <2>1. serving' = serving /\ (serving \/ UNCHANGED proc)
    BY <1>3 DEF Register, config
  <2>2. run'[Boot].pc = run[Boot].pc
    BY <1>3, <1>c DEF Register
  <2> QED BY <2>1, <2>2 DEF CallerInv, At
<1>4. ASSUME NEW s \in Sub, NEW x, SetAccount(s, x) PROVE CallerInv'
  BY <1>4, <1>b, <1>c DEF SetAccount, config, At
<1>5. CASE Restart
  BY <1>5, <1>a DEF Restart, CallerInv, Idle, At
<1>6. ASSUME (\E s \in Sub : CacheExpires(s)) \/ UNCHANGED vars PROVE CallerInv'
  BY <1>6, <1>b DEF CacheExpires, vars, config, At
<1> QED BY <1>1, <1>2, <1>3, <1>4, <1>5, <1>6 DEF Next, OneCaller, StartSync

LEMMA CallerImplies ==
  ASSUME TypeInv, OneCaller, PhaseInv, CallerInv
  PROVE  OneWorker
<1> SUFFICES ASSUME NEW g \in Goroutine, NEW h \in Goroutine, g[2] = h[2],
                    ~At(g, "idle"), ~At(h, "idle")
             PROVE  g = h
  BY DEF OneWorker
<1>a. /\ \A k \in Goroutine : /\ k[1] \in {Boot} \cup Post
                              /\ k[2] \in Email /\ k = <<k[1], k[2]>>
      /\ Boot \in Syncer
  BY DEF Goroutine, Syncer, Caller, OneCaller
<1>1. ASSUME NEW k \in Goroutine, k[1] \in Post, ~At(k, "idle") PROVE serving
  BY <1>1, <1>a DEF CallerInv
<1>2. ASSUME NEW k \in Goroutine, k[1] = Boot, ~At(k, "idle") PROVE ~serving
  BY <1>2, <1>a, PhaseFree DEF CallerInv
<1> QED BY <1>a, <1>1, <1>2 DEF OneCaller

LEMMA CallerCorrect ==
  ASSUME OneCaller
  PROVE  Spec => []OneWorker
<1> DEFINE Inv == TypeInv /\ PhaseInv /\ CallerInv
<1>1. Init => Inv
  <2>1. Init => CallerInv
    <3> SUFFICES ASSUME Init PROVE CallerInv
      OBVIOUS
    <3>1. \A g \in Goroutine : At(g, "idle")
      BY DEF Init, At, Idle
    <3>2. \A p \in Post, e \in Email : <<p, e>> \in Goroutine
      BY DEF Goroutine, Caller
    <3> QED BY <3>1, <3>2 DEF Init, CallerInv
  <2> QED BY <2>1, InitType, InitPhase
<1>2. Inv /\ [Next]_vars => Inv'
  BY NextType, PhaseStep, CallerStep
<1>3. Inv => OneWorker
  BY CallerImplies
<1> QED BY <1>1, <1>2, <1>3, PTL DEF Spec

\* The startup sync, interrupted at any step and repeated, and registrations,
\* which the API takes only when the sync has ended, give no email a second
\* tenant: there is no lock, but nobody to exclude (New, ProvisionAllUsers).
THEOREM OneTenantOneCaller ==
  ASSUME ExactSearch, OneCaller
  PROVE  Spec => []OneTenantPerEmail
BY CallerCorrect, OneTenantCorrect, PTL

-----------------------------------------------------------------------------
(* What a quiet sync deletes.                                              *)

\* A delete has no app, and when it goes on to the tenant the user is gone.
DeletesInv ==
  \A g \in Goroutine : proc[g].op = "delete" =>
    /\ proc[g].pc \notin {"app", "createApp"}
    /\ run[g[1]].quiet /\ proc[g].pc \in {"deleteTenant", "ok"} => user[g[2]] = None

RemoveInv ==
  \A s \in Syncer : run[s].quiet =>
    /\ run[s].seen \subseteq KcEmails
    /\ run[s].pc = "deleting" /\ ~run[s].err =>
         \A e \in Email \ (run[s].seen \cup Protected) :
           user[e] # None => proc[<<s, e>>].op = "delete"
    /\ run[s].pc = "done" /\ ~run[s].err =>
         \A e \in Email : user[e] # None => e \in KcEmails \cup Protected

LEMMA DeleteEnters ==
  ASSUME TypeInv, NEW g \in Goroutine, Work(g), proc[g].op = "delete",
         proc[g].pc \notin {"app", "createApp"}
  PROVE  /\ proc'[g].pc \notin {"app", "createApp"}
         /\ proc'[g].pc \in {"deleteTenant", "ok"} => DeleteUser(g) \/ DeleteTenant(g)
<1> DEFINE Late == {"app", "createApp", "deleteTenant", "ok"}
<1>a. /\ proc[g] \in Worker /\ LocalOK(g, proc[g])
      /\ proc \in [Goroutine -> Worker] /\ AfterTenant(proc[g].op) = "deleteUser"
  BY Domains DEF TypeInv, LocalsOK, AfterTenant
<1>b. ASSUME NEW l, Reply(g, l), l.pc \notin Late
      PROVE  proc'[g].pc \notin Late
  BY <1>a, <1>b, Replied DEF Worker
<1>c. ASSUME proc' = [proc EXCEPT ![g].pc = "error"]
      PROVE  proc'[g].pc \notin Late
  BY <1>c, Failed
<1>d. ASSUME NEW q, q \notin Late, Reply(g, Goto(g, q))
      PROVE  proc'[g].pc \notin Late
  BY <1>a, <1>b, <1>d DEF Goto, Worker
<1>1. CASE FindUser(g)
  <2>1. CASE user[g[2]] # None
    BY <1>1, <1>a, <1>b, <2>1 DEF FindUser, Worker
  <2>2. CASE user[g[2]] = None
    BY <1>1, <1>d, <2>2 DEF FindUser
  <2> QED BY <2>1, <2>2
<1>2. CASE CreateUser(g)
  <2>1. ASSUME NEW u \in UserId, Reply(g, [proc[g] EXCEPT !.uid = u, !.pc = "tenant"])
        PROVE  proc'[g].pc \notin Late
    BY <1>a, <1>b, <2>1 DEF Worker
  <2> QED BY <1>2, <1>c, <2>1 DEF CreateUser
<1>3. CASE FindTenant(g)
  <2>1. ASSUME NEW t, Reply(g, [proc[g] EXCEPT !.tid = t,
                                 !.pc = IF UpdateTenants THEN "updateTenant"
                                        ELSE AfterTenant(proc[g].op)])
        PROVE  proc'[g].pc \notin Late
    BY <1>a, <1>b, <2>1 DEF Worker
  <2> QED BY <1>3, <1>c, <1>d, <2>1 DEF FindTenant
<1>4. CASE CreateTenant(g)
  <2>1. PICK t : Reply(g, [proc[g] EXCEPT !.tid = t, !.pc = AfterTenant(proc[g].op)])
    BY <1>4 DEF CreateTenant
  <2> QED BY <1>a, <1>b, <2>1 DEF Worker
<1>5. CASE UpdateTenant(g)
  BY <1>5, <1>a, <1>c, <1>d DEF UpdateTenant
<1>6. CASE AssignCtx(g) \/ ReadCtx(g)
  BY <1>6, <1>a DEF AssignCtx, ReadCtx, Worker
<1>7. CASE EndDelete(g) \/ EndProvision(g)
  BY <1>7, <1>a DEF EndDelete, EndProvision, Idle
<1>8. CASE CallError(g)
  BY <1>8, <1>c DEF CallError
<1>9. CASE DeleteUser(g)
  <2>1. CASE Reply(g, Goto(g, "deleteTenant"))
    BY <1>9, <1>a, <2>1, Replied DEF Goto, Worker
  <2> QED BY <1>9, <1>c, <2>1 DEF DeleteUser
<1>10. CASE DeleteTenant(g)
  <2>1. CASE Reply(g, Goto(g, "ok"))
    BY <1>10, <1>a, <2>1, Replied DEF Goto, Worker
  <2> QED BY <1>10, <1>c, <2>1 DEF DeleteTenant
<1>11. /\ ~GetMember(g) /\ ~AddMember(g) /\ ~FindApp(g) /\ ~CreateApp(g)
       /\ ~GetIntegration(g) /\ ~DeleteIntegration(g) /\ ~CreateIntegration(g)
  BY <1>a DEF GetMember, AddMember, FindApp, CreateApp, GetIntegration,
     DeleteIntegration, CreateIntegration, At, LocalOK
<1> QED BY <1>1, <1>2, <1>3, <1>4, <1>5, <1>6, <1>7, <1>8, <1>9, <1>10, <1>11
        DEF Work

\* A goroutine touches the user of its own email only.
LEMMA WorkUsers ==
  ASSUME TypeInv, UserInv, NEW g \in Goroutine, Work(g)
  PROVE  /\ \A e \in Email \ {g[2]} : user'[e] = user[e]
         /\ DeleteUser(g) => user'[g[2]] = None \/ proc'[g].pc = "error"
         /\ user'[g[2]] # user[g[2]] => CreateUser(g) \/ DeleteUser(g)
<1>a. /\ user \in [Email -> UserId \cup {None}] /\ g[2] \in Email
      /\ LocalOK(g, proc[g]) /\ proc[g] \in Worker
  BY Domains DEF TypeInv, TypeOK, LocalsOK
<1>1. CASE CreateUser(g)
  <2>1. ~DeleteUser(g)
    BY <1>1 DEF CreateUser, DeleteUser, At
  <2> QED BY <1>1, <1>a, <2>1 DEF CreateUser
<1>2. CASE DeleteUser(g)
  <2>1. CASE UserLives(proc[g].uid)
    <3>1. PICK x \in Email : user[x] = proc[g].uid
      BY <2>1 DEF UserLives
    <3>2. proc[g].uid # None
      BY <1>2, <1>a DEF DeleteUser, At, LocalOK
    <3>3. user[g[2]] = proc[g].uid
      BY <3>1, <3>2 DEF UserInv, HeldUserIsOwn
    <3>4. user' = [e \in Email |-> IF user[e] = proc[g].uid THEN None ELSE user[e]]
      BY <1>2, <2>1 DEF DeleteUser
    <3> QED BY <1>2, <1>a, <3>2, <3>3, <3>4 DEF UserInv, UsersUnique
  <2>2. CASE ~UserLives(proc[g].uid)
    BY <1>2, <2>2, Failed DEF DeleteUser
  <2> QED BY <2>1, <2>2
<1>3. CASE ~CreateUser(g) /\ ~DeleteUser(g)
  <2>1. UNCHANGED user
    BY <1>3 DEF Work, FindUser, FindTenant, CreateTenant, UpdateTenant, GetMember,
       AddMember, FindApp, CreateApp, GetIntegration, DeleteIntegration,
       CreateIntegration, AssignCtx, ReadCtx, DeleteTenant, EndDelete,
       EndProvision, CallError, chirp
  <2> QED BY <1>3, <2>1
<1> QED BY <1>1, <1>2, <1>3

LEMMA DeletesStep ==
  ASSUME TypeInv, UserInv, PhaseInv, QuietInv, DeletesInv, [Next]_vars
  PROVE  DeletesInv'
<1> SUFFICES ASSUME NEW h \in Goroutine, proc'[h].op = "delete"
             PROVE  /\ proc'[h].pc \notin {"app", "createApp"}
                    /\ run'[h[1]].quiet /\ proc'[h].pc \in {"deleteTenant", "ok"}
                         => user'[h[2]] = None
  BY DEF DeletesInv
<1>a. TypeInv'
  BY NextType
<1>b. /\ h[1] \in Syncer /\ h[2] \in Email /\ h = <<h[1], h[2]>>
      /\ proc \in [Goroutine -> Worker]
  BY <1>a, Domains DEF TypeInv, LocalsOK, LocalOK
<1>1. ASSUME NEW g \in Goroutine, Work(g), h = g
      PROVE  /\ proc'[h].pc \notin {"app", "createApp"}
             /\ proc'[h].pc \in {"deleteTenant", "ok"} /\ run[h[1]].quiet
                  => user'[h[2]] = None
  <2>1. proc[g].op = "delete"
    BY <1>1, WorkOp DEF Idle
  <2>2. /\ proc'[g].pc \notin {"app", "createApp"}
        /\ proc'[g].pc \in {"deleteTenant", "ok"} => DeleteUser(g) \/ DeleteTenant(g)
    BY <1>1, <2>1, DeleteEnters DEF DeletesInv
  <2>3. DeleteTenant(g) /\ run[g[1]].quiet => user'[g[2]] = None
    BY <2>1 DEF DeleteTenant, DeletesInv, At
  <2> QED BY <1>1, <2>2, <2>3, WorkUsers
<1>2. ASSUME NEW g \in Goroutine, Work(g), h # g
      PROVE  /\ proc'[h].pc \notin {"app", "createApp"}
             /\ proc'[h].pc \in {"deleteTenant", "ok"} /\ run[h[1]].quiet
                  /\ run'[h[1]].quiet => user'[h[2]] = None
  <2>1. proc'[h] = proc[h]
    BY <1>2, WorkOthers
  <2>2. ASSUME run'[h[1]].quiet PROVE g[2] # h[2]
    <3>1. Alone(h[1]) /\ run[h[1]].quiet
      BY <1>2, <1>b, <2>2, WorkRuns DEF QuietInv
    <3>2. ~At(g, "idle")
      BY <1>2, WorkOthers
    <3>3. /\ g[1] \in Syncer \cup Caller /\ g[2] \in Email /\ g = <<g[1], g[2]>>
      BY DEF Goroutine
    <3>4. g[1] \notin Caller
      BY <3>1, <3>2, <3>3 DEF Alone, Free, At
    <3>5. ~(g[1] \in Syncer \ {h[1]})
      <4>1. ASSUME g[1] \in Syncer \ {h[1]} PROVE FALSE
        <5>1. run[g[1]].pc \notin {"provisioning", "deleting"}
          BY <3>1, <4>1 DEF Alone
        <5> QED BY <3>2, <3>3, <4>1, <5>1, PhaseFree
      <4> QED BY <4>1
    <3> QED BY <1>2, <1>b, <3>3, <3>4, <3>5
  <2> QED BY <1>2, <1>b, <2>1, <2>2, WorkUsers DEF DeletesInv
<1>3. CASE \E g \in Goroutine : Work(g)
  BY <1>1, <1>2, <1>3, <1>b, WorkRuns
<1>4. CASE ~\E g \in Goroutine : Work(g)
  <2>1. proc'[h] = proc[h] \/ proc'[h].pc \in {"idle", "user", "tenant", "assign"}
    BY <1>4, OtherKeeps
  <2>2. CASE proc'[h] = proc[h] /\ run'[h[1]].quiet
    <3>1. \/ run[h[1]].quiet /\ SyncStep(h[1])
          \/ StartSync(h[1])
          \/ Restart
          \/ run[h[1]].quiet /\ UNCHANGED <<kc, chirp, proc, run, endpoint>>
      <4>1. ~\E e \in Email : Work(<<h[1], e>>)
        BY <1>4, <1>b, Domains
      <4> QED BY <1>b, <2>2, <4>1, QuietNext
    <3>2. CASE run[h[1]].quiet /\ user' = user
      BY <2>2, <3>2 DEF DeletesInv
    <3>3. CASE StartSync(h[1])
      BY <1>b, <2>2, <3>3, PhaseFree DEF StartSync, At, DeletesInv
    <3>4. CASE Restart
      BY <2>2, <3>4 DEF Restart, Idle
    <3> QED BY <1>b, <3>1, <3>2, <3>3, <3>4, SyncOthers DEF chirp
  <2> QED BY <2>1, <2>2 DEF DeletesInv
<1> QED BY <1>3, <1>4

LEMMA RemoveStep ==
  ASSUME TypeInv, UserInv, PhaseInv, QuietInv, DeletesInv, RemoveInv, [Next]_vars
  PROVE  RemoveInv'
<1> SUFFICES ASSUME NEW s \in Syncer, run'[s].quiet
             PROVE  /\ run'[s].seen \subseteq KcEmails'
                    /\ run'[s].pc = "deleting" /\ ~run'[s].err =>
                         \A e \in Email \ (run'[s].seen \cup Protected) :
                           user'[e] # None => proc'[<<s, e>>].op = "delete"
                    /\ run'[s].pc = "done" /\ ~run'[s].err =>
                         \A e \in Email :
                           user'[e] # None => e \in KcEmails' \cup Protected
  BY DEF RemoveInv
<1>a. /\ run \in [Syncer -> Run] /\ proc \in [Goroutine -> Worker]
      /\ \A e \in Email : <<s, e>> \in Goroutine
  BY Domains
<1>b. run[s].quiet => /\ run[s].seen \subseteq KcEmails
                      /\ run[s].pc = "deleting" /\ ~run[s].err =>
                           \A e \in Email \ (run[s].seen \cup Protected) :
                             user[e] # None => proc[<<s, e>>].op = "delete"
                      /\ run[s].pc = "done" /\ ~run[s].err =>
                           \A e \in Email :
                             user[e] # None => e \in KcEmails \cup Protected
  BY DEF RemoveInv
<1>1. ASSUME run[s].quiet, NEW f \in Email, Work(<<s, f>>)
      PROVE  /\ run'[s].seen \subseteq KcEmails'
             /\ run'[s].pc = "deleting" /\ ~run'[s].err =>
                  \A e \in Email \ (run'[s].seen \cup Protected) :
                    user'[e] # None => proc'[<<s, e>>].op = "delete"
             /\ run'[s].pc # "done"
  <2> DEFINE g == <<s, f>>
  <2>1. /\ KcEmails' = KcEmails
        /\ run'[s].pc = run[s].pc /\ run'[s].seen = run[s].seen
        /\ run[s].err => run'[s].err
        /\ ~run'[s].err /\ proc'[g] = Idle => At(g, "ok")
    <3>1. kc' = kc
      BY <1>1 DEF Work, FindUser, CreateUser, FindTenant, CreateTenant, UpdateTenant,
         GetMember, AddMember, FindApp, CreateApp, GetIntegration,
         DeleteIntegration, CreateIntegration, AssignCtx, ReadCtx, DeleteUser,
         DeleteTenant, EndDelete, EndProvision, CallError
    <3> QED BY <1>a, <1>1, <3>1, WorkRuns DEF KcEmails
  <2>2. /\ ~At(g, "idle")
        /\ \A e \in Email \ {f} : proc'[<<s, e>>] = proc[<<s, e>>]
        /\ \A e \in Email \ {f} : user'[e] = user[e]
        /\ user'[f] # user[f] => CreateUser(g) \/ DeleteUser(g)
        /\ proc'[g] = Idle \/ proc'[g].op = proc[g].op
    BY <1>a, <1>1, WorkOthers, WorkUsers, WorkOp
  <2>3. run[s].pc # "done"
    BY <2>2, PhaseFree
  <2>4. ASSUME run[s].pc = "deleting", ~run'[s].err, user'[f] # None
        PROVE  proc'[g].op = "delete"
    <3>1. proc[g].op = "delete"
      BY <2>2, <2>4 DEF PhaseInv
    <3>2. proc'[g] # Idle
      <4>1. SUFFICES ASSUME proc'[g] = Idle PROVE FALSE
        OBVIOUS
      <4>2. At(g, "ok") /\ user[f] = None
        BY <1>a, <1>1, <2>1, <2>4, <3>1, <4>1 DEF DeletesInv, At
      <4>3. ~CreateUser(g) /\ ~DeleteUser(g)
        BY <4>2 DEF CreateUser, DeleteUser, At
      <4> QED BY <2>2, <2>4, <4>2, <4>3
    <3> QED BY <2>2, <3>1, <3>2
  <2> QED BY <1>1, <1>b, <2>1, <2>2, <2>3, <2>4
<1>2. ASSUME run[s].quiet, SyncStep(s)
      PROVE  /\ run'[s].seen \subseteq KcEmails'
             /\ run'[s].pc = "deleting" /\ ~run'[s].err =>
                  \A e \in Email \ (run'[s].seen \cup Protected) :
                    user'[e] # None => proc'[<<s, e>>].op = "delete"
             /\ run'[s].pc = "done" /\ ~run'[s].err =>
                  \A e \in Email :
                    user'[e] # None => e \in KcEmails' \cup Protected
  <2>a. KcEmails' = KcEmails /\ user' = user
    BY <1>2, SyncOthers DEF KcEmails, chirp
  <2>b. ASSUME Finish(s, TRUE)
        PROVE  run'[s].pc = "done" /\ run'[s].err /\ run'[s].seen = {}
    BY <1>a, <2>b DEF Finish, Run
  <2>1. CASE ListAccounts(s) \/ WaitProvisioned(s)
    <3>1. /\ run'[s].seen = run[s].seen
          /\ run'[s].pc \in {"provisioning", "listDelete"}
      BY <1>a, <2>1 DEF ListAccounts, WaitProvisioned, Run
    <3> QED BY <1>2, <1>b, <2>a, <3>1
  <2>2. CASE SnapshotAccounts(s)
    <3>1. ASSUME NEW A \in Pages,
                 run' = [run EXCEPT ![s].pc = "listChirp",
                                    ![s].seen = {kc[a] : a \in A} \cap Email]
          PROVE  run'[s].pc = "listChirp" /\ run'[s].seen \subseteq KcEmails
      BY <1>a, <3>1 DEF Run, Pages, KcEmails
    <3> QED BY <2>2, <2>a, <2>b, <3>1 DEF SnapshotAccounts
  <2>3. CASE ListChirpUsers(s)
    <3>1. ASSUME proc' = [g \in Goroutine |->
                            IF /\ g[1] = s
                               /\ user[g[2]] # None
                               /\ g[2] \notin Protected \cup run[s].seen
                            THEN Started("delete", "assign", None, None)
                            ELSE proc[g]],
                 run' = [run EXCEPT ![s].pc = "deleting"]
          PROVE  /\ run'[s].pc = "deleting" /\ run'[s].seen = run[s].seen
                 /\ \A e \in Email \ (run[s].seen \cup Protected) :
                      user[e] # None => proc'[<<s, e>>].op = "delete"
      BY <1>a, <3>1 DEF Run, Started, Idle
    <3> QED BY <1>2, <1>b, <2>3, <2>a, <2>b, <3>1 DEF ListChirpUsers
  <2>4. CASE WaitDeleted(s)
    <3>1. /\ run[s].pc = "deleting" /\ run'[s].pc = "done"
          /\ run'[s].seen = {} /\ run'[s].err = run[s].err
      BY <1>a, <2>4 DEF WaitDeleted, Finish, Run
    <3>2. \A e \in Email : proc[<<s, e>>].op = "none"
      BY <1>a, <2>4 DEF WaitDeleted, Free, TypeInv, LocalsOK, LocalOK
    <3> QED BY <1>2, <1>b, <2>a, <3>1, <3>2
  <2> QED BY <1>2, <2>1, <2>2, <2>3, <2>4 DEF SyncStep
<1>3. CASE StartSync(s) \/ Restart
  <2>1. run'[s].seen = {} /\ run'[s].pc \in {"off", "list"}
    <3>1. CASE StartSync(s)
      <4>1. run'[s] = [NoRun EXCEPT !.pc = "list", !.quiet = Alone(s)]
        BY <1>a, <3>1 DEF StartSync, Disturb
      <4> QED BY <4>1 DEF NoRun
    <3>2. CASE Restart
      BY <3>2 DEF Restart, BootRuns, NoRun
    <3> QED BY <1>3, <3>1, <3>2
  <2> QED BY <2>1
<1>4. CASE run[s].quiet /\ UNCHANGED <<kc, chirp, proc, run, endpoint>>
  BY <1>4, <1>b DEF KcEmails, chirp
<1> QED BY <1>1, <1>2, <1>3, <1>4, QuietNext

\* What a sync that nothing disturbs and that reports no error leaves: a user
\* of an account or a protected one, nobody else.  Every user without an
\* account has got a delete, a delete that fails is reported, and the run waits
\* for them all; this needs no assumption on tenants, pages or failures
\* (DeleteOutdatedUsers).
THEOREM SyncRemovesUsersCorrect == Spec => []SyncRemovesUsers
<1> DEFINE Inv == /\ TypeInv /\ UserInv /\ PhaseInv /\ QuietInv
                  /\ DeletesInv /\ RemoveInv
<1>1. Init => Inv
  <2> SUFFICES ASSUME Init PROVE Inv
    OBVIOUS
  <2>1. TypeInv /\ PhaseInv /\ QuietInv
    BY InitType, InitPhase
  <2>2. UserInv
    BY DEF Init, Idle, UserInv, UsersUnique, HeldUserIsOwn
  <2>3. DeletesInv
    BY DEF Init, Idle, DeletesInv
  <2>4. RemoveInv
    BY DEF Init, BootRuns, NoRun, RemoveInv
  <2> QED BY <2>1, <2>2, <2>3, <2>4
<1>2. Inv /\ [Next]_vars => Inv'
  BY NextType, UserInvStep, PhaseStep, QuietStep, DeletesStep, RemoveStep
<1>3. Inv => SyncRemovesUsers
  BY DEF RemoveInv, SyncRemovesUsers, Completed
<1> QED BY <1>1, <1>2, <1>3, PTL DEF Spec

-----------------------------------------------------------------------------
(* What a quiet sync provisions.                                           *)

\* The pcs at which a goroutine relies on its tenant, on the membership and on
\* its app.
AtTenant == {"updateTenant", "member", "addMember", "app", "createApp",
             "integration", "deleteIntegration", "createIntegration",
             "deleteUser", "deleteTenant"}
AtMember == {"app", "createApp", "integration", "deleteIntegration",
             "createIntegration"}
AtApp == {"integration", "deleteIntegration", "createIntegration"}
HoldsUser(p) ==
  p.pc \in {"tenant", "createTenant"} \cup (AtTenant \ {"deleteTenant"})

\* What a goroutine of a quiet run has read or made is still so: nobody else
\* touches the user, tenant, membership, app and integration of its email.
Held(g) ==
  LET e == g[2]
      p == proc[g]
      m == <<p.tid, p.uid>>
  IN
  /\ p.pc = "createUser" => user[e] = None
  /\ HoldsUser(p) => p.uid = user[e] /\ p.uid # None
  /\ p.pc = "deleteTenant" => user[e] = None
  /\ p.pc \in AtTenant => tenant[p.tid] = e
  /\ p.pc \in AtMember => p.op = "provision" /\ m \in members
  /\ p.pc = "addMember" => m \notin members
  /\ p.pc \in AtApp => p.aid \in AppId /\ app[p.aid] = p.tid
  /\ p.pc = "deleteIntegration" => integ[p.aid] # None
  /\ p.pc = "createIntegration" => integ[p.aid] = None
  /\ p.pc = "ok" => IF p.op = "delete" THEN user[e] = None ELSE Serves(e)
HeldInv == \A s \in Syncer, e \in Email : run[s].quiet => Held(<<s, e>>)

\* Nothing that belongs to e changes.
EmailKept(e) ==
  /\ user'[e] = user[e] /\ endpoint' = endpoint
  /\ \A t \in TenantId : tenant'[t] = e <=> tenant[t] = e
  /\ \A t \in TenantId : tenant[t] = e =>
       /\ <<t, user[e]>> \in members' <=> <<t, user[e]>> \in members
       /\ \A a \in AppId : app'[a] = t <=> app[a] = t
       /\ \A a \in AppId : app[a] = t => integ'[a] = integ[a]

LEMMA ServesKept ==
  ASSUME NEW e \in Email, EmailKept(e), Serves(e)
  PROVE  Serves(e)'
<1>1. PICK t \in TenantId, a \in AppId :
        /\ tenant[t] = e /\ app[a] = t
        /\ user[e] # None /\ <<t, user[e]>> \in members
        /\ integ[a] # None /\ integ[a].endpoint = endpoint
  BY DEF Serves
<1>2. /\ tenant'[t] = e /\ app'[a] = t
      /\ user'[e] # None /\ <<t, user'[e]>> \in members'
      /\ integ'[a] # None /\ integ'[a].endpoint = endpoint'
  BY <1>1 DEF EmailKept
<1> QED BY <1>2 DEF Serves

LEMMA HeldKept ==
  ASSUME TypeInv, NEW g \in Goroutine, EmailKept(g[2]), proc'[g] = proc[g], Held(g)
  PROVE  Held(g)'
<1> DEFINE p == proc[g]
           e == g[2]
<1>a. e \in Email /\ p \in Worker /\ LocalOK(g, p)
  BY Domains DEF TypeInv, LocalsOK
<1>1. p.pc \in {"createUser", "deleteTenant"} => user'[e] = None
  BY DEF Held, EmailKept
<1>2. HoldsUser(p) => p.uid = user'[e] /\ p.uid # None
  BY DEF Held, EmailKept
<1>3. ASSUME p.pc \in AtTenant
      PROVE  p.tid \in TenantId /\ tenant[p.tid] = e /\ tenant'[p.tid] = e
  <2>1. tenant[p.tid] = e
    BY <1>3 DEF Held
  <2>2. p.tid \in TenantId
    <3>1. CASE p.pc \in AtApp
      BY <1>a, <2>1, <3>1 DEF Worker, Held, AtApp, AtTenant, AtMember, TypeInv, TypeOK
    <3>2. CASE p.pc \notin AtApp
      BY <1>a, <1>3, <3>2 DEF Worker, AtTenant, AtApp, LocalOK
    <3> QED BY <3>1, <3>2
  <2> QED BY <2>1, <2>2 DEF EmailKept
<1>4. p.pc \in AtMember => p.op = "provision" /\ <<p.tid, p.uid>> \in members'
  BY <1>3 DEF Held, EmailKept, HoldsUser, AtMember, AtTenant
<1>5. p.pc = "addMember" => <<p.tid, p.uid>> \notin members'
  BY <1>3 DEF Held, EmailKept, HoldsUser, AtTenant
<1>6. ASSUME p.pc \in AtApp
      PROVE  /\ p.aid \in AppId /\ app'[p.aid] = p.tid
             /\ integ'[p.aid] = integ[p.aid]
  <2>1. p.aid \in AppId /\ app[p.aid] = p.tid
    BY <1>6 DEF Held
  <2> QED BY <1>3, <1>6, <2>1 DEF EmailKept, AtApp, AtTenant
<1>7. /\ p.pc = "deleteIntegration" => integ'[p.aid] # None
      /\ p.pc = "createIntegration" => integ'[p.aid] = None
  BY <1>6 DEF Held, AtApp
<1>8. p.pc = "ok" => IF p.op = "delete" THEN user'[e] = None ELSE Serves(e)'
  BY <1>a, ServesKept DEF Held, EmailKept
<1>9. p.pc \in AtTenant => tenant'[p.tid] = e
  BY <1>3
<1>10. proc'[g] = p
  OBVIOUS
<1> HIDE DEF p
<1> QED
  BY <1>1, <1>2, <1>4, <1>5, <1>6, <1>7, <1>8, <1>9, <1>10 DEF Held, HoldsUser

\* A goroutine whose knowledge holds touches nothing of another email.
LEMMA WorkEffect ==
  ASSUME TypeInv, UserInv, NEW g \in Goroutine, Work(g), Held(g),
         NEW e \in Email \ {g[2]}
  PROVE  EmailKept(e)
<1>a. /\ user \in [Email -> UserId \cup {None}] /\ g[2] \in Email /\ None \notin Email
      /\ tenant \in [TenantId -> Email \cup {None}]
      /\ members \subseteq TenantId \X UserId
      /\ app \in [AppId -> TenantId \cup {None}] /\ None \notin TenantId
      /\ LocalOK(g, proc[g]) /\ proc[g] \in Worker
      /\ None \notin UserId
  BY IdAssumption, Domains DEF TypeInv, TypeOK, LocalsOK
<1>b. /\ user'[e] = user[e]
  BY WorkUsers
<1>c. endpoint' = endpoint
  BY DEF Work, FindUser, CreateUser, FindTenant, CreateTenant, UpdateTenant,
     GetMember, AddMember, FindApp, CreateApp, GetIntegration,
     DeleteIntegration, CreateIntegration, AssignCtx, ReadCtx, DeleteUser,
     DeleteTenant, EndDelete, EndProvision, CallError, config
<1>d. At(g, "updateTenant") \/ At(g, "addMember") \/ At(g, "createApp") \/ At(g, "deleteTenant")
        => proc[g].tid \in TenantId /\ tenant[proc[g].tid] = g[2]
  BY <1>a DEF At, Held, AtTenant, LocalOK, Worker
<1>e. At(g, "deleteIntegration") \/ At(g, "createIntegration")
        => \A t \in TenantId : app[proc[g].aid] = t => tenant[t] = g[2]
  BY DEF At, Held, AtTenant, AtApp
<1>1. CASE CreateTenant(g) \/ UpdateTenant(g)
  <2>1. \A t \in TenantId : tenant'[t] = e <=> tenant[t] = e
    <3>1. CASE CreateTenant(g)
      BY <1>a, <3>1 DEF CreateTenant, FreshTenant, UnusedTenant
    <3>2. CASE UpdateTenant(g)
      BY <1>a, <1>d, <3>2 DEF UpdateTenant
    <3> QED BY <1>1, <3>1, <3>2
  <2>2. UNCHANGED <<members, app, integ>>
    BY <1>1 DEF CreateTenant, UpdateTenant
  <2> QED BY <1>b, <1>c, <2>1, <2>2 DEF EmailKept
<1>2. CASE AddMember(g)
  <2>1. UNCHANGED <<tenant, app, integ>>
    BY <1>2 DEF AddMember
  <2>2. \A t \in TenantId : tenant[t] = e =>
          (<<t, user[e]>> \in members' <=> <<t, user[e]>> \in members)
    BY <1>2, <1>d DEF AddMember
  <2> QED BY <1>b, <1>c, <2>1, <2>2 DEF EmailKept
<1>3. CASE CreateApp(g)
  <2>1. UNCHANGED <<tenant, members, integ>>
    BY <1>3 DEF CreateApp
  <2>2. \A t \in TenantId, a \in AppId : tenant[t] = e => (app'[a] = t <=> app[a] = t)
    BY <1>3, <1>a, <1>d DEF CreateApp, FreshApp, UnusedApp
  <2> QED BY <1>b, <1>c, <2>1, <2>2 DEF EmailKept
<1>4. CASE DeleteIntegration(g) \/ CreateIntegration(g)
  <2>1. UNCHANGED <<tenant, members, app>>
    BY <1>4 DEF DeleteIntegration, CreateIntegration
  <2>2. \/ UNCHANGED integ
        \/ \E i : integ' = [integ EXCEPT ![proc[g].aid] = i]
    BY <1>4 DEF DeleteIntegration, CreateIntegration
  <2>3. \A t \in TenantId, a \in AppId :
          tenant[t] = e /\ app[a] = t => a # proc[g].aid
    BY <1>4, <1>e DEF DeleteIntegration, CreateIntegration
  <2>4. \A a \in AppId : a # proc[g].aid => integ'[a] = integ[a]
    BY <2>2 DEF TypeInv, TypeOK
  <2> QED BY <1>b, <1>c, <2>1, <2>3, <2>4 DEF EmailKept
<1>5. CASE DeleteUser(g)
  <2>1. UNCHANGED <<tenant, app, integ>>
    BY <1>5 DEF DeleteUser
  <2>2. user[e] # proc[g].uid \/ user[e] = None
    BY DEF UserInv, HeldUserIsOwn
  <2>3. \A t \in TenantId : <<t, user[e]>> \in members' <=> <<t, user[e]>> \in members
    BY <1>5, <1>a, <2>2 DEF DeleteUser
  <2> QED BY <1>b, <1>c, <2>1, <2>3 DEF EmailKept
<1>6. CASE DeleteTenant(g)
  <2>1. proc[g].tid \in TenantId /\ tenant[proc[g].tid] = g[2]
    BY <1>6, <1>d DEF DeleteTenant
  <2>2. /\ tenant' = [tenant EXCEPT ![proc[g].tid] = None]
        /\ members' = {m \in members : m[1] # proc[g].tid}
        /\ app' = [a \in AppId |-> IF app[a] = proc[g].tid THEN None ELSE app[a]]
        /\ integ' = [a \in AppId |-> IF app[a] = proc[g].tid THEN None ELSE integ[a]]
    BY <1>6, <1>a, <2>1 DEF DeleteTenant
  <2>3. \A t \in TenantId : tenant'[t] = e <=> tenant[t] = e
    BY <1>a, <2>1, <2>2
  <2>4. ASSUME NEW t \in TenantId, tenant[t] = e
        PROVE  /\ <<t, user[e]>> \in members' <=> <<t, user[e]>> \in members
               /\ \A a \in AppId : app'[a] = t <=> app[a] = t
               /\ \A a \in AppId : app[a] = t => integ'[a] = integ[a]
    <3>1. t # proc[g].tid
      BY <2>1, <2>4
    <3> QED BY <1>a, <2>2, <3>1
  <2> QED BY <1>b, <1>c, <2>3, <2>4 DEF EmailKept
<1>7. CASE UNCHANGED <<tenant, members, app, integ>>
  BY <1>b, <1>c, <1>7 DEF EmailKept
<1> QED BY <1>1, <1>2, <1>3, <1>4, <1>5, <1>6, <1>7
        DEF Work, FindUser, CreateUser, FindTenant, GetMember, FindApp,
            GetIntegration, AssignCtx, ReadCtx, EndDelete, EndProvision,
            CallError, chirp

\* A goroutine that has just started, ended or failed relies on nothing.
LEMMA HeldFree ==
  ASSUME NEW g \in Goroutine,
         proc'[g].pc \in {"idle", "user", "assign", "readCtx", "error"}
  PROVE  Held(g)'
BY DEF Held, HoldsUser, AtTenant, AtMember, AtApp

\* A goroutine's own step: what it reads, it holds; what it makes, too.
LEMMA HeldOwn ==
  ASSUME TypeInv, UserInv, ExactSearch, NEW g \in Goroutine, Work(g), Held(g),
         proc[g].op \in {"provision", "delete"}
  PROVE  Held(g)'
<1> DEFINE p == proc[g]
           e == g[2]
<1>a. /\ p \in Worker /\ LocalOK(g, p) /\ e \in Email /\ None \notin Email
      /\ user \in [Email -> UserId \cup {None}] /\ None \notin UserId
      /\ tenant \in [TenantId -> Email \cup {None}]
      /\ app \in [AppId -> TenantId \cup {None}]
      /\ integ \in [AppId -> Integration \cup {None}]
      /\ proc \in [Goroutine -> Worker] /\ None \notin TenantId
      /\ None \notin Integration
  BY IdAssumption, NoneAssumption, Domains DEF TypeInv, TypeOK, LocalsOK, Integration
<1>b. ASSUME NEW l, Reply(g, l), proc'[g] = l => Held(g)'
      PROVE  Held(g)'
  BY <1>a, <1>b, Replied, HeldFree DEF Worker
<1>c. ASSUME proc' = [proc EXCEPT ![g].pc = "error"]
      PROVE  Held(g)'
  BY <1>c, Failed, HeldFree
<1>d. /\ AfterTenant(p.op) \in {"member", "deleteUser"}
      /\ p.op = "provision" => AfterApp(p.op) = "integration"
  BY DEF AfterTenant, AfterApp
<1>1. CASE FindUser(g)
  <2>1. CASE user[e] # None
    <3>1. ASSUME proc'[g] = [p EXCEPT !.uid = user[e], !.pc = "tenant"]
          PROVE  Held(g)'
      <4>1. proc'[g].pc = "tenant" /\ proc'[g].uid = user[e] /\ user' = user
        BY <1>1, <1>a, <3>1 DEF FindUser, Worker, chirp
      <4> QED BY <2>1, <4>1 DEF Held, HoldsUser, AtTenant, AtMember, AtApp
    <3> QED BY <1>1, <1>b, <2>1, <3>1 DEF FindUser
  <2>2. CASE user[e] = None
    <3>1. ASSUME proc'[g] = Goto(g, "createUser")
          PROVE  Held(g)'
      <4>1. proc'[g].pc = "createUser" /\ user' = user
        BY <1>1, <1>a, <3>1 DEF FindUser, Worker, Goto, chirp
      <4> QED BY <2>2, <4>1 DEF Held, HoldsUser, AtTenant, AtMember, AtApp
    <3> QED BY <1>1, <1>b, <2>2, <3>1 DEF FindUser
  <2> QED BY <2>1, <2>2
<1>2. CASE CreateUser(g)
  <2>1. user[e] = None
    BY <1>2 DEF CreateUser, Held, At
  <2>2. PICK u \in UserId :
          /\ user' = [user EXCEPT ![e] = u]
          /\ Reply(g, [p EXCEPT !.uid = u, !.pc = "tenant"])
    BY <1>2, <2>1 DEF CreateUser
  <2>3. ASSUME proc'[g] = [p EXCEPT !.uid = u, !.pc = "tenant"]
        PROVE  Held(g)'
    <3>1. proc'[g].pc = "tenant" /\ proc'[g].uid = user'[e] /\ user'[e] # None
      BY <1>a, <2>2, <2>3 DEF Worker
    <3> QED BY <3>1 DEF Held, HoldsUser, AtTenant, AtMember, AtApp
  <2> QED BY <1>b, <2>2, <2>3
\* With its tenant t, the goroutine goes on to q.
<1>e. ASSUME p.pc \in {"tenant", "createTenant", "updateTenant"},
             NEW t \in TenantId, tenant'[t] = e, user' = user,
             NEW q \in {"updateTenant", "member", "deleteUser"},
             proc'[g].pc = q, proc'[g].tid = t, proc'[g].uid = p.uid
      PROVE  Held(g)'
  <2>1. p.uid = user[e] /\ p.uid # None
    BY <1>e DEF Held, HoldsUser, AtTenant
  <2> QED BY <1>e, <2>1 DEF Held, HoldsUser, AtTenant, AtMember, AtApp
<1>3. CASE FindTenant(g)
  <2>0. user' = user /\ tenant' = tenant /\ p.pc = "tenant"
    BY <1>3 DEF FindTenant, chirp, At
  <2>1. ASSUME proc'[g] = Goto(g, "createTenant")
        PROVE  Held(g)'
    <3>1. proc'[g].pc = "createTenant" /\ proc'[g].uid = p.uid
      BY <1>a, <2>1 DEF Goto, Worker
    <3>2. p.uid = user[e] /\ p.uid # None
      BY <2>0 DEF Held, HoldsUser
    <3> QED BY <2>0, <3>1, <3>2 DEF Held, HoldsUser, AtTenant, AtMember, AtApp
  <2>2. ASSUME NEW t \in Matches(e),
               proc'[g] = [p EXCEPT !.tid = t,
                             !.pc = IF UpdateTenants THEN "updateTenant"
                                    ELSE AfterTenant(p.op)]
        PROVE  Held(g)'
    <3>1. t \in TenantId /\ tenant'[t] = e
      BY <1>a, <2>0 DEF Matches, ExactSearch
    <3>2. /\ proc'[g].pc \in {"updateTenant", "member", "deleteUser"}
          /\ proc'[g].tid = t /\ proc'[g].uid = p.uid
      BY <1>a, <1>d, <2>2 DEF Worker
    <3> QED BY <1>e, <2>0, <3>1, <3>2
  <2> QED BY <1>3, <1>b, <1>c, <2>1, <2>2 DEF FindTenant
<1>4. CASE CreateTenant(g)
  <2>1. PICK t \in TenantId :
          /\ tenant' = [tenant EXCEPT ![t] = e]
          /\ Reply(g, [p EXCEPT !.tid = t, !.pc = AfterTenant(p.op)])
    BY <1>4 DEF CreateTenant
  <2>2. ASSUME proc'[g] = [p EXCEPT !.tid = t, !.pc = AfterTenant(p.op)]
        PROVE  Held(g)'
    <3>1. tenant'[t] = e /\ user' = user /\ p.pc = "createTenant"
      BY <1>4, <1>a, <2>1 DEF CreateTenant, At
    <3>2. /\ proc'[g].pc \in {"updateTenant", "member", "deleteUser"}
          /\ proc'[g].tid = t /\ proc'[g].uid = p.uid
      BY <1>a, <1>d, <2>2 DEF Worker
    <3> QED BY <1>e, <3>1, <3>2
  <2> QED BY <1>b, <2>1, <2>2
<1>5. CASE UpdateTenant(g)
  <2>1. ASSUME tenant' = [tenant EXCEPT ![p.tid] = e],
               proc'[g] = Goto(g, AfterTenant(p.op))
        PROVE  Held(g)'
    <3>1. p.tid \in TenantId /\ user' = user /\ p.pc = "updateTenant"
      BY <1>5, <1>a DEF UpdateTenant, At, LocalOK, Worker
    <3>2. /\ proc'[g].pc \in {"updateTenant", "member", "deleteUser"}
          /\ proc'[g].tid = p.tid /\ proc'[g].uid = p.uid
      BY <1>a, <1>d, <2>1 DEF Goto, Worker
    <3>3. tenant'[p.tid] = e
      BY <1>a, <2>1, <3>1
    <3> QED BY <1>e, <3>1, <3>2, <3>3
  <2> QED BY <1>5, <1>b, <1>c, <2>1 DEF UpdateTenant
\* On the way from the membership to the integration.
<1>f. ASSUME p.pc \in {"member", "addMember"} \cup AtMember,
             user' = user, tenant' = tenant,
             NEW q \in {"addMember"} \cup AtMember,
             proc'[g].pc = q, proc'[g].tid = p.tid, proc'[g].uid = p.uid,
             proc'[g].op = p.op, p.op = "provision",
             q = "addMember" => <<p.tid, p.uid>> \notin members',
             q \in AtMember => <<p.tid, p.uid>> \in members',
             q \in AtApp => proc'[g].aid \in AppId /\ app'[proc'[g].aid] = p.tid,
             q = "deleteIntegration" => integ'[proc'[g].aid] # None,
             q = "createIntegration" => integ'[proc'[g].aid] = None
      PROVE  Held(g)'
  <2>1. p.uid = user[e] /\ p.uid # None /\ tenant[p.tid] = e
    BY <1>f DEF Held, HoldsUser, AtTenant, AtMember
  <2> HIDE DEF p
  <2> QED BY <1>f, <2>1 DEF Held, HoldsUser, AtTenant, AtMember, AtApp
<1>6. CASE GetMember(g)
  <2> DEFINE q == IF <<p.tid, p.uid>> \in members THEN "app" ELSE "addMember"
  <2>1. ASSUME proc'[g] = Goto(g, q)
        PROVE  Held(g)'
    <3>1. /\ UNCHANGED <<user, tenant, members, app, integ>> /\ p.pc = "member"
          /\ p.op = "provision"
      BY <1>6, <1>a DEF GetMember, At, LocalOK, chirp
    <3>2. /\ proc'[g].pc = q /\ proc'[g].tid = p.tid /\ proc'[g].uid = p.uid
          /\ proc'[g].op = p.op
      BY <1>a, <2>1 DEF Goto, Worker
    <3> QED BY <1>f, <3>1, <3>2 DEF AtMember, AtApp
  <2> QED BY <1>6, <1>b, <2>1 DEF GetMember
<1>7. CASE AddMember(g)
  <2>1. ASSUME members' = members \cup {<<p.tid, p.uid>>}, proc'[g] = Goto(g, "app")
        PROVE  Held(g)'
    <3>1. UNCHANGED <<user, tenant>> /\ p.pc = "addMember" /\ p.op = "provision"
      BY <1>7, <1>a DEF AddMember, At, LocalOK
    <3>2. /\ proc'[g].pc = "app" /\ proc'[g].tid = p.tid /\ proc'[g].uid = p.uid
          /\ proc'[g].op = p.op
      BY <1>a, <2>1 DEF Goto, Worker
    <3> QED BY <1>f, <2>1, <3>1, <3>2 DEF AtMember, AtApp
  <2> QED BY <1>7, <1>b, <1>c, <2>1 DEF AddMember
<1>8. CASE FindApp(g)
  <2>0. /\ UNCHANGED <<user, tenant, members, app, integ>> /\ p.pc = "app"
        /\ p.op = "provision" /\ <<p.tid, p.uid>> \in members
    BY <1>8 DEF FindApp, At, chirp, Held, AtMember
  <2>1. ASSUME proc'[g] = Goto(g, "createApp")
        PROVE  Held(g)'
    <3>1. /\ proc'[g].pc = "createApp" /\ proc'[g].tid = p.tid
          /\ proc'[g].uid = p.uid /\ proc'[g].op = p.op
      BY <1>a, <2>1 DEF Goto, Worker
    <3> QED BY <1>f, <2>0, <3>1 DEF AtMember, AtApp
  <2>2. ASSUME NEW a \in AppsOf(p.tid),
               proc'[g] = [p EXCEPT !.aid = a, !.pc = AfterApp(p.op)]
        PROVE  Held(g)'
    <3>1. /\ proc'[g].pc = "integration" /\ proc'[g].tid = p.tid
          /\ proc'[g].uid = p.uid /\ proc'[g].op = p.op /\ proc'[g].aid = a
      BY <1>a, <1>d, <2>0, <2>2 DEF Worker
    <3> QED BY <1>f, <2>0, <3>1 DEF AtMember, AtApp, AppsOf
  <2> QED BY <1>8, <1>b, <1>c, <2>1, <2>2 DEF FindApp
<1>9. CASE CreateApp(g)
  <2>0. /\ UNCHANGED <<user, tenant, members, integ>> /\ p.pc = "createApp"
        /\ p.op = "provision" /\ <<p.tid, p.uid>> \in members
    BY <1>9 DEF CreateApp, At, Held, AtMember
  <2>1. ASSUME NEW a \in AppId, app' = [app EXCEPT ![a] = p.tid],
               proc'[g] = [p EXCEPT !.aid = a, !.pc = AfterApp(p.op)]
        PROVE  Held(g)'
    <3>1. /\ proc'[g].pc = "integration" /\ proc'[g].tid = p.tid
          /\ proc'[g].uid = p.uid /\ proc'[g].op = p.op /\ proc'[g].aid = a
      BY <1>a, <1>d, <2>0, <2>1 DEF Worker
    <3>2. app'[a] = p.tid
      BY <1>a, <2>1
    <3> QED BY <1>f, <2>0, <3>1, <3>2 DEF AtMember, AtApp
  <2> QED BY <1>9, <1>b, <1>c, <2>1 DEF CreateApp
\* The integration is there and points at this connector.
<1>g. ASSUME p.pc \in AtApp, UNCHANGED <<user, tenant, members, app>>,
             integ'[p.aid] # None, integ'[p.aid].endpoint = endpoint',
             proc'[g].pc = "ok", proc'[g].op = "provision"
      PROVE  Held(g)'
  <2>1. /\ p.uid = user[e] /\ p.uid # None /\ tenant[p.tid] = e
        /\ <<p.tid, p.uid>> \in members
        /\ p.aid \in AppId /\ app[p.aid] = p.tid
    BY <1>g DEF Held, HoldsUser, AtTenant, AtMember, AtApp
  <2>2. p.tid \in TenantId
    BY <2>1 DEF TypeInv, TypeOK
  <2>3. Serves(e)'
    BY <1>g, <2>1, <2>2 DEF Serves
  <2> QED BY <1>g, <2>3 DEF Held, HoldsUser, AtTenant, AtMember, AtApp
<1>10. CASE GetIntegration(g)
  <2>0. /\ UNCHANGED <<user, tenant, members, app, integ, endpoint>>
        /\ p.pc = "integration" /\ p.op = "provision"
        /\ <<p.tid, p.uid>> \in members
        /\ p.aid \in AppId /\ app[p.aid] = p.tid
    BY <1>10 DEF GetIntegration, At, chirp, config, Held, AtMember, AtApp
  <2>1. ASSUME NEW q \in {"createIntegration", "deleteIntegration", "ok"},
               proc'[g] = Goto(g, q),
               q = "createIntegration" => integ[p.aid] = None,
               q = "deleteIntegration" => integ[p.aid] # None,
               q = "ok" => integ[p.aid] # None /\ integ[p.aid].endpoint = endpoint
        PROVE  Held(g)'
    <3>1. /\ proc'[g].pc = q /\ proc'[g].tid = p.tid /\ proc'[g].aid = p.aid
          /\ proc'[g].uid = p.uid /\ proc'[g].op = p.op
      BY <1>a, <2>1 DEF Goto, Worker
    <3>2. CASE q = "ok"
      BY <1>g, <2>0, <2>1, <3>1, <3>2 DEF AtApp
    <3>3. CASE q # "ok"
      BY <1>f, <2>0, <2>1, <3>1, <3>3 DEF AtMember, AtApp
    <3> QED BY <3>2, <3>3
  <2> DEFINE q == CASE integ[p.aid] = None -> "createIntegration"
                    [] integ[p.aid] # None
                       /\ integ[p.aid].endpoint # endpoint -> "deleteIntegration"
                    [] OTHER -> "ok"
  <2>2. Reply(g, Goto(g, q))
    BY <1>10 DEF GetIntegration
  <2>3. /\ q \in {"createIntegration", "deleteIntegration", "ok"}
        /\ q = "createIntegration" => integ[p.aid] = None
        /\ q = "deleteIntegration" => integ[p.aid] # None
        /\ q = "ok" => integ[p.aid] # None /\ integ[p.aid].endpoint = endpoint
    OBVIOUS
  <2> HIDE DEF q
  <2> QED BY <1>b, <2>1, <2>2, <2>3
<1>11. CASE DeleteIntegration(g)
  <2>0. /\ UNCHANGED <<user, tenant, members, app>>
        /\ p.pc = "deleteIntegration" /\ p.op = "provision"
        /\ <<p.tid, p.uid>> \in members
        /\ p.aid \in AppId /\ app[p.aid] = p.tid
    BY <1>11 DEF DeleteIntegration, At, Held, AtMember, AtApp
  <2>1. ASSUME integ' = [integ EXCEPT ![p.aid] = None],
               proc'[g] = Goto(g, "createIntegration")
        PROVE  Held(g)'
    <3>1. /\ proc'[g].pc = "createIntegration" /\ proc'[g].tid = p.tid
          /\ proc'[g].aid = p.aid /\ proc'[g].uid = p.uid /\ proc'[g].op = p.op
      BY <1>a, <2>1 DEF Goto, Worker
    <3>2. integ'[p.aid] = None
      BY <1>a, <2>0, <2>1
    <3> QED BY <1>f, <2>0, <3>1, <3>2 DEF AtMember, AtApp
  <2> QED BY <1>11, <1>b, <1>c, <2>1 DEF DeleteIntegration
<1>12. CASE CreateIntegration(g)
  <2>0. /\ UNCHANGED <<user, tenant, members, app, endpoint>>
        /\ p.pc = "createIntegration" /\ p.op = "provision" /\ p.aid \in AppId
    BY <1>12 DEF CreateIntegration, At, config, Held, AtMember, AtApp
  <2>1. ASSUME integ' = [integ EXCEPT ![p.aid] =
                           [sub |-> p.sub, endpoint |-> endpoint]],
               proc'[g] = Goto(g, "ok")
        PROVE  Held(g)'
    <3>1. proc'[g].pc = "ok" /\ proc'[g].op = "provision"
      BY <1>a, <2>0, <2>1 DEF Goto, Worker
    <3>2. integ'[p.aid] = [sub |-> p.sub, endpoint |-> endpoint]
      BY <1>a, <2>0, <2>1
    <3>3. [sub |-> p.sub, endpoint |-> endpoint] \in Integration
      BY <1>a, <2>0 DEF Integration, LocalOK, Worker, TypeInv, TypeOK
    <3> QED BY <1>a, <1>g, <2>0, <3>1, <3>2, <3>3 DEF AtApp
  <2> QED BY <1>12, <1>b, <1>c, <2>1 DEF CreateIntegration
<1>13. CASE AssignCtx(g) \/ ReadCtx(g)
  BY <1>13, <1>a, HeldFree DEF AssignCtx, ReadCtx, Worker
<1>14. CASE DeleteUser(g)
  <2>1. p.uid = user[e] /\ p.uid # None /\ tenant[p.tid] = e /\ p.op = "delete"
    BY <1>14, <1>a DEF DeleteUser, At, Held, HoldsUser, AtTenant, LocalOK
  <2>2. UserLives(p.uid)
    BY <1>a, <2>1 DEF UserLives
  <2>3. user'[e] = None /\ tenant' = tenant /\ Reply(g, Goto(g, "deleteTenant"))
    BY <1>14, <1>a, <2>1, <2>2 DEF DeleteUser
  <2>4. ASSUME proc'[g] = Goto(g, "deleteTenant")
        PROVE  Held(g)'
    <3>1. proc'[g].pc = "deleteTenant" /\ proc'[g].tid = p.tid
      BY <1>a, <2>4 DEF Goto, Worker
    <3> QED BY <2>1, <2>3, <3>1 DEF Held, HoldsUser, AtTenant, AtMember, AtApp
  <2> QED BY <1>b, <2>3, <2>4
<1>15. CASE DeleteTenant(g)
  <2>1. user' = user /\ user[e] = None /\ p.op = "delete"
    BY <1>15, <1>a DEF DeleteTenant, At, Held, LocalOK
  <2>2. ASSUME proc'[g] = Goto(g, "ok")
        PROVE  Held(g)'
    <3>1. proc'[g].pc = "ok" /\ proc'[g].op = "delete"
      BY <1>a, <2>1, <2>2 DEF Goto, Worker
    <3> QED BY <2>1, <3>1 DEF Held, HoldsUser, AtTenant, AtMember, AtApp
  <2> QED BY <1>15, <1>b, <1>c, <2>2 DEF DeleteTenant
<1>16. CASE EndDelete(g) \/ EndProvision(g)
  BY <1>16, <1>a, HeldFree DEF EndDelete, EndProvision, Idle
<1>17. CASE CallError(g)
  BY <1>17, <1>c DEF CallError
<1> QED BY <1>1, <1>2, <1>3, <1>4, <1>5, <1>6, <1>7, <1>8, <1>9, <1>10, <1>11,
           <1>12, <1>13, <1>14, <1>15, <1>16, <1>17 DEF Work

LEMMA HeldStep ==
  ASSUME TypeInv, UserInv, ExactSearch, PhaseInv, QuietInv, HeldInv, [Next]_vars
  PROVE  HeldInv'
<1> SUFFICES ASSUME NEW s \in Syncer, NEW e \in Email, run'[s].quiet
             PROVE  Held(<<s, e>>)'
  BY DEF HeldInv
<1> DEFINE g == <<s, e>>
<1>a. /\ \A f \in Email : <<s, f>> \in Goroutine
      /\ run[s].quiet => \A f \in Email : Held(<<s, f>>)
  BY Domains DEF HeldInv
<1>1. ASSUME run[s].quiet, NEW f \in Email, Work(<<s, f>>)
      PROVE  Held(g)'
  <2>1. CASE e = f
    <3>1. proc[g].op \in {"provision", "delete"}
      BY <1>a, <1>1, <2>1, WorkOthers DEF PhaseInv
    <3> QED BY <1>a, <1>1, <2>1, <3>1, HeldOwn
  <2>2. CASE e # f
    <3>1. EmailKept(e) /\ proc'[g] = proc[g]
      BY <1>a, <1>1, <2>2, WorkEffect, WorkOthers
    <3> QED BY <1>a, <1>1, <3>1, HeldKept
  <2> QED BY <2>1, <2>2
<1>2. ASSUME run[s].quiet, UNCHANGED <<chirp, endpoint>>,
             proc'[g] = proc[g] \/ proc'[g].pc \in {"user", "assign"}
      PROVE  Held(g)'
  <2>1. EmailKept(e)
    BY <1>2 DEF EmailKept, chirp
  <2>2. CASE proc'[g] = proc[g]
    BY <1>a, <1>2, <2>1, <2>2, HeldKept
  <2>3. CASE proc'[g].pc \in {"user", "assign"}
    BY <1>a, <2>3, HeldFree
  <2> QED BY <1>2, <2>2, <2>3
<1>3. ASSUME run[s].quiet, SyncStep(s)
      PROVE  Held(g)'
  <2>1. UNCHANGED <<chirp, endpoint>>
    BY <1>3, SyncOthers
  <2>2. proc'[g] = proc[g] \/ proc'[g].pc \in {"user", "assign"}
    <3>1. CASE ListAccounts(s)
      BY <1>a, <3>1 DEF ListAccounts, Started, Idle
    <3>2. CASE ListChirpUsers(s)
      BY <1>a, <3>2 DEF ListChirpUsers, Started, Idle
    <3> QED BY <1>3, <3>1, <3>2
            DEF SyncStep, WaitProvisioned, SnapshotAccounts, WaitDeleted
  <2> QED BY <1>2, <1>3, <2>1, <2>2
<1>4. CASE StartSync(s) \/ Restart
  <2>1. At(g, "idle")'
    <3>1. CASE StartSync(s)
      BY <3>1, PhaseFree DEF StartSync, At
    <3>2. CASE Restart
      BY <1>a, <3>2 DEF Restart, Idle, At
    <3> QED BY <1>4, <3>1, <3>2
  <2> QED BY <1>a, <2>1, HeldFree DEF At
<1>5. CASE run[s].quiet /\ UNCHANGED <<kc, chirp, proc, run, endpoint>>
  BY <1>2, <1>5
<1> QED BY <1>1, <1>3, <1>4, <1>5, QuietNext

\* Keycloak returns all accounts in one answer.
OnePage == IsFiniteSet(Sub) /\ Cardinality(Sub) <= KcMax

LEMMA AllAccounts ==
  ASSUME OnePage, NEW A \in Pages
  PROVE  A = {s \in Sub : HasAccount(s)}
<1> DEFINE all == {s \in Sub : HasAccount(s)}
<1>1. /\ IsFiniteSet(all) /\ Cardinality(all) <= Cardinality(Sub)
      /\ A \in SUBSET all
  BY FS_Subset DEF OnePage, Pages
<1>2. /\ Cardinality(A) <= Cardinality(all)
      /\ Cardinality(all) = Cardinality(A) => all = A
  BY <1>1, FS_Subset
<1>3. /\ Cardinality(Sub) \in Nat /\ Cardinality(all) \in Nat
      /\ Cardinality(A) \in Nat /\ KcMax \in Nat
  BY <1>1, FS_Subset, FS_CardinalityType, BoundAssumption DEF OnePage
<1>4. A = all \/ Cardinality(A) = KcMax
  BY DEF Pages
<1> HIDE DEF all
<1>5. A = all
  BY <1>1, <1>2, <1>3, <1>4 DEF OnePage
<1> QED BY <1>5 DEF all

\* A quiet run without error has served, or is serving, every account.
ServeInv ==
  \A s \in Syncer : run[s].quiet =>
    /\ run[s].pc \in {"listChirp", "deleting"} => KcEmails \subseteq run[s].seen
    /\ run[s].pc = "provisioning" /\ ~run[s].err =>
         \A e \in KcEmails : At(<<s, e>>, "idle") => Serves(e)
    /\ run[s].pc \in {"listDelete", "listChirp", "deleting", "done"} /\ ~run[s].err =>
         \A e \in KcEmails : Serves(e)

LEMMA ServeStep ==
  ASSUME TypeInv, UserInv, ExactSearch, OnePage, PhaseInv, QuietInv, HeldInv,
         DeletesJustified, ServeInv, [Next]_vars
  PROVE  ServeInv'
<1> DEFINE Served == {"listDelete", "listChirp", "deleting", "done"}
<1> SUFFICES ASSUME NEW s \in Syncer, run'[s].quiet
             PROVE  /\ run'[s].pc \in {"listChirp", "deleting"} =>
                         KcEmails' \subseteq run'[s].seen
                    /\ run'[s].pc = "provisioning" /\ ~run'[s].err =>
                         \A e \in KcEmails' : At(<<s, e>>, "idle")' => Serves(e)'
                    /\ run'[s].pc \in Served /\ ~run'[s].err =>
                         \A e \in KcEmails' : Serves(e)'
  BY DEF ServeInv
<1>a. /\ run \in [Syncer -> Run] /\ proc \in [Goroutine -> Worker]
      /\ \A f \in Email : <<s, f>> \in Goroutine
      /\ KcEmails \subseteq Email
      /\ LocalsOK'
  BY Domains, NextType DEF KcEmails, TypeInv
<1>b. run[s].quiet =>
        /\ run[s].pc \in {"listChirp", "deleting"} => KcEmails \subseteq run[s].seen
        /\ run[s].pc = "provisioning" /\ ~run[s].err =>
             \A e \in KcEmails : At(<<s, e>>, "idle") => Serves(e)
        /\ run[s].pc \in Served /\ ~run[s].err => \A e \in KcEmails : Serves(e)
        /\ \A e \in Email : Held(<<s, e>>)
  BY DEF ServeInv, HeldInv
<1>c. ASSUME UNCHANGED <<kc, chirp, endpoint>>
      PROVE  KcEmails' = KcEmails /\ \A e \in Email : Serves(e)' <=> Serves(e)
  BY <1>c DEF KcEmails, Serves, chirp
<1>1. ASSUME run[s].quiet, NEW f \in Email, Work(<<s, f>>)
      PROVE  /\ run'[s].pc \in {"listChirp", "deleting"} =>
                  KcEmails' \subseteq run'[s].seen
             /\ run'[s].pc = "provisioning" /\ ~run'[s].err =>
                  \A e \in KcEmails' : At(<<s, e>>, "idle")' => Serves(e)'
             /\ run'[s].pc \in Served /\ ~run'[s].err =>
                  \A e \in KcEmails' : Serves(e)'
  <2> DEFINE g == <<s, f>>
  <2>1. /\ KcEmails' = KcEmails
        /\ run'[s].pc = run[s].pc /\ run'[s].seen = run[s].seen
        /\ run[s].err => run'[s].err
        /\ ~run'[s].err /\ proc'[g] = Idle => At(g, "ok")
    <3>1. kc' = kc
      BY <1>1 DEF Work, FindUser, CreateUser, FindTenant, CreateTenant, UpdateTenant,
         GetMember, AddMember, FindApp, CreateApp, GetIntegration,
         DeleteIntegration, CreateIntegration, AssignCtx, ReadCtx, DeleteUser,
         DeleteTenant, EndDelete, EndProvision, CallError
    <3> QED BY <1>a, <1>1, <3>1, WorkRuns DEF KcEmails
  <2>2. /\ ~At(g, "idle")
        /\ \A e \in Email \ {f} : proc'[<<s, e>>] = proc[<<s, e>>]
        /\ proc'[g] = Idle \/ proc'[g].op = proc[g].op
        /\ \A e \in Email \ {f} : EmailKept(e)
    BY <1>a, <1>b, <1>1, WorkOthers, WorkOp, WorkEffect
  <2>3. run[s].pc \in {"provisioning", "deleting"}
    BY <2>2, PhaseFree
  <2>4. ASSUME run[s].pc = "provisioning", ~run'[s].err, NEW e \in KcEmails,
               At(<<s, e>>, "idle")'
        PROVE  Serves(e)'
    <3>1. CASE e # f
      <4>1. Serves(e)
        BY <1>a, <1>b, <1>1, <2>1, <2>2, <2>4, <3>1 DEF At
      <4> QED BY <1>a, <2>2, <3>1, <4>1, ServesKept
    <3>2. CASE e = f
      <4>1. proc[g].op = "provision"
        BY <2>2, <2>4 DEF PhaseInv
      <4>2. proc'[g] = Idle
        BY <1>a, <2>2, <2>4, <3>2, <4>1 DEF At, LocalsOK, LocalOK
      <4>3. At(g, "ok") /\ Serves(f)
        BY <1>b, <1>1, <2>1, <2>4, <4>1, <4>2 DEF Held, At
      <4>4. UNCHANGED <<kc, chirp, endpoint>>
        BY <1>1, <4>3 DEF At, Work, FindUser, CreateUser, FindTenant, CreateTenant,
           UpdateTenant, GetMember, AddMember, FindApp, CreateApp, GetIntegration,
           DeleteIntegration, CreateIntegration, AssignCtx, ReadCtx, DeleteUser,
           DeleteTenant, EndDelete, EndProvision, CallError, config
      <4> QED BY <1>c, <3>2, <4>3, <4>4
    <3> QED BY <3>1, <3>2
  <2>5. ASSUME run[s].pc = "deleting", ~run'[s].err, NEW e \in KcEmails
        PROVE  Serves(e)'
    <3>1. f \notin KcEmails
      <4>1. proc[g].op = "delete"
        BY <2>2, <2>5 DEF PhaseInv
      <4>2. f \notin run[s].seen
        BY <1>a, <4>1 DEF DeletesJustified, DeleteJustified
      <4> QED BY <1>b, <1>1, <2>5, <4>2
    <3>2. EmailKept(e) /\ Serves(e)
      BY <1>a, <1>b, <1>1, <2>1, <2>2, <2>5, <3>1
    <3> QED BY <1>a, <3>2, ServesKept
  <2> QED BY <1>b, <1>1, <2>1, <2>3, <2>4, <2>5
<1>2. ASSUME run[s].quiet, SyncStep(s)
      PROVE  /\ run'[s].pc \in {"listChirp", "deleting"} =>
                  KcEmails' \subseteq run'[s].seen
             /\ run'[s].pc = "provisioning" /\ ~run'[s].err =>
                  \A e \in KcEmails' : At(<<s, e>>, "idle")' => Serves(e)'
             /\ run'[s].pc \in Served /\ ~run'[s].err =>
                  \A e \in KcEmails' : Serves(e)'
  <2>a. KcEmails' = KcEmails /\ \A e \in KcEmails : Serves(e)' <=> Serves(e)
    BY <1>a, <1>2, <1>c, SyncOthers
  <2>b. ASSUME Finish(s, TRUE)
        PROVE  run'[s].pc = "done" /\ run'[s].err
    BY <1>a, <2>b DEF Finish, Run
  <2>1. CASE ListAccounts(s)
    <3>1. ASSUME NEW A \in Pages,
                 proc' = [g \in Goroutine |->
                   IF g[1] = s /\ \E a \in A : kc[a] = g[2]
                   THEN Started("provision", "user",
                                CHOOSE a \in A : kc[a] = g[2], None)
                   ELSE proc[g]],
                 NEW e \in KcEmails
          PROVE  ~At(<<s, e>>, "idle")'
      <4>1. PICK a \in Sub : kc[a] = e
        BY DEF KcEmails
      <4>2. a \in A
        BY <1>a, <3>1, <4>1, AllAccounts, IdAssumption DEF HasAccount
      <4> QED BY <1>a, <3>1, <4>1, <4>2 DEF Started, Idle, At
    <3>2. run'[s].pc = "provisioning" \/ (run'[s].pc = "listDelete" /\ run'[s].err)
      BY <1>a, <2>1 DEF ListAccounts, Run
    <3>3. ASSUME run'[s].pc = "provisioning"
          PROVE  \A e \in KcEmails : ~At(<<s, e>>, "idle")'
      <4>1. ~(run' = [run EXCEPT ![s].pc = "listDelete", ![s].err = TRUE])
        BY <1>a, <3>3 DEF Run
      <4> QED BY <2>1, <3>1, <4>1 DEF ListAccounts
    <3> QED BY <2>a, <3>2, <3>3
  <2>2. CASE WaitProvisioned(s)
    <3>1. /\ run[s].pc = "provisioning" /\ run'[s].pc = "listDelete"
          /\ run'[s].err = run[s].err
          /\ \A e \in Email : At(<<s, e>>, "idle")
      BY <1>a, <2>2 DEF WaitProvisioned, Free, At, Run
    <3> QED BY <1>a, <1>b, <1>2, <2>a, <3>1
  <2>3. CASE SnapshotAccounts(s)
    <3>1. ASSUME NEW A \in Pages,
                 run' = [run EXCEPT ![s].pc = "listChirp",
                                    ![s].seen = {kc[a] : a \in A} \cap Email]
          PROVE  /\ run'[s].pc = "listChirp" /\ run'[s].err = run[s].err
                 /\ KcEmails \subseteq run'[s].seen
      <4>1. run'[s].seen = {kc[a] : a \in A} \cap Email
        BY <1>a, <3>1 DEF Run
      <4>2. ASSUME NEW e \in KcEmails PROVE e \in run'[s].seen
        <5>1. PICK a \in Sub : kc[a] = e
          BY DEF KcEmails
        <5>2. a \in A
          BY <1>a, <3>1, <5>1, AllAccounts, IdAssumption DEF HasAccount
        <5> QED BY <1>a, <4>1, <5>1, <5>2
      <4> QED BY <1>a, <3>1, <4>2 DEF Run
    <3>2. run[s].pc = "listDelete"
      BY <2>3 DEF SnapshotAccounts
    <3> QED BY <1>b, <1>2, <2>3, <2>a, <2>b, <3>1, <3>2 DEF SnapshotAccounts
  <2>4. CASE ListChirpUsers(s)
    <3>1. ASSUME run' = [run EXCEPT ![s].pc = "deleting"]
          PROVE  /\ run'[s].pc = "deleting" /\ run'[s].err = run[s].err
                 /\ run'[s].seen = run[s].seen
      BY <1>a, <3>1 DEF Run
    <3>2. run[s].pc = "listChirp"
      BY <2>4 DEF ListChirpUsers
    <3> QED BY <1>b, <1>2, <2>4, <2>a, <2>b, <3>1, <3>2 DEF ListChirpUsers
  <2>5. CASE WaitDeleted(s)
    <3>1. /\ run[s].pc = "deleting" /\ run'[s].pc = "done"
          /\ run'[s].err = run[s].err
      BY <1>a, <2>5 DEF WaitDeleted, Finish, Run
    <3> QED BY <1>b, <1>2, <2>a, <3>1
  <2> QED BY <1>2, <2>1, <2>2, <2>3, <2>4, <2>5 DEF SyncStep
<1>3. CASE StartSync(s) \/ Restart
  <2>1. run'[s].pc \in {"off", "list"}
    <3>1. CASE StartSync(s)
      <4>1. run'[s] = [NoRun EXCEPT !.pc = "list", !.quiet = Alone(s)]
        BY <1>a, <3>1 DEF StartSync, Disturb
      <4> QED BY <4>1 DEF NoRun
    <3>2. CASE Restart
      BY <3>2 DEF Restart, BootRuns, NoRun
    <3> QED BY <1>3, <3>1, <3>2
  <2> QED BY <2>1
<1>4. CASE run[s].quiet /\ UNCHANGED <<kc, chirp, proc, run, endpoint>>
  BY <1>4, <1>a, <1>b, <1>c DEF At
<1> QED BY <1>1, <1>2, <1>3, <1>4, QuietNext

\* A sync that nothing disturbs and that reports no error leaves every account
\* with its user, tenant, membership and app and with an integration that points
\* at this connector, whatever was there before.  It needs that no search matches
\* another email and that the accounts fit into one answer of Keycloak; no call
\* need succeed (ProvisionAllUsers, DeleteOutdatedUsers).
THEOREM SyncProvisionsCorrect ==
  ASSUME ExactSearch, OnePage
  PROVE  Spec => []SyncProvisionsAll
<1> DEFINE Inv == /\ TypeInv /\ UserInv /\ PhaseInv /\ QuietInv
                  /\ DeletesJustified /\ HeldInv /\ ServeInv
<1>1. Init => Inv
  <2> SUFFICES ASSUME Init PROVE Inv
    OBVIOUS
  <2>1. TypeInv /\ PhaseInv /\ QuietInv
    BY InitType, InitPhase
  <2>2. UserInv /\ DeletesJustified
    BY DEF Init, Idle, UserInv, UsersUnique, HeldUserIsOwn, DeletesJustified
  <2>3. HeldInv
    <3>1. \A g \in Goroutine : proc[g].pc = "idle"
      BY DEF Init, Idle
    <3> QED BY <2>1, <3>1, Domains
            DEF HeldInv, Held, HoldsUser, AtTenant, AtMember, AtApp
  <2>4. ServeInv
    BY DEF Init, BootRuns, NoRun, ServeInv
  <2> QED BY <2>1, <2>2, <2>3, <2>4
<1>2. Inv /\ [Next]_vars => Inv'
  BY NextType, UserInvStep, PhaseStep, QuietStep, JustifiedStep, HeldStep, ServeStep
<1>3. Inv => SyncProvisionsAll
  BY DEF ServeInv, SyncProvisionsAll, Completed
<1> QED BY <1>1, <1>2, <1>3, PTL DEF Spec

-----------------------------------------------------------------------------
(* Why a quiet sync fails.                                                 *)

LEMMA AppStep ==
  ASSUME TypeInv, ExactSearch, HeldTenantIsOwn, OneWorker, AppInv, [Next]_vars
  PROVE  AppInv'
<1>a. /\ app \in [AppId -> TenantId \cup {None}] /\ None \notin TenantId
      /\ \A g \in Goroutine : At(g, "createApp") => proc[g].tid \in TenantId
  BY IdAssumption, Domains DEF TypeInv, TypeOK, LocalsOK, LocalOK, Worker, At
<1>1. CASE ~\E g \in Goroutine : Work(g)
  <2>1. app' = app
    BY <1>1, OtherKeeps
  <2>2. \A g \in Goroutine : At(g, "createApp")' =>
          At(g, "createApp") /\ proc'[g] = proc[g]
    BY <1>1, OtherKeeps DEF At
  <2> QED BY <2>1, <2>2 DEF AppInv, AppsOf
<1>2. ASSUME NEW g \in Goroutine, Work(g)
      PROVE  AppInv'
  <2>a. /\ \A h \in Goroutine \ {g} : proc'[h] = proc[h]
        /\ \A h \in Goroutine \ {g} : ~At(h, "idle") => h[2] # g[2]
    BY <1>2, WorkOthers DEF OneWorker
  <2>1. CASE CreateApp(g) /\ ~UNCHANGED app
    <3>1. PICK a \in AppId : /\ app[a] = None
                             /\ app' = [app EXCEPT ![a] = proc[g].tid]
      BY <2>1 DEF CreateApp, FreshApp, UnusedApp
    <3>2. /\ tenant[proc[g].tid] = g[2] /\ proc[g].tid \in TenantId
          /\ AppsOf(proc[g].tid) = {}
      BY <1>a, <2>1 DEF CreateApp, HeldTenantIsOwn, AppInv
    <3>3. \A b, c \in AppId : app'[b] # None /\ app'[b] = app'[c] => b = c
      BY <1>a, <3>1, <3>2 DEF AppInv, AppsOf
    <3>4. ~At(g, "createApp")'
      BY <1>2, <2>1, Enters DEF At, FindApp, CreateApp
    <3>5. ASSUME NEW h \in Goroutine, At(h, "createApp")'
          PROVE  AppsOf(proc[h].tid)' = {}
      <4>1. h # g /\ At(h, "createApp") /\ proc'[h] = proc[h] /\ h[2] # g[2]
        BY <2>a, <3>4, <3>5 DEF At
      <4>2. proc[h].tid # proc[g].tid
        BY <1>a, <3>2, <4>1, IdAssumption, Domains DEF HeldTenantIsOwn
      <4> QED BY <1>a, <3>1, <4>1, <4>2 DEF AppInv, AppsOf
    <3> QED BY <3>3, <3>5 DEF AppInv
  <2>2. CASE ~(CreateApp(g) /\ ~UNCHANGED app)
    <3>1. \A a \in AppId : app'[a] \in {None, app[a]}
      <4>1. CASE DeleteTenant(g)
        BY <1>a, <4>1 DEF DeleteTenant
      <4>2. CASE UNCHANGED app
        BY <4>2
      <4> QED BY <1>2, <2>2, <4>1, <4>2
              DEF Work, FindUser, CreateUser, FindTenant, CreateTenant, UpdateTenant,
                  GetMember, AddMember, FindApp, GetIntegration,
                  DeleteIntegration, CreateIntegration, AssignCtx, ReadCtx,
                  DeleteUser, EndDelete, EndProvision, CallError, chirp
    <3>2. ASSUME NEW h \in Goroutine, At(h, "createApp")'
          PROVE  AppsOf(proc'[h].tid) = {} /\ proc'[h].tid \in TenantId
      <4>1. CASE h = g
        <5>1. FindApp(g) /\ AppsOf(proc[g].tid) = {} /\ proc'[g].tid = proc[g].tid
          BY <1>2, <3>2, <4>1, Enters DEF At
        <5>2. proc[g].tid \in TenantId
          BY <3>2, <4>1, <5>1, IdAssumption, NextType, Domains
             DEF TypeInv, LocalsOK, LocalOK, At, Worker
        <5> QED BY <4>1, <5>1, <5>2
      <4>2. CASE h # g
        BY <1>a, <2>a, <3>2, <4>2 DEF AppInv, At
      <4> QED BY <4>1, <4>2
    <3> QED BY <1>a, <3>1, <3>2 DEF AppInv, AppsOf
  <2> QED BY <2>1, <2>2
<1> QED
  BY <1>1, <1>2

\* Where all calls are answered, a goroutine of a quiet run fails only because
\* another one has cancelled its context.
FaultInv ==
  ~CallsFail => \A s \in Syncer, e \in Email :
    run[s].quiet /\ At(<<s, e>>, "error") =>
      proc[<<s, e>>].op = "delete" /\ proc[<<s, e>>].ctx \in run[s].cancelled

LEMMA WorkFails ==
  ASSUME TypeInv, ExactSearch, TenantInv, AppInv, ~CallsFail,
         NEW g \in Goroutine, Work(g), Held(g),
         proc[g].op \in {"provision", "delete"}, proc'[g].pc = "error"
  PROVE  Cancelled(g) /\ proc'[g] = [proc[g] EXCEPT !.pc = "error"]
<1> DEFINE p == proc[g]
           e == g[2]
<1>a. /\ p \in Worker /\ LocalOK(g, p) /\ e \in Email /\ None \notin Email
      /\ user \in [Email -> UserId \cup {None}] /\ None \notin TenantId
      /\ members \subseteq TenantId \X UserId
      /\ tenant \in [TenantId -> Email \cup {None}]
      /\ proc \in [Goroutine -> Worker]
  BY IdAssumption, Domains DEF TypeInv, TypeOK, LocalsOK
<1>b. ASSUME NEW l, Reply(g, l), l.pc # "error"
      PROVE  Cancelled(g) /\ proc'[g] = [p EXCEPT !.pc = "error"]
  BY <1>a, <1>b, Replied DEF Worker
<1>c. ASSUME NEW q, q # "error", Reply(g, Goto(g, q))
      PROVE  Cancelled(g) /\ proc'[g] = [p EXCEPT !.pc = "error"]
  BY <1>a, <1>b, <1>c DEF Goto, Worker
<1>d. /\ AfterTenant(p.op) \in {"member", "deleteUser"}
      /\ AfterApp(p.op) # "error"
  BY DEF AfterTenant, AfterApp
<1>1. CASE FindUser(g)
  <2>1. CASE user[e] # None
    <3>1. Reply(g, [p EXCEPT !.uid = user[e], !.pc = "tenant"])
      BY <1>1, <2>1 DEF FindUser
    <3> QED BY <1>a, <1>b, <3>1 DEF Worker
  <2>2. CASE user[e] = None
    BY <1>1, <1>c, <2>2 DEF FindUser
  <2> QED BY <2>1, <2>2
<1>2. CASE CreateUser(g)
  <2>1. PICK u : Reply(g, [p EXCEPT !.uid = u, !.pc = "tenant"])
    BY <1>2 DEF CreateUser, Held, At
  <2> QED BY <1>a, <1>b, <2>1 DEF Worker
<1>3. CASE FindTenant(g)
  <2>1. \A t, v \in Matches(e) : t = v
    BY <1>a DEF Matches, ExactSearch, TenantInv, OneTenantPerEmail
  <2>2. \/ Reply(g, Goto(g, "createTenant"))
        \/ \E t : Reply(g, [p EXCEPT !.tid = t,
                             !.pc = IF UpdateTenants THEN "updateTenant"
                                    ELSE AfterTenant(p.op)])
    BY <1>3, <2>1 DEF FindTenant
  <2>3. ASSUME NEW t, Reply(g, [p EXCEPT !.tid = t,
                                 !.pc = IF UpdateTenants THEN "updateTenant"
                                        ELSE AfterTenant(p.op)])
        PROVE  Cancelled(g) /\ proc'[g] = [p EXCEPT !.pc = "error"]
    BY <1>a, <1>b, <1>d, <2>3 DEF Worker
  <2> QED BY <1>c, <2>2, <2>3
<1>4. CASE CreateTenant(g)
  <2>1. PICK t : Reply(g, [p EXCEPT !.tid = t, !.pc = AfterTenant(p.op)])
    BY <1>4 DEF CreateTenant
  <2> QED BY <1>a, <1>b, <1>d, <2>1 DEF Worker
<1>5. CASE UpdateTenant(g)
  <2>1. Reply(g, Goto(g, AfterTenant(p.op)))
    BY <1>5, <1>a DEF UpdateTenant, At, Held, AtTenant
  <2> QED BY <1>c, <1>d, <2>1
<1>6. CASE GetMember(g)
  BY <1>6, <1>c DEF GetMember
<1>7. CASE AddMember(g)
  <2>1. /\ tenant[p.tid] = e /\ p.uid = user[e] /\ p.uid # None
        /\ <<p.tid, p.uid>> \notin members
    BY <1>7 DEF AddMember, At, Held, AtTenant, HoldsUser
  <2>2. Reply(g, Goto(g, "app"))
    BY <1>7, <1>a, <2>1 DEF AddMember, UserLives
  <2> QED BY <1>c, <2>2
<1>8. CASE FindApp(g)
  <2>0. p.tid # None
    BY <1>8, <1>a DEF FindApp, At, LocalOK
  <2>1. \A a, b \in AppsOf(p.tid) : a = b
    BY <2>0 DEF AppsOf, AppInv
  <2>2. \/ Reply(g, Goto(g, "createApp"))
        \/ \E a : Reply(g, [p EXCEPT !.aid = a, !.pc = AfterApp(p.op)])
    BY <1>8, <2>1 DEF FindApp
  <2>3. ASSUME NEW a, Reply(g, [p EXCEPT !.aid = a, !.pc = AfterApp(p.op)])
        PROVE  Cancelled(g) /\ proc'[g] = [p EXCEPT !.pc = "error"]
    BY <1>a, <1>b, <1>d, <2>3 DEF Worker
  <2> QED BY <1>c, <2>2, <2>3
<1>9. CASE CreateApp(g)
  <2>1. PICK a : Reply(g, [p EXCEPT !.aid = a, !.pc = AfterApp(p.op)])
    BY <1>9, <1>a DEF CreateApp, At, Held, AtTenant
  <2> QED BY <1>a, <1>b, <1>d, <2>1 DEF Worker
<1>10. CASE GetIntegration(g)
  <2>1. PICK q \in {"createIntegration", "deleteIntegration", "ok"} :
          Reply(g, Goto(g, q))
    BY <1>10 DEF GetIntegration
  <2> QED BY <1>c, <2>1
<1>11. CASE DeleteIntegration(g)
  <2>1. Reply(g, Goto(g, "createIntegration"))
    BY <1>11 DEF DeleteIntegration, At, Held
  <2> QED BY <1>c, <2>1
<1>12. CASE CreateIntegration(g)
  <2>1. /\ integ[p.aid] = None /\ app[p.aid] = p.tid
        /\ <<p.tid, p.uid>> \in members
    BY <1>12 DEF CreateIntegration, At, Held, AtMember, AtApp
  <2>2. app[p.aid] # None
    BY <1>a, <2>1
  <2>3. Reply(g, Goto(g, "ok"))
    BY <1>12, <2>1, <2>2 DEF CreateIntegration
  <2> QED BY <1>c, <2>3
<1>13. CASE AssignCtx(g) \/ ReadCtx(g)
  <2>1. proc'[g].pc # "error"
    BY <1>13, <1>a DEF AssignCtx, ReadCtx, Worker
  <2> QED BY <2>1
<1>14. CASE DeleteUser(g)
  <2>1. p.uid = user[e] /\ p.uid # None
    BY <1>14 DEF DeleteUser, At, Held, AtTenant, HoldsUser
  <2>2. Reply(g, Goto(g, "deleteTenant"))
    BY <1>14, <1>a, <2>1 DEF DeleteUser, UserLives
  <2> QED BY <1>c, <2>2
<1>15. CASE DeleteTenant(g)
  <2>1. Reply(g, Goto(g, "ok"))
    BY <1>15, <1>a DEF DeleteTenant, At, Held, AtTenant
  <2> QED BY <1>c, <2>1
<1>16. ~EndDelete(g) /\ ~EndProvision(g)
  BY <1>a DEF EndDelete, EndProvision, Idle
<1>17. CASE CallError(g)
  BY <1>17, Failed DEF CallError
<1> QED BY <1>1, <1>2, <1>3, <1>4, <1>5, <1>6, <1>7, <1>8, <1>9, <1>10, <1>11,
           <1>12, <1>13, <1>14, <1>15, <1>16, <1>17 DEF Work

LEMMA FaultStep ==
  ASSUME TypeInv, ExactSearch, PhaseInv, QuietInv, HeldInv, TenantInv, AppInv,
         FaultInv, [Next]_vars
  PROVE  FaultInv'
<1> SUFFICES ASSUME ~CallsFail, NEW s \in Syncer, NEW e \in Email,
                    run'[s].quiet, At(<<s, e>>, "error")'
             PROVE  /\ proc'[<<s, e>>].op = "delete"
                    /\ proc'[<<s, e>>].ctx \in run'[s].cancelled
  BY DEF FaultInv
<1> DEFINE g == <<s, e>>
<1>a. /\ run \in [Syncer -> Run] /\ proc \in [Goroutine -> Worker]
      /\ \A f \in Email : <<s, f>> \in Goroutine
      /\ g[1] = s
  BY Domains
<1>b. ASSUME run[s].quiet, proc'[g] = proc[g],
             run[s].cancelled \subseteq run'[s].cancelled
      PROVE  /\ proc'[g].op = "delete" /\ proc'[g].ctx \in run'[s].cancelled
  BY <1>b DEF FaultInv, At
<1>1. ASSUME run[s].quiet, NEW f \in Email, Work(<<s, f>>)
      PROVE  /\ proc'[g].op = "delete" /\ proc'[g].ctx \in run'[s].cancelled
  <2>1. run[s].cancelled \subseteq run'[s].cancelled
    BY <1>a, <1>1, WorkRuns
  <2>2. CASE e = f
    <3>1. proc[g].op \in {"provision", "delete"} /\ Held(g)
      BY <1>a, <1>1, <2>2, WorkOthers DEF PhaseInv, HeldInv
    <3>2. Cancelled(g) /\ proc'[g] = [proc[g] EXCEPT !.pc = "error"]
      BY <1>a, <1>1, <2>2, <3>1, WorkFails DEF At
    <3> QED BY <1>a, <2>1, <3>2 DEF Cancelled, Worker
  <2>3. CASE e # f
    BY <1>a, <1>b, <1>1, <2>1, <2>3, WorkOthers
  <2> QED BY <2>2, <2>3
<1>2. ASSUME run[s].quiet, SyncStep(s)
      PROVE  /\ proc'[g].op = "delete" /\ proc'[g].ctx \in run'[s].cancelled
  <2>1. CASE ListAccounts(s)
    <3>1. run'[s].cancelled = run[s].cancelled
      BY <1>a, <2>1 DEF ListAccounts, Run
    <3>2. proc'[g] = proc[g] \/ \E r : proc'[g] = Started("provision", "user", r, None)
      BY <1>a, <2>1 DEF ListAccounts
    <3>3. \A r : Started("provision", "user", r, None).pc = "user"
      BY DEF Started, Idle
    <3> QED BY <1>b, <1>2, <3>1, <3>2, <3>3 DEF At
  <2>2. CASE WaitProvisioned(s)
    BY <1>a, <1>b, <1>2, <2>2 DEF WaitProvisioned, Run
  <2>3. CASE SnapshotAccounts(s)
    <3>1. PICK A \in Pages :
            run' = [run EXCEPT ![s].pc = "listChirp",
                               ![s].seen = {kc[a] : a \in A} \cap Email]
      BY <2>3 DEF SnapshotAccounts
    <3>2. run'[s].cancelled = run[s].cancelled
      BY <1>a, <3>1 DEF Run
    <3> QED BY <1>b, <1>2, <2>3, <3>2 DEF SnapshotAccounts
  <2>4. CASE ListChirpUsers(s)
    <3>1. run'[s].cancelled = run[s].cancelled
      <4>1. run' = [run EXCEPT ![s].pc = "deleting"]
        BY <2>4 DEF ListChirpUsers
      <4> QED BY <1>a, <4>1 DEF Run
    <3>2. proc'[g] = proc[g] \/ proc'[g] = Started("delete", "assign", None, None)
      <4>1. proc' = [h \in Goroutine |->
                       IF /\ h[1] = s
                          /\ user[h[2]] # None
                          /\ h[2] \notin Protected \cup run[s].seen
                       THEN Started("delete", "assign", None, None)
                       ELSE proc[h]]
        BY <2>4 DEF ListChirpUsers
      <4> QED BY <1>a, <4>1
    <3>3. Started("delete", "assign", None, None).pc = "assign"
      BY DEF Started, Idle
    <3> QED BY <1>b, <1>2, <3>1, <3>2, <3>3 DEF At
  <2>5. CASE WaitDeleted(s)
    BY <2>5 DEF WaitDeleted, Free, At
  <2> QED BY <1>2, <2>1, <2>2, <2>3, <2>4, <2>5 DEF SyncStep
<1>3. ~StartSync(s)
  <2>1. ASSUME StartSync(s) PROVE At(g, "idle")'
    BY <2>1, PhaseFree DEF StartSync, At
  <2> QED BY <2>1 DEF At
<1>4. ~Restart
  BY <1>a DEF Restart, Idle, At
<1>5. CASE run[s].quiet /\ UNCHANGED <<kc, chirp, proc, run, endpoint>>
  BY <1>5, <1>b
<1> QED BY <1>1, <1>2, <1>3, <1>4, <1>5, QuietNext

\* Only a failed goroutine, an account without email or a failed call sets the
\* error of a run.
QuietFault ==
  \A s \in Syncer :
    /\ run[s].quiet /\ ~CallsFail
    /\ ~run[s].err /\ run'[s].err
    => \/ \E r \in Sub : kc[r] = NoEmail
       \/ \E e \in Email : /\ proc[<<s, e>>].op = "delete"
                          /\ proc[<<s, e>>].ctx \in run[s].cancelled

LEMMA QuietFaultHolds ==
  ASSUME TypeInv, FaultInv, [Next]_vars
  PROVE  QuietFault
<1> SUFFICES ASSUME NEW s \in Syncer, run[s].quiet, ~CallsFail,
                    ~run[s].err, run'[s].err
             PROVE  \/ \E r \in Sub : kc[r] = NoEmail
                    \/ \E e \in Email : /\ proc[<<s, e>>].op = "delete"
                                       /\ proc[<<s, e>>].ctx \in run[s].cancelled
  BY DEF QuietFault
<1>a. run \in [Syncer -> Run]
  BY Domains
<1>1. ASSUME NEW g \in Goroutine, Work(g)
      PROVE  \E e \in Email : /\ proc[<<s, e>>].op = "delete"
                              /\ proc[<<s, e>>].ctx \in run[s].cancelled
  <2>1. g[1] = s /\ At(g, "error") /\ g[2] \in Email /\ g = <<g[1], g[2]>>
    BY <1>1, WorkRuns, Domains
  <2> QED BY <2>1 DEF FaultInv
<1>2. ASSUME NEW r \in Syncer, SyncStep(r)
      PROVE  \E a \in Sub : kc[a] = NoEmail
  <2>1. r = s
    BY <1>2, SyncOthers
  <2>2. ListAccounts(s)
    BY <1>2, <1>a, <2>1 DEF SyncStep, WaitProvisioned, SnapshotAccounts,
       ListChirpUsers, WaitDeleted, Finish, Run
  <2>3. PICK A \in Pages :
          run' = [run EXCEPT ![s].pc = "provisioning",
                             ![s].err = @ \/ \E a \in A : kc[a] = NoEmail]
    BY <2>2 DEF ListAccounts
  <2>4. \E a \in A : kc[a] = NoEmail
    BY <1>a, <2>3 DEF Run
  <2> QED BY <2>4 DEF Pages
<1>3. run' # Disturb(run)
  BY <1>a DEF Disturb, Run
<1>4. ASSUME NEW r \in Syncer, StartSync(r)
      PROVE  FALSE
  <2>1. CASE r = s
    <3>1. run'[s] = [NoRun EXCEPT !.pc = "list", !.quiet = Alone(s)]
      BY <1>4, <1>a, <2>1 DEF StartSync, Disturb
    <3>2. ~run'[s].err
      BY <3>1 DEF NoRun
    <3> QED BY <3>2
  <2>2. CASE r # s
    BY <1>4, <1>a, <2>2 DEF StartSync, Disturb, Run
  <2> QED BY <2>1, <2>2
<1>5. ~Restart
  <2>1. ~BootRuns[s].err
    BY DEF BootRuns, NoRun
  <2> QED BY <2>1 DEF Restart
<1>6. ~UNCHANGED run
  OBVIOUS
<1> QED BY <1>1, <1>2, <1>3, <1>4, <1>5, <1>6
        DEF Next, SetAccount, Register, ResolveDevice, ResolveGateway,
            CacheExpires, vars

\* As long as no two callers work on an email at the same time, whatever a
\* restart interrupted can be repaired: where all calls are answered, a sync that
\* nothing disturbs fails only for an account without email or through the
\* context variables that its deletes share.
THEOREM QuietSyncCorrect ==
  ASSUME ExactSearch
  PROVE  Spec /\ []OneWorker => QuietSyncSucceeds
<1> DEFINE Inv == /\ TypeInv /\ UserInv /\ HeldTenantIsOwn /\ PhaseInv /\ QuietInv
                  /\ HeldInv /\ TenantInv /\ AppInv /\ FaultInv
<1>1. Init => Inv
  <2> SUFFICES ASSUME Init PROVE Inv
    OBVIOUS
  <2>1. TypeInv /\ PhaseInv /\ QuietInv
    BY InitType, InitPhase
  <2>2. \A g \in Goroutine : proc[g] = Idle /\ proc[g].pc = "idle"
    BY DEF Init, Idle
  <2>3. UserInv /\ HeldTenantIsOwn
    BY DEF Init, Idle, UserInv, UsersUnique, HeldUserIsOwn, HeldTenantIsOwn
  <2>4. HeldInv
    BY <2>1, <2>2, Domains DEF HeldInv, Held, HoldsUser, AtTenant, AtMember, AtApp
  <2>5. TenantInv /\ AppInv
    BY <2>2 DEF Init, TenantInv, OneTenantPerEmail, AppInv, At
  <2>6. FaultInv
    BY <2>1, <2>2, Domains DEF FaultInv, At
  <2> QED BY <2>1, <2>3, <2>4, <2>5, <2>6
<1>2. Inv /\ OneWorker /\ [Next]_vars => Inv'
  BY NextType, UserInvStep, HeldTenantStep, PhaseStep, QuietStep, HeldStep,
     TenantStep, AppStep, FaultStep
<1>3. Inv /\ [Next]_vars => [QuietFault]_vars
  BY QuietFaultHolds
<1> QED BY <1>1, <1>2, <1>3, PTL DEF Spec, QuietSyncSucceeds, QuietFault

\* In particular, no restart in the middle of the startup sync or of a
\* registration leaves something that the next startup cannot repair (New,
\* ProvisionAllUsers, DeleteOutdatedUsers).
THEOREM QuietSyncOneCaller ==
  ASSUME ExactSearch, OneCaller
  PROVE  Spec => QuietSyncSucceeds
BY CallerCorrect, QuietSyncCorrect, PTL
-----------------------------------------------------------------------------
(* The account in the integration's header.                                *)

\* No email moves: whenever an account has an email, it is the email's owner.
Owned(owner) == \A s \in Sub : kc[s] \in Email => owner[kc[s]] = s

\* Who provisions an email does it for its owner, apps and integrations go with
\* their tenant, a goroutine's app is in a tenant of its email, and so every
\* integration carries the owner of its tenant, at any time.
HeaderInv(owner) ==
  /\ \A g \in Goroutine : proc[g].op = "provision" => proc[g].sub = owner[g[2]]
  /\ \A a \in AppId : app[a] # None => tenant[app[a]] # None
  /\ \A a \in AppId : integ[a] # None => app[a] # None
  /\ \A g \in Goroutine, a \in AppId :
       proc[g].aid = a /\ app[a] # None => tenant[app[a]] = g[2]
  /\ \A a \in AppId : integ[a] # None => integ[a].sub = owner[tenant[app[a]]]

\* A goroutine keeps its account; its app is one it has found or made.
AppFound(g) ==
  FindApp(g) /\ \E a \in AppsOf(proc[g].tid) : proc'[g].aid = a
AppMade(g) ==
  \E a \in AppId : /\ FreshApp(a) /\ proc'[g].aid \in {a, proc[g].aid}
                   /\ app' = [app EXCEPT ![a] = proc[g].tid]

LEMMA WorkRecord ==
  ASSUME TypeInv, NEW g \in Goroutine, Work(g)
  PROVE  /\ proc'[g].op = "provision" =>
              proc[g].op = "provision" /\ proc'[g].sub = proc[g].sub
         /\ \/ proc'[g].aid \in {None, proc[g].aid}
            \/ AppFound(g)
            \/ CreateApp(g) /\ AppMade(g)
<1> DEFINE p == proc'[g]
           Kept == p.op = proc[g].op /\ p.sub = proc[g].sub
<1>a. /\ proc[g] \in Worker /\ proc \in [Goroutine -> Worker]
  BY Domains
<1>b. ASSUME NEW l, Reply(g, l), l.op = proc[g].op, l.sub = proc[g].sub
      PROVE  Kept /\ p.aid \in {l.aid, proc[g].aid}
  BY <1>a, <1>b, Replied DEF Worker
<1>c. ASSUME proc' = [proc EXCEPT ![g].pc = "error"]
      PROVE  Kept /\ p.aid = proc[g].aid
  BY <1>a, <1>c, Failed DEF Worker
<1>d. ASSUME NEW q, Reply(g, Goto(g, q))
      PROVE  Kept /\ p.aid = proc[g].aid
  <2>1. /\ Goto(g, q).op = proc[g].op /\ Goto(g, q).sub = proc[g].sub
        /\ Goto(g, q).aid = proc[g].aid
    BY <1>a DEF Goto, Worker
  <2> QED BY <1>b, <1>d, <2>1
<1>e. ASSUME NEW u, NEW q, Reply(g, [proc[g] EXCEPT !.uid = u, !.pc = q])
      PROVE  Kept /\ p.aid = proc[g].aid
  <2> DEFINE l == [proc[g] EXCEPT !.uid = u, !.pc = q]
  <2>1. l.op = proc[g].op /\ l.sub = proc[g].sub /\ l.aid = proc[g].aid
    BY <1>a DEF Worker
  <2>2. Reply(g, l)
    BY <1>e
  <2> HIDE DEF l
  <2> QED BY <1>b, <2>1, <2>2
<1>f. ASSUME NEW t, NEW q, Reply(g, [proc[g] EXCEPT !.tid = t, !.pc = q])
      PROVE  Kept /\ p.aid = proc[g].aid
  <2> DEFINE l == [proc[g] EXCEPT !.tid = t, !.pc = q]
  <2>1. l.op = proc[g].op /\ l.sub = proc[g].sub /\ l.aid = proc[g].aid
    BY <1>a DEF Worker
  <2>2. Reply(g, l)
    BY <1>f
  <2> HIDE DEF l
  <2> QED BY <1>b, <2>1, <2>2
<1>g. ASSUME NEW a, NEW q, Reply(g, [proc[g] EXCEPT !.aid = a, !.pc = q])
      PROVE  Kept /\ p.aid \in {a, proc[g].aid}
  BY <1>a, <1>b, <1>g DEF Worker
<1>1. CASE FindUser(g) \/ CreateUser(g)
  BY <1>1, <1>c, <1>d, <1>e DEF FindUser, CreateUser
<1>2. CASE FindTenant(g) \/ CreateTenant(g) \/ UpdateTenant(g)
  BY <1>2, <1>c, <1>d, <1>f DEF FindTenant, CreateTenant, UpdateTenant
<1>3. CASE GetMember(g) \/ AddMember(g)
  BY <1>3, <1>c, <1>d DEF GetMember, AddMember
<1>4. CASE FindApp(g)
  <2>1. ASSUME NEW a \in AppsOf(proc[g].tid),
               Reply(g, [proc[g] EXCEPT !.aid = a, !.pc = AfterApp(proc[g].op)])
        PROVE  Kept /\ (p.aid = proc[g].aid \/ AppFound(g))
    BY <1>4, <1>g, <2>1 DEF AppFound
  <2> QED BY <1>4, <1>c, <1>d, <2>1 DEF FindApp
<1>5. CASE CreateApp(g)
  <2>1. ASSUME NEW a \in AppId, FreshApp(a), app' = [app EXCEPT ![a] = proc[g].tid],
               Reply(g, [proc[g] EXCEPT !.aid = a, !.pc = AfterApp(proc[g].op)])
        PROVE  Kept /\ AppMade(g)
    BY <1>g, <2>1 DEF AppMade
  <2> QED BY <1>5, <1>c, <2>1 DEF CreateApp
<1>6. CASE GetIntegration(g) \/ DeleteIntegration(g) \/ CreateIntegration(g)
  BY <1>6, <1>c, <1>d DEF GetIntegration, DeleteIntegration, CreateIntegration
<1>7. CASE AssignCtx(g) \/ ReadCtx(g)
  BY <1>7, <1>a DEF AssignCtx, ReadCtx, Worker
<1>8. CASE DeleteUser(g) \/ DeleteTenant(g)
  BY <1>8, <1>c, <1>d DEF DeleteUser, DeleteTenant
<1>9. CASE EndDelete(g) \/ EndProvision(g)
  BY <1>9, <1>a DEF EndDelete, EndProvision, Idle
<1>10. CASE CallError(g)
  BY <1>10, <1>c DEF CallError
<1> QED BY <1>1, <1>2, <1>3, <1>4, <1>5, <1>6, <1>7, <1>8, <1>9, <1>10 DEF Work

\* Other steps start goroutines for the accounts that have the email.
LEMMA StartsForOwner ==
  ASSUME TypeInv, NEW owner, Owned(owner), [Next]_vars, ~\E g \in Goroutine : Work(g)
  PROVE  \A g \in Goroutine :
           \/ proc'[g] = proc[g]
           \/ /\ proc'[g].aid = None
              /\ proc'[g].op = "provision" => proc'[g].sub = owner[g[2]]
<1>a. /\ proc \in [Goroutine -> Worker]
      /\ \A g \in Goroutine : g[2] \in Email
      /\ \A o, q, r, u : LET p == Started(o, q, r, u) IN
           p.op = o /\ p.sub = r /\ p.aid = None
  BY Domains DEF Started, Idle
<1>b. \A s \in Sub : kc[s] \in Email => owner[kc[s]] = s
  BY DEF Owned
<1>c. ASSUME NEW h \in Goroutine, NEW o, NEW s, NEW u,
             o = "provision" => s = owner[h[2]],
             proc' = [proc EXCEPT ![h] = Started(o, "tenant", s, u)]
      PROVE  \A g \in Goroutine :
               \/ proc'[g] = proc[g]
               \/ /\ proc'[g].aid = None
                  /\ proc'[g].op = "provision" => proc'[g].sub = owner[g[2]]
  BY <1>a, <1>c
<1>1. ASSUME NEW s \in Syncer, ListAccounts(s), ~UNCHANGED proc,
             NEW g \in Goroutine, proc'[g] # proc[g]
      PROVE  proc'[g].aid = None /\ proc'[g].sub = owner[g[2]]
  <2>1. PICK A \in Pages :
          /\ \E a \in A : kc[a] = g[2]
          /\ proc'[g] = Started("provision", "user", CHOOSE a \in A : kc[a] = g[2], None)
    BY <1>1 DEF ListAccounts
  <2>2. PICK a \in A : a = (CHOOSE b \in A : kc[b] = g[2]) /\ kc[a] = g[2]
    BY <2>1
  <2>3. a \in Sub /\ owner[g[2]] = a
    BY <1>a, <1>b, <2>2 DEF Pages
  <2> QED BY <1>a, <2>1, <2>2, <2>3
<1>2. ASSUME NEW s \in Syncer, ListChirpUsers(s), ~UNCHANGED proc,
             NEW g \in Goroutine, proc'[g] # proc[g]
      PROVE  proc'[g].aid = None /\ proc'[g].op = "delete"
  <2>1. proc'[g] = Started("delete", "assign", None, None)
    BY <1>2 DEF ListChirpUsers
  <2> QED BY <1>a, <2>1
<1>3. ASSUME NEW s \in Sub, NEW u \in UserId, Register(s, u), ~UNCHANGED proc
      PROVE  \E h \in Goroutine :
               /\ s = owner[h[2]]
               /\ proc' = [proc EXCEPT ![h] = Started("provision", "tenant", s, u)]
  <2>1. PICK q \in Post :
          /\ kc[s] \in Email
          /\ proc' = [proc EXCEPT ![<<q, kc[s]>>] = Started("provision", "tenant", s, u)]
    BY <1>3 DEF Register
  <2>2. <<q, kc[s]>> \in Goroutine /\ owner[kc[s]] = s
    BY <1>b, <2>1, Domains DEF Caller
  <2> QED BY <2>1, <2>2
<1>4. ASSUME NEW s \in Sub, NEW d \in Device, ResolveDevice(d, s)
      PROVE  \E h \in Goroutine :
               proc' = [proc EXCEPT ![h] = Started("device", "tenant", s, None)]
  BY <1>4, Domains DEF ResolveDevice, Caller
<1>5. ASSUME NEW s \in Sub, NEW w \in Gateway, ResolveGateway(w, s)
      PROVE  \E h \in Goroutine :
               proc' = [proc EXCEPT ![h] = Started("gateway", "tenant", s, None)]
  BY <1>5, Domains DEF ResolveGateway, Caller
<1>6. CASE Restart
  BY <1>6 DEF Restart, Idle
<1>7. CASE UNCHANGED proc
  BY <1>7
<1>8. ASSUME NEW s \in Syncer, StartSync(s) \/ SyncStep(s), ~UNCHANGED proc
      PROVE  ListAccounts(s) \/ ListChirpUsers(s)
  BY <1>8 DEF StartSync, SyncStep, WaitProvisioned, SnapshotAccounts, WaitDeleted
<1>9. ASSUME \/ \E s \in Sub, x \in Email \cup {Deleted, NoEmail} : SetAccount(s, x)
             \/ \E s \in Sub : CacheExpires(s)
             \/ UNCHANGED vars
      PROVE  UNCHANGED proc
  BY <1>9 DEF SetAccount, CacheExpires, vars
<1>10. CASE \E s \in Sub, u \in UserId : Register(s, u)
  BY <1>10, <1>3, <1>7, <1>c
<1>11. CASE \/ \E s \in Sub, d \in Device : ResolveDevice(d, s)
            \/ \E s \in Sub, w \in Gateway : ResolveGateway(w, s)
  BY <1>11, <1>4, <1>5, <1>c
<1>12. CASE \E s \in Syncer : StartSync(s) \/ SyncStep(s)
  BY <1>12, <1>1, <1>2, <1>7, <1>8
<1> QED BY <1>6, <1>7, <1>9, <1>10, <1>11, <1>12 DEF Next

LEMMA HeaderStep ==
  ASSUME TypeInv, ExactSearch, HeldTenantIsOwn, NEW owner, Owned(owner),
         HeaderInv(owner), [Next]_vars
  PROVE  HeaderInv(owner)'
<1>a. /\ tenant \in [TenantId -> Email \cup {None}]
      /\ app \in [AppId -> TenantId \cup {None}]
      /\ integ \in [AppId -> Integration \cup {None}]
      /\ proc \in [Goroutine -> Worker]
      /\ None \notin Email \cup TenantId \cup AppId
      /\ \A g \in Goroutine : g[2] \in Email
  BY IdAssumption, Domains DEF TypeInv, TypeOK
<1>b. /\ \A g \in Goroutine : proc[g].op = "provision" => proc[g].sub = owner[g[2]]
      /\ \A a \in AppId : app[a] # None => tenant[app[a]] # None
      /\ \A a \in AppId : integ[a] # None => app[a] # None
      /\ \A g \in Goroutine, a \in AppId :
           proc[g].aid = a /\ app[a] # None => tenant[app[a]] = g[2]
      /\ \A a \in AppId : integ[a] # None => integ[a].sub = owner[tenant[app[a]]]
  BY DEF HeaderInv
<1>1. CASE ~\E g \in Goroutine : Work(g)
  <2>1. UNCHANGED <<tenant, app, integ>>
    BY <1>1, OtherKeeps
  <2>2. \A g \in Goroutine : \/ proc'[g] = proc[g]
                             \/ /\ proc'[g].aid = None
                                /\ proc'[g].op = "provision" => proc'[g].sub = owner[g[2]]
    BY <1>1, StartsForOwner
  <2>3. \A g \in Goroutine : proc'[g].op = "provision" => proc'[g].sub = owner[g[2]]
    BY <1>b, <2>2
  <2>4. \A g \in Goroutine, a \in AppId :
          proc'[g].aid = a /\ app[a] # None => tenant[app[a]] = g[2]
    BY <1>a, <1>b, <2>2
  <2> QED BY <1>b, <2>1, <2>3, <2>4 DEF HeaderInv
<1>2. ASSUME NEW g \in Goroutine, Work(g)
      PROVE  HeaderInv(owner)'
  <2>a. /\ \A h \in Goroutine \ {g} : proc'[h] = proc[h]
        /\ LocalOK(g, proc[g]) /\ proc[g] \in Worker
    BY <1>2, WorkOthers DEF TypeInv, TypeOK, LocalsOK
  <2>1. \A h \in Goroutine : proc'[h].op = "provision" => proc'[h].sub = owner[h[2]]
    BY <1>2, <1>b, <2>a, WorkRecord
  \* Only the steps that make an app or change a tenant or integration matter.
  <2>2. CASE UNCHANGED <<tenant, app, integ>>
    <3>1. CASE AppFound(g)
      <4>1. PICK b \in AppsOf(proc[g].tid) : proc'[g].aid = b
        BY <3>1 DEF AppFound
      <4>2. app[b] = proc[g].tid /\ proc[g].tid # None
        BY <2>a, <3>1, <4>1 DEF AppFound, FindApp, AppsOf, At, LocalOK
      <4>3. tenant[app[b]] = g[2]
        BY <1>b, <4>1, <4>2 DEF AppsOf, HeldTenantIsOwn
      <4>4. \A h \in Goroutine, a \in AppId :
              proc'[h].aid = a /\ app[a] # None => tenant[app[a]] = h[2]
        BY <1>b, <2>a, <4>1, <4>3
      <4> QED BY <1>b, <2>1, <2>2, <4>4 DEF HeaderInv
    <3>2. CASE CreateApp(g) /\ AppMade(g)
      <4>1. PICK b \in AppId : /\ FreshApp(b) /\ proc'[g].aid \in {b, proc[g].aid}
                               /\ app' = [app EXCEPT ![b] = proc[g].tid]
        BY <3>2 DEF AppMade
      <4>2. app[b] = None
        BY <4>1 DEF FreshApp, UnusedApp
      <4>3. \A h \in Goroutine, a \in AppId :
              proc'[h].aid = a /\ app[a] # None => tenant[app[a]] = h[2]
        BY <1>b, <2>a, <4>1, <4>2
      <4> QED BY <1>b, <2>1, <2>2, <4>3 DEF HeaderInv
    <3>3. CASE proc'[g].aid \in {None, proc[g].aid}
      <4>1. \A h \in Goroutine, a \in AppId :
              proc'[h].aid = a /\ app[a] # None => tenant[app[a]] = h[2]
        BY <1>a, <1>b, <2>a, <3>3
      <4> QED BY <1>b, <2>1, <2>2, <4>1 DEF HeaderInv
    <3> QED BY <1>2, <3>1, <3>2, <3>3, WorkRecord
  <2>b. ASSUME ~AppFound(g), ~CreateApp(g)
        PROVE  \A h \in Goroutine, a \in AppId :
                 proc'[h].aid = a /\ app[a] # None => tenant[app[a]] = h[2]
    BY <1>2, <1>a, <1>b, <2>a, <2>b, WorkRecord
  <2>3. CASE CreateTenant(g)
    <3>1. PICK t \in TenantId : /\ tenant[t] = None
                                /\ tenant' = [tenant EXCEPT ![t] = g[2]]
      BY <2>3 DEF CreateTenant, FreshTenant, UnusedTenant
    <3>2. UNCHANGED <<app, integ>>
      BY <2>3 DEF CreateTenant
    <3>3. \A a \in AppId : app[a] # None => tenant'[app[a]] = tenant[app[a]]
      BY <1>a, <1>b, <3>1
    <3>4. \A h \in Goroutine, a \in AppId :
            proc'[h].aid = a /\ app[a] # None => tenant[app[a]] = h[2]
      BY <2>3, <2>b DEF CreateTenant, AppFound, FindApp, CreateApp, At
    <3> QED BY <1>b, <2>1, <3>2, <3>3, <3>4 DEF HeaderInv
  <2>4. CASE UpdateTenant(g)
    <3>1. tenant' = tenant
      <4>1. proc[g].tid \in TenantId
        BY <2>4, <2>a, IdAssumption DEF UpdateTenant, At, LocalOK, Worker
      <4>2. CASE tenant[proc[g].tid] # None
        <5>1. tenant[proc[g].tid] = g[2]
          BY <1>a, <4>1, <4>2 DEF HeldTenantIsOwn
        <5> QED BY <1>a, <2>4, <4>1, <4>2, <5>1 DEF UpdateTenant
      <4> QED BY <2>4, <4>2 DEF UpdateTenant
    <3> QED BY <2>2, <2>4, <3>1 DEF UpdateTenant
  <2>5. CASE CreateApp(g)
    <3>1. CASE UNCHANGED app
      BY <2>2, <2>5, <3>1 DEF CreateApp
    <3>2. CASE ~UNCHANGED app
      <4>1. tenant[proc[g].tid] # None
        BY <2>5, <3>2 DEF CreateApp
      <4>2. proc[g].tid \in TenantId /\ tenant[proc[g].tid] = g[2]
        BY <1>a, <2>5, <2>a, <4>1 DEF CreateApp, At, LocalOK, Worker, HeldTenantIsOwn
      <4>3. PICK b \in AppId : /\ FreshApp(b) /\ proc'[g].aid \in {b, proc[g].aid}
                               /\ app' = [app EXCEPT ![b] = proc[g].tid]
        <5>1. PICK b \in AppId :
                /\ FreshApp(b) /\ app' = [app EXCEPT ![b] = proc[g].tid]
                /\ Reply(g, [proc[g] EXCEPT !.aid = b, !.pc = AfterApp(proc[g].op)])
          BY <2>5, <4>1 DEF CreateApp
        <5>2. proc'[g].aid \in {b, proc[g].aid}
          BY <2>a, <5>1, Replied DEF Worker
        <5> QED BY <5>1, <5>2
      <4>4. app[b] = None /\ \A h \in Goroutine : proc[h].aid # b
        BY <4>3 DEF FreshApp, UnusedApp
      <4>5. UNCHANGED <<tenant, integ>>
        BY <2>5 DEF CreateApp
      <4>6. app'[b] = proc[g].tid /\ \A a \in AppId \ {b} : app'[a] = app[a]
        BY <1>a, <4>3
      <4>7. \A h \in Goroutine, a \in AppId :
              proc'[h].aid = a /\ app'[a] # None => tenant[app'[a]] = h[2]
        BY <1>b, <2>a, <4>2, <4>3, <4>4, <4>6
      <4>8. \A a \in AppId : app'[a] # None => tenant[app'[a]] # None
        BY <1>b, <4>1, <4>6
      <4>9. \A a \in AppId : integ[a] # None =>
              app'[a] # None /\ integ[a].sub = owner[tenant[app'[a]]]
        BY <1>b, <4>4, <4>6
      <4> QED BY <2>1, <4>5, <4>7, <4>8, <4>9 DEF HeaderInv
    <3> QED BY <3>1, <3>2
  <2>6. CASE DeleteIntegration(g)
    <3>1. UNCHANGED <<tenant, app>> /\ \A a \in AppId : integ'[a] \in {None, integ[a]}
      BY <1>a, <2>6 DEF DeleteIntegration
    <3>2. \A h \in Goroutine, a \in AppId :
            proc'[h].aid = a /\ app[a] # None => tenant[app[a]] = h[2]
      BY <2>6, <2>b DEF DeleteIntegration, AppFound, FindApp, CreateApp, At
    <3> QED BY <1>b, <2>1, <3>1, <3>2 DEF HeaderInv
  <2>7. CASE CreateIntegration(g)
    <3>1. CASE UNCHANGED integ
      BY <2>2, <2>7, <3>1 DEF CreateIntegration
    <3>2. CASE ~UNCHANGED integ
      <4>1. /\ app[proc[g].aid] # None
            /\ integ' = [integ EXCEPT ![proc[g].aid] =
                           [sub |-> proc[g].sub, endpoint |-> endpoint]]
        BY <2>7, <3>2 DEF CreateIntegration
      <4>2. proc[g].aid \in AppId
        BY <1>a, <2>a, <3>2, <4>1 DEF Worker
      <4>3. tenant[app[proc[g].aid]] = g[2]
        BY <1>b, <4>1, <4>2
      <4>4. proc[g].sub = owner[g[2]]
        BY <1>b, <2>7, <2>a DEF CreateIntegration, At, LocalOK
      <4>5. UNCHANGED <<tenant, app>>
        BY <2>7 DEF CreateIntegration
      <4>6. /\ integ'[proc[g].aid].sub = proc[g].sub
            /\ \A a \in AppId \ {proc[g].aid} : integ'[a] = integ[a]
        BY <1>a, <4>1, <4>2
      <4>7. \A a \in AppId : integ'[a] # None =>
              app[a] # None /\ integ'[a].sub = owner[tenant[app[a]]]
        BY <1>b, <4>1, <4>3, <4>4, <4>6
      <4>8. \A h \in Goroutine, a \in AppId :
              proc'[h].aid = a /\ app[a] # None => tenant[app[a]] = h[2]
        BY <2>7, <2>b DEF CreateIntegration, AppFound, FindApp, CreateApp, At
      <4> QED BY <1>b, <2>1, <4>5, <4>7, <4>8 DEF HeaderInv
    <3> QED BY <3>1, <3>2
  <2>8. CASE DeleteTenant(g)
    <3>1. CASE UNCHANGED <<tenant, app, integ>>
      BY <2>2, <3>1
    <3>2. CASE ~UNCHANGED <<tenant, app, integ>>
      <4> DEFINE t == proc[g].tid
      <4>1. /\ tenant' = [tenant EXCEPT ![t] = None]
            /\ app' = [a \in AppId |-> IF app[a] = t THEN None ELSE app[a]]
            /\ integ' = [a \in AppId |-> IF app[a] = t THEN None ELSE integ[a]]
        BY <2>8, <3>2 DEF DeleteTenant
      <4>2. \A a \in AppId : app'[a] # None =>
              /\ app'[a] = app[a] /\ tenant'[app[a]] = tenant[app[a]]
              /\ integ'[a] = integ[a]
        BY <1>a, <4>1
      <4>3. \A a \in AppId : integ'[a] # None =>
              integ'[a] = integ[a] /\ app'[a] = app[a]
        BY <1>a, <4>1
      <4>4. \A h \in Goroutine, a \in AppId :
              proc'[h].aid = a /\ app[a] # None => tenant[app[a]] = h[2]
        BY <2>8, <2>b DEF DeleteTenant, AppFound, FindApp, CreateApp, At
      <4> QED BY <1>b, <2>1, <4>2, <4>3, <4>4 DEF HeaderInv
    <3> QED BY <3>1, <3>2
  <2> QED BY <1>2, <2>2, <2>3, <2>4, <2>5, <2>6, <2>7, <2>8
          DEF Work, FindUser, CreateUser, FindTenant, GetMember, AddMember, FindApp,
              GetIntegration, AssignCtx, ReadCtx, DeleteUser, EndDelete,
              EndProvision, CallError, chirp
<1> QED
  BY <1>1, <1>2

\* As long as no email moves from one account to another, the integration of an
\* account's tenant carries the id of that account, whoever provisions, fails and
\* restarts, although ProvisionUser does not compare the header of an integration
\* that it finds.
THEOREM HeaderCorrect ==
  ASSUME ExactSearch, NEW owner
  PROVE  Spec /\ []Owned(owner) => []HeaderIsOwner
<1> DEFINE Inv == TypeInv /\ HeldTenantIsOwn /\ HeaderInv(owner)
<1>1. Init => Inv
  <2> SUFFICES ASSUME Init PROVE Inv
    OBVIOUS
  <2>1. TypeInv
    BY InitType
  <2>2. \A g \in Goroutine : proc[g] = Idle
    BY DEF Init
  <2>3. HeldTenantIsOwn
    BY <2>2 DEF HeldTenantIsOwn, Idle
  <2>4. HeaderInv(owner)
    BY <2>2, IdAssumption DEF Init, HeaderInv, Idle
  <2> QED BY <2>1, <2>3, <2>4
<1>2. Inv /\ Owned(owner) /\ [Next]_vars => Inv'
  BY NextType, HeldTenantStep, HeaderStep
<1>3. Inv /\ Owned(owner) => HeaderIsOwner
  BY DEF HeaderInv, Owned, HeaderIsOwner
<1> QED BY <1>1, <1>2, <1>3, PTL DEF Spec
================================================================================
