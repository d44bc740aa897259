------------------------------ MODULE Provision ------------------------------
(***************************************************************************)
(* The provisioning of ChirpStack users, tenants, applications and HTTP    *)
(* integrations from Keycloak accounts (controller/provision.go), with     *)
(* every caller that runs it at the same time: the startup sync, PATCH     *)
(* /sync/users, POST /provision, and the device and gateway syncs, which   *)
(* look up or create the owner's tenant on their way.                      *)
(*                                                                         *)
(* One goroutine works on one email.  Every remote call is one step: the   *)
(* effect in ChirpStack and the reply are atomic, and between two calls    *)
(* anything may happen.  A call may fail without an effect or lose its     *)
(* reply (CallsFail, or a cancelled context).                              *)
(***************************************************************************)
EXTENDS Naturals, FiniteSets

CONSTANTS
  Sub,            \* Keycloak account ids
  Email,          \* email addresses; also the names of users and tenants
  Protected,      \* config.ChirpstackProtectedUsers
  Old,            \* emails that ChirpStack may have users for from the start
  Found,          \* Found[e]: tenant names that a List with Search e matches
  UserId, TenantId, AppId,   \* ids ChirpStack hands out
  Endpoint,       \* event endpoints the integration may be configured with
  Boot,           \* the sync run of New()
  Patch,          \* PATCH /sync/users requests
  Post,           \* POST /provision requests
  Device,         \* device sync workers (prepareChirpDevice)
  Gateway,        \* gateway sync workers (SyncGateway)
  KcMax,          \* accounts that one unpaged Keycloak GetUsers returns
  CallsFail,      \* remote calls may fail or lose their reply
  UpdateTenants,  \* config.UpdateTenants
  MaxChanges,     \* bound on account changes in Keycloak
  MaxCrashes,     \* bound on restarts of the connector
  Absent, Deleted, NoEmail,  \* accounts not yet made, deleted, without email
  None

Syncer == {Boot} \cup Patch
Caller == Post \cup Device \cup Gateway
Goroutine == (Syncer \cup Caller) \X Email

\* A tenant search that matches the searched name only.
ExactSearch == \A e \in Email : Found[e] = {e}

ASSUME IdAssumption ==
  /\ Protected \subseteq Email /\ Old \subseteq Email
  /\ Found \in [Email -> SUBSET Email]
  /\ \A e \in Email : e \in Found[e]
  /\ None \notin Email \cup Sub \cup UserId \cup TenantId \cup AppId
  /\ {Absent, Deleted, NoEmail} \cap Email = {}
ASSUME NoneAssumption == None \notin [sub : Sub, endpoint : Endpoint]
ASSUME ActorAssumption ==
  /\ Syncer \cap Caller = {}
  /\ Post \cap (Device \cup Gateway) = {}
ASSUME BoundAssumption ==
  /\ KcMax \in Nat /\ MaxChanges \in Nat /\ MaxCrashes \in Nat
  /\ CallsFail \in BOOLEAN /\ UpdateTenants \in BOOLEAN

VARIABLES
  kc,        \* Keycloak: the email of each account
  user,      \* ChirpStack: the user with an email (emails are unique)
  tenant,    \* ChirpStack: the name of each tenant (names are not unique)
  members,   \* ChirpStack: <<tenant, user>> memberships
  app,       \* ChirpStack: the tenant of each "platform-integration" app
  integ,     \* ChirpStack: HTTP integration of each app
  proc,      \* goroutines of the connector
  run,       \* progress of each ProvisionAllUsers + DeleteOutdatedUsers
  cached,    \* account emails cached by prepareChirpDevice
  endpoint,  \* Host:ServerPort/event of the running connector
  serving,   \* the HTTP API is up
  changes, crashes

chirp == <<user, tenant, members, app, integ>>
config == <<cached, endpoint, serving, crashes>>
vars == <<kc, chirp, proc, run, config, changes>>

-----------------------------------------------------------------------------
(* State.                                                                  *)

CallPc == {"user", "createUser", "tenant", "createTenant", "updateTenant",
           "member", "addMember", "app", "createApp", "integration",
           "deleteIntegration", "createIntegration", "deleteUser",
           "deleteTenant"}
Pc == CallPc \cup {"idle", "assign", "readCtx", "ok", "error"}
Op == {"none", "provision", "delete", "device", "gateway"}

Idle == [pc |-> "idle", op |-> "none", sub |-> None, uid |-> None,
         tid |-> None, aid |-> None, ctx |-> None]
Started(o, first, s, u) ==
  [Idle EXCEPT !.op = o, !.pc = first, !.sub = s, !.uid = u]

\* ctxVar and cfVar are the variables of DeleteOutdatedUsers that all its
\* goroutines assign and read; a context is named by the goroutine that made it.
NoRun == [pc |-> "off", seen |-> {}, err |-> FALSE, quiet |-> FALSE,
          ctxVar |-> None, cfVar |-> None, cancelled |-> {}]

HasAccount(s) == kc[s] \notin {Absent, Deleted}
KcEmails == {kc[s] : s \in Sub} \cap Email
\* What GetUsers may return: all accounts, or KcMax of them.
Pages == LET all == {s \in Sub : HasAccount(s)}
         IN  {A \in SUBSET all : \/ A = all /\ Cardinality(all) <= KcMax
                                 \/ Cardinality(A) = KcMax}

Free(a) == \A e \in Email : proc[<<a, e>>].pc = "idle"
Alone(s) == /\ \A r \in Syncer \ {s} : run[r].pc \in {"off", "done"}
            /\ \A c \in Caller : Free(c)
\* Something else began or changed: no sync run is undisturbed any more.
Disturb(r) == [s \in Syncer |-> [r[s] EXCEPT !.quiet = FALSE]]

UserLives(u) == \E e \in Email : user[e] = u
\* Fault: a List without Limit, for which ChirpStack returns the count only.
MatchesCountOnly(e) == {}
\* Fault: a List without Search.
MatchesAll(e) == {t \in TenantId : tenant[t] # None}
Matches(e) == {t \in TenantId : tenant[t] \in Found[e]}
AppsOf(t) == {a \in AppId : app[a] = t}

\* Ids are UUIDs: any id that nothing refers to stands for a new one, and which
\* of them a Create returns makes no difference.
UnusedUser(u) == ~UserLives(u) /\ \A g \in Goroutine : proc[g].uid # u
UnusedTenant(t) == tenant[t] = None /\ \A g \in Goroutine : proc[g].tid # t
UnusedApp(a) == app[a] = None /\ \A g \in Goroutine : proc[g].aid # a
FreshUser(u) == UnusedUser(u) /\ u = CHOOSE v \in UserId : UnusedUser(v)
FreshTenant(t) == UnusedTenant(t) /\ t = CHOOSE v \in TenantId : UnusedTenant(v)
FreshApp(a) == UnusedApp(a) /\ a = CHOOSE v \in AppId : UnusedApp(v)

Integration == [sub : Sub, endpoint : Endpoint]
Worker ==
  [pc : Pc, op : Op, sub : Sub \cup {None}, uid : UserId \cup {None},
   tid : TenantId \cup {None}, aid : AppId \cup {None}, ctx : Email \cup {None}]
RunPc == {"off", "list", "provisioning", "listDelete", "listChirp",
          "deleting", "done"}
Run ==
  [pc : RunPc, seen : SUBSET Email, err : BOOLEAN, quiet : BOOLEAN,
   ctxVar : Email \cup {None}, cfVar : Email \cup {None},
   cancelled : SUBSET (Email \cup {None})]

\* The types of the stores of Keycloak and ChirpStack and of the connector's
\* goroutines and sync runs.
TypeOK ==
  /\ kc \in [Sub -> Email \cup {Absent, Deleted, NoEmail}]
  /\ user \in [Email -> UserId \cup {None}]
  /\ tenant \in [TenantId -> Email \cup {None}]
  /\ members \subseteq TenantId \X UserId
  /\ app \in [AppId -> TenantId \cup {None}]
  /\ integ \in [AppId -> Integration \cup {None}]
  /\ proc \in [Goroutine -> Worker]
  /\ run \in [Syncer -> Run]
  /\ cached \in [Sub -> Email \cup {None}]
  /\ endpoint \in Endpoint
  /\ serving \in BOOLEAN
  /\ changes \in 0..MaxChanges
  /\ crashes \in 0..MaxCrashes

-----------------------------------------------------------------------------
(* Steps of a goroutine.                                                   *)

Cancelled(g) ==
  g[1] \in Syncer /\ proc[g].op = "delete"
                  /\ proc[g].ctx \in run[g[1]].cancelled

\* The reply of a call that took effect reaches g, which goes on as l; or it
\* is lost and the call returns an error.
Reply(g, l) ==
  \/ ~Cancelled(g) /\ proc' = [proc EXCEPT ![g] = l]
  \/ (CallsFail \/ Cancelled(g)) /\ proc' = [proc EXCEPT ![g].pc = "error"]
At(g, p) == proc[g].pc = p
Goto(g, p) == [proc[g] EXCEPT !.pc = p]

\* ChirpStack refuses or never gets the request.
CallError(g) ==
  /\ proc[g].pc \in CallPc
  /\ CallsFail \/ Cancelled(g)
  /\ proc' = [proc EXCEPT ![g].pc = "error"]
  /\ UNCHANGED <<kc, chirp, run, config, changes>>

\* getOrCreateChirpstackUserId: List and compare emails.
FindUser(g) ==
  /\ At(g, "user")
  /\ IF user[g[2]] # None
     THEN Reply(g, [proc[g] EXCEPT !.uid = user[g[2]], !.pc = "tenant"])
     ELSE Reply(g, Goto(g, "createUser"))
  /\ UNCHANGED <<kc, chirp, run, config, changes>>

CreateUser(g) ==
  /\ At(g, "createUser")
  /\ IF user[g[2]] # None
     THEN /\ proc' = [proc EXCEPT ![g].pc = "error"]
          /\ UNCHANGED user
     ELSE \E u \in UserId :
            /\ FreshUser(u)
            /\ user' = [user EXCEPT ![g[2]] = u]
            /\ Reply(g, [proc[g] EXCEPT !.uid = u, !.pc = "tenant"])
  /\ UNCHANGED <<kc, tenant, members, app, integ, run, config, changes>>

\* The statement after getOrCreateChirpstackTenantId in each caller.
AfterTenant(o) ==
  CASE o = "provision" -> "member"
    [] o = "device"    -> "app"
    [] o = "gateway"   -> "ok"
    [] o = "delete"    -> "deleteUser"
    [] OTHER           -> "error"

\* getOrCreateChirpstackTenantId: List with Search and Limit 2.
FindTenant(g) ==
  /\ At(g, "tenant")
  /\ LET found == Matches(g[2]) IN
     \/ found = {} /\ Reply(g, Goto(g, "createTenant"))
     \/ \E t \in found :
          /\ found = {t}
          /\ Reply(g, [proc[g] EXCEPT !.tid = t,
                         !.pc = IF UpdateTenants THEN "updateTenant"
                                ELSE AfterTenant(proc[g].op)])
     \/ /\ \E t, v \in found : t # v
        /\ proc' = [proc EXCEPT ![g].pc = "error"]
  /\ UNCHANGED <<kc, chirp, run, config, changes>>

\* Fault: the tenant is named by the user's id.
CreateTenantNamedById(g) ==
  /\ At(g, "createTenant")
  /\ \E t \in TenantId :
       /\ FreshTenant(t)
       /\ tenant' = [tenant EXCEPT ![t] = proc[g].uid]
       /\ Reply(g, [proc[g] EXCEPT !.tid = t, !.pc = AfterTenant(proc[g].op)])
  /\ UNCHANGED <<kc, user, members, app, integ, run, config, changes>>
CreateTenant(g) ==
  /\ At(g, "createTenant")
  /\ \E t \in TenantId :
       /\ FreshTenant(t)
       /\ tenant' = [tenant EXCEPT ![t] = g[2]]
       /\ Reply(g, [proc[g] EXCEPT !.tid = t,
                      !.pc = AfterTenant(proc[g].op)])
  /\ UNCHANGED <<kc, user, members, app, integ, run, config, changes>>

\* Update writes the whole tenant, its name included.
UpdateTenant(g) ==
  /\ At(g, "updateTenant")
  /\ IF tenant[proc[g].tid] = None
     THEN /\ proc' = [proc EXCEPT ![g].pc = "error"]
          /\ UNCHANGED tenant
     ELSE /\ tenant' = [tenant EXCEPT ![proc[g].tid] = g[2]]
          /\ Reply(g, Goto(g, AfterTenant(proc[g].op)))
  /\ UNCHANGED <<kc, user, members, app, integ, run, config, changes>>

GetMember(g) ==
  /\ At(g, "member")
  /\ Reply(g, Goto(g, IF <<proc[g].tid, proc[g].uid>> \in members
                      THEN "app" ELSE "addMember"))
  /\ UNCHANGED <<kc, chirp, run, config, changes>>

\* AddUser fails for a tenant or user that is gone and for a second membership.
AddMember(g) ==
  /\ At(g, "addMember")
  /\ LET m == <<proc[g].tid, proc[g].uid>> IN
     IF tenant[proc[g].tid] # None /\ UserLives(proc[g].uid) /\ m \notin members
     THEN /\ members' = members \cup {m}
          /\ Reply(g, Goto(g, "app"))
     ELSE /\ proc' = [proc EXCEPT ![g].pc = "error"]
          /\ UNCHANGED members
  /\ UNCHANGED <<kc, user, tenant, app, integ, run, config, changes>>

AfterApp(o) == IF o = "provision" THEN "integration" ELSE "ok"

\* getOrCreateChirpstackAppId: List of the tenant's apps with Limit 2.
FindApp(g) ==
  /\ At(g, "app")
  /\ LET found == AppsOf(proc[g].tid) IN
     \/ found = {} /\ Reply(g, Goto(g, "createApp"))
     \/ \E a \in found :
          /\ found = {a}
          /\ Reply(g, [proc[g] EXCEPT !.aid = a, !.pc = AfterApp(proc[g].op)])
     \/ /\ \E a, b \in found : a # b
        /\ proc' = [proc EXCEPT ![g].pc = "error"]
  /\ UNCHANGED <<kc, chirp, run, config, changes>>

CreateApp(g) ==
  /\ At(g, "createApp")
  /\ IF tenant[proc[g].tid] = None
     THEN /\ proc' = [proc EXCEPT ![g].pc = "error"]
          /\ UNCHANGED app
     ELSE \E a \in AppId :
            /\ FreshApp(a)
            /\ app' = [app EXCEPT ![a] = proc[g].tid]
            /\ Reply(g, [proc[g] EXCEPT !.aid = a, !.pc = AfterApp(proc[g].op)])
  /\ UNCHANGED <<kc, user, tenant, members, integ, run, config, changes>>

\* Faults: an integration with another endpoint is kept, or not deleted first.
GetIntegrationAny(g) ==
  /\ At(g, "integration")
  /\ Reply(g, Goto(g, IF integ[proc[g].aid] = None
                      THEN "createIntegration" ELSE "ok"))
  /\ UNCHANGED <<kc, chirp, run, config, changes>>
GetIntegrationNoDelete(g) ==
  /\ At(g, "integration")
  /\ Reply(g, Goto(g, IF integ[proc[g].aid] # None
                         /\ integ[proc[g].aid].endpoint = endpoint
                      THEN "ok" ELSE "createIntegration"))
  /\ UNCHANGED <<kc, chirp, run, config, changes>>

\* Only endpoint and encoding are compared, not the X-UserID header.
GetIntegration(g) ==
  /\ At(g, "integration")
  /\ Reply(g, Goto(g, CASE integ[proc[g].aid] = None -> "createIntegration"
                        [] integ[proc[g].aid] # None
                           /\ integ[proc[g].aid].endpoint # endpoint
                                                     -> "deleteIntegration"
                        [] OTHER                     -> "ok"))
  /\ UNCHANGED <<kc, chirp, run, config, changes>>

DeleteIntegration(g) ==
  /\ At(g, "deleteIntegration")
  /\ IF integ[proc[g].aid] = None
     THEN /\ proc' = [proc EXCEPT ![g].pc = "error"]
          /\ UNCHANGED integ
     ELSE /\ integ' = [integ EXCEPT ![proc[g].aid] = None]
          /\ Reply(g, Goto(g, "createIntegration"))
  /\ UNCHANGED <<kc, user, tenant, members, app, run, config, changes>>

CreateIntegration(g) ==
  /\ At(g, "createIntegration")
  /\ IF app[proc[g].aid] # None /\ integ[proc[g].aid] = None
     THEN /\ integ' = [integ EXCEPT ![proc[g].aid] =
                         [sub |-> proc[g].sub, endpoint |-> endpoint]]
          /\ Reply(g, Goto(g, "ok"))
     ELSE /\ proc' = [proc EXCEPT ![g].pc = "error"]
          /\ UNCHANGED integ
  /\ UNCHANGED <<kc, user, tenant, members, app, run, config, changes>>

\* DeleteUser: the user goes first, then the tenant with all it holds.
DeleteUser(g) ==
  /\ At(g, "deleteUser")
  /\ IF UserLives(proc[g].uid)
     THEN /\ user' = [e \in Email |->
                        IF user[e] = proc[g].uid THEN None ELSE user[e]]
          /\ members' = {m \in members : m[2] # proc[g].uid}
          /\ Reply(g, Goto(g, "deleteTenant"))
     ELSE /\ proc' = [proc EXCEPT ![g].pc = "error"]
          /\ UNCHANGED <<user, members>>
  /\ UNCHANGED <<kc, tenant, app, integ, run, config, changes>>

DeleteTenant(g) ==
  /\ At(g, "deleteTenant")
  /\ LET t == proc[g].tid IN
     IF tenant[t] # None
     THEN /\ tenant' = [tenant EXCEPT ![t] = None]
          /\ members' = {m \in members : m[1] # t}
          /\ app' = [a \in AppId |-> IF app[a] = t THEN None ELSE app[a]]
          /\ integ' = [a \in AppId |-> IF app[a] = t THEN None ELSE integ[a]]
          /\ Reply(g, Goto(g, "ok"))
     ELSE /\ proc' = [proc EXCEPT ![g].pc = "error"]
          /\ UNCHANGED <<tenant, members, app, integ>>
  /\ UNCHANGED <<kc, user, run, config, changes>>

\* ctx, cf = context.WithTimeout(...) assigns two variables that every
\* goroutine of the run shares.
AssignCtx(g) ==
  /\ At(g, "assign")
  /\ proc' = [proc EXCEPT ![g].pc = "readCtx"]
  /\ run' = [run EXCEPT ![g[1]].ctxVar = g[2]]
  /\ UNCHANGED <<kc, chirp, config, changes>>

\* The data race: DeleteUser(ctx, ...) is called with g's own context or with
\* the one another goroutine has stored meanwhile.
ReadCtx(g) ==
  /\ At(g, "readCtx")
  /\ run' = [run EXCEPT ![g[1]].cfVar = g[2]]
  /\ \E c \in {g[2], run[g[1]].ctxVar} :
       proc' = [proc EXCEPT ![g].pc = "user", ![g].ctx = c]
  /\ UNCHANGED <<kc, chirp, config, changes>>

\* The goroutine returns.  A delete calls cf() first, whichever cf that is.
EndDelete(g) ==
  /\ proc[g].pc \in {"ok", "error"}
  /\ proc[g].op = "delete"
  /\ proc' = [proc EXCEPT ![g] = Idle]
  /\ \E c \in {g[2], run[g[1]].cfVar} :
       run' = [run EXCEPT ![g[1]].err = @ \/ At(g, "error"),
                          ![g[1]].cancelled = @ \cup {c}]
  /\ UNCHANGED <<kc, chirp, config, changes>>

\* Fault: wg.Done() is not called on an error.
EndProvisionOnSuccess(g) ==
  /\ At(g, "ok")
  /\ proc[g].op # "delete"
  /\ proc' = [proc EXCEPT ![g] = Idle]
  /\ UNCHANGED <<kc, chirp, run, config, changes>>
EndProvision(g) ==
  /\ proc[g].pc \in {"ok", "error"}
  /\ proc[g].op # "delete"
  /\ proc' = [proc EXCEPT ![g] = Idle]
  /\ run' = IF g[1] \in Syncer
            THEN [run EXCEPT ![g[1]].err = @ \/ At(g, "error")]
            ELSE run
  /\ UNCHANGED <<kc, chirp, config, changes>>

Work(g) ==
  \/ FindUser(g) \/ CreateUser(g)
  \/ FindTenant(g) \/ CreateTenant(g) \/ UpdateTenant(g)
  \/ GetMember(g) \/ AddMember(g)
  \/ FindApp(g) \/ CreateApp(g)
  \/ GetIntegration(g) \/ DeleteIntegration(g) \/ CreateIntegration(g)
  \/ AssignCtx(g) \/ ReadCtx(g)
  \/ DeleteUser(g) \/ DeleteTenant(g)
  \/ EndDelete(g) \/ EndProvision(g)
  \/ CallError(g)

-----------------------------------------------------------------------------
(* Sync runs: ProvisionAllUsers, then DeleteOutdatedUsers.                 *)

\* PATCH /sync/users arrives.
StartSync(s) ==
  /\ s \in Patch
  /\ serving
  /\ run[s].pc \in {"off", "done"}
  /\ run' = [Disturb(run) EXCEPT ![s] =
               [NoRun EXCEPT !.pc = "list", !.quiet = Alone(s)]]
  /\ UNCHANGED <<kc, chirp, proc, config, changes>>

\* ProvisionAllUsers lists the accounts and starts a goroutine for each; one
\* without email fails at once (ErrBadRequest).
ListAccounts(s) ==
  /\ run[s].pc = "list"
  /\ \/ \E A \in Pages :
          /\ proc' = [g \in Goroutine |->
               IF g[1] = s /\ \E a \in A : kc[a] = g[2]
               THEN Started("provision", "user",
                            CHOOSE a \in A : kc[a] = g[2], None)
               ELSE proc[g]]
          /\ run' = [run EXCEPT ![s].pc = "provisioning",
                       ![s].err = @ \/ \E a \in A : kc[a] = NoEmail]
     \/ /\ CallsFail
        /\ run' = [run EXCEPT ![s].pc = "listDelete", ![s].err = TRUE]
        /\ UNCHANGED proc
  /\ UNCHANGED <<kc, chirp, config, changes>>

WaitProvisioned(s) ==
  /\ run[s].pc = "provisioning"
  /\ Free(s)
  /\ run' = [run EXCEPT ![s].pc = "listDelete"]
  /\ UNCHANGED <<kc, chirp, proc, config, changes>>

\* The run returns; the startup run lets New() return and the API start.
Finish(s, failed) ==
  /\ run' = [run EXCEPT ![s].pc = "done", ![s].err = @ \/ failed,
               ![s].seen = {}, ![s].ctxVar = None, ![s].cfVar = None,
               ![s].cancelled = {}]
  /\ serving' = (serving \/ s = Boot)

\* DeleteOutdatedUsers reads the accounts it will compare with ...
SnapshotAccounts(s) ==
  /\ run[s].pc = "listDelete"
  /\ \/ /\ \E A \in Pages :
             run' = [run EXCEPT ![s].pc = "listChirp",
                                ![s].seen = {kc[a] : a \in A} \cap Email]
        /\ UNCHANGED serving
     \/ CallsFail /\ Finish(s, TRUE)
  /\ UNCHANGED <<kc, chirp, proc, cached, endpoint, crashes, changes>>

\* Fault: protected users are deleted too.
ListChirpUsersUnprotected(s) ==
  /\ run[s].pc = "listChirp"
  /\ proc' = [g \in Goroutine |->
       IF g[1] = s /\ user[g[2]] # None /\ g[2] \notin run[s].seen
       THEN Started("delete", "assign", None, None)
       ELSE proc[g]]
  /\ run' = [run EXCEPT ![s].pc = "deleting"]
  /\ UNCHANGED <<kc, chirp, config, changes>>

\* ... and then the ChirpStack users, and starts the deletes.
ListChirpUsers(s) ==
  /\ run[s].pc = "listChirp"
  /\ \/ /\ proc' = [g \in Goroutine |->
             IF /\ g[1] = s
                /\ user[g[2]] # None
                /\ g[2] \notin Protected \cup run[s].seen
             THEN Started("delete", "assign", None, None)
             ELSE proc[g]]
        /\ run' = [run EXCEPT ![s].pc = "deleting"]
        /\ UNCHANGED serving
     \/ CallsFail /\ Finish(s, TRUE) /\ UNCHANGED proc
  /\ UNCHANGED <<kc, chirp, cached, endpoint, crashes, changes>>

\* Fault: DeleteOutdatedUsers returns without wg.Wait().
WaitDeletedNot(s) ==
  /\ run[s].pc = "deleting"
  /\ Finish(s, FALSE)
  /\ UNCHANGED <<kc, chirp, proc, cached, endpoint, crashes, changes>>

WaitDeleted(s) ==
  /\ run[s].pc = "deleting"
  /\ Free(s)
  /\ Finish(s, FALSE)
  /\ UNCHANGED <<kc, chirp, proc, cached, endpoint, crashes, changes>>

SyncStep(s) == \/ ListAccounts(s) \/ WaitProvisioned(s)
               \/ SnapshotAccounts(s) \/ ListChirpUsers(s) \/ WaitDeleted(s)

-----------------------------------------------------------------------------
(* The other callers and the environment.                                  *)

\* A Keycloak account is created, gets another email, or is deleted.
SetAccount(s, x) ==
  /\ changes < MaxChanges
  /\ changes' = changes + 1
  /\ kc[s] # Deleted /\ x # Absent /\ x # kc[s]
  /\ kc[s] = Absent => x # Deleted
  /\ x \in Email => x \notin KcEmails
  /\ kc' = [kc EXCEPT ![s] = x]
  /\ run' = Disturb(run)
  /\ UNCHANGED <<chirp, proc, config>>

\* An account logs in to ChirpStack for the first time: ChirpStack creates the
\* user and posts to /provision, which reaches nobody while New() still runs.
Register(s, u) ==
  /\ kc[s] \in Email
  /\ user[kc[s]] = None
  /\ FreshUser(u)
  /\ user' = [user EXCEPT ![kc[s]] = u]
  /\ \/ /\ serving
        /\ \E p \in Post :
             /\ Free(p)
             /\ proc' = [proc EXCEPT ![<<p, kc[s]>>] =
                           Started("provision", "tenant", s, u)]
     \/ /\ ~serving \/ CallsFail
        /\ UNCHANGED proc
  /\ run' = Disturb(run)
  /\ UNCHANGED <<kc, tenant, members, app, integ, config, changes>>

\* prepareChirpDevice looks up the owner's email (cached for a minute), tenant
\* and app.
ResolveDevice(d, s) ==
  /\ Free(d)
  /\ LET e == IF cached[s] # None THEN cached[s] ELSE kc[s] IN
       /\ e \in Email
       /\ cached' = [cached EXCEPT ![s] = e]
       /\ proc' = [proc EXCEPT ![<<d, e>>] = Started("device", "tenant", s, None)]
  /\ run' = Disturb(run)
  /\ UNCHANGED <<kc, chirp, endpoint, serving, crashes, changes>>

CacheExpires(s) ==
  /\ cached[s] # None
  /\ cached' = [cached EXCEPT ![s] = None]
  /\ UNCHANGED <<kc, chirp, proc, run, endpoint, serving, crashes, changes>>

\* SyncGateway looks up the owner's email and tenant.
ResolveGateway(w, s) ==
  /\ Free(w)
  /\ kc[s] \in Email
  /\ proc' = [proc EXCEPT ![<<w, kc[s]>>] = Started("gateway", "tenant", s, None)]
  /\ run' = Disturb(run)
  /\ UNCHANGED <<kc, chirp, config, changes>>

BootRuns == [s \in Syncer |->
  IF s = Boot THEN [NoRun EXCEPT !.pc = "list", !.quiet = TRUE] ELSE NoRun]

\* The connector stops at any point and starts again, perhaps with another
\* endpoint; what it did in ChirpStack stays.
Restart ==
  /\ crashes < MaxCrashes
  /\ crashes' = crashes + 1
  /\ proc' = [g \in Goroutine |-> Idle]
  /\ run' = BootRuns
  /\ serving' = FALSE
  /\ endpoint' \in Endpoint
  /\ UNCHANGED <<kc, chirp, cached, changes>>

-----------------------------------------------------------------------------
Init ==
  /\ kc \in [Sub -> Email \cup {Absent, NoEmail}]
  /\ \A s, r \in Sub : kc[s] = kc[r] /\ kc[s] \in Email => s = r
  /\ user \in [Email -> UserId \cup {None}]
  /\ \A e, f \in Email : user[e] = user[f] /\ user[e] # None => e = f
  /\ \A e \in Email : user[e] # None => e \in Old
  /\ tenant = [t \in TenantId |-> None]
  /\ members = {}
  /\ app = [a \in AppId |-> None]
  /\ integ = [a \in AppId |-> None]
  /\ proc = [g \in Goroutine |-> Idle]
  /\ run = BootRuns
  /\ cached = [s \in Sub |-> None]
  /\ endpoint \in Endpoint
  /\ serving = FALSE
  /\ changes = 0
  /\ crashes = 0

Next ==
  \/ \E g \in Goroutine : Work(g)
  \/ \E s \in Syncer : StartSync(s) \/ SyncStep(s)
  \/ \E s \in Sub, x \in Email \cup {Deleted, NoEmail} : SetAccount(s, x)
  \/ \E s \in Sub, u \in UserId : Register(s, u)
  \/ \E s \in Sub, d \in Device : ResolveDevice(d, s)
  \/ \E s \in Sub : CacheExpires(s)
  \/ \E s \in Sub, w \in Gateway : ResolveGateway(w, s)
  \/ Restart

Spec == Init /\ [][Next]_vars

\* Every call returns within its timeout and the Go scheduler runs every
\* goroutine; nothing is assumed of the environment.
FairSpec == /\ Spec
            /\ \A g \in Goroutine : WF_vars(Work(g))
            /\ \A s \in Syncer : WF_vars(SyncStep(s))

-----------------------------------------------------------------------------
(* Properties.                                                             *)

\* A goroutine never holds the id of somebody else's tenant: not after another
\* caller has created, renamed or deleted tenants between its List and its use
\* of the id (getOrCreateChirpstackTenantId).
HeldTenantIsOwn ==
  \A g \in Goroutine :
    proc[g].tid # None => tenant[proc[g].tid] \in {g[2], None}

\* Whatever runs concurrently, a tenant's members are the user with the
\* tenant's email and nobody else: no call of ProvisionUser lets a user into
\* another user's tenant.
OnlyOwnMembers ==
  \A m \in members : /\ tenant[m[1]] # None
                     /\ user[tenant[m[1]]] = m[2]

\* A user or a tenant disappears only while a DeleteOutdatedUsers run is in its
\* delete phase whose Keycloak snapshot lacks that email, and never one of a
\* protected user; no other caller and no restart removes anything.
DeletesOnlyUnseen ==
  [][\A e \in Email :
       \/ user[e] # None /\ user'[e] # user[e]
       \/ \E t \in TenantId : tenant[t] = e /\ tenant'[t] # e
       => /\ e \notin Protected
          /\ \E s \in Syncer : run[s].pc = "deleting" /\ e \notin run[s].seen]_vars

\* List and Create of a tenant are two calls; with one caller at a time an
\* email still never gets a second tenant, whatever a restart interrupted.
\* (A second one makes every later lookup fail with "found multiple tenants".)
OneTenantPerEmail ==
  \A t, v \in TenantId : tenant[t] # None /\ tenant[t] = tenant[v] => t = v

Completed(s) == run[s].pc = "done" /\ run[s].quiet
Serves(e) ==
  \E t \in TenantId, a \in AppId :
    /\ tenant[t] = e /\ app[a] = t
    /\ user[e] # None /\ <<t, user[e]>> \in members
    /\ integ[a] # None /\ integ[a].endpoint = endpoint

\* An undisturbed sync that reports no error leaves every account with a user
\* who is a member of a tenant with an app whose integration points at this
\* connector, whatever earlier runs, restarts and endpoint changes left behind.
SyncProvisionsAll ==
  \A s \in Syncer : Completed(s) /\ ~run[s].err => \A e \in KcEmails : Serves(e)

\* ... and it leaves no ChirpStack user without a Keycloak account.
SyncRemovesUsers ==
  \A s \in Syncer : Completed(s) /\ ~run[s].err =>
    \A e \in Email : user[e] # None => e \in KcEmails \cup Protected

\* No restart leaves a state the next sync cannot repair: undisturbed and with
\* all calls answered, a sync records an error only for an account without
\* email, or for a delete whose context another goroutine has cancelled through
\* the variables they share (DeleteOutdatedUsers).
QuietSyncSucceeds ==
  [][\A s \in Syncer :
       /\ run[s].quiet /\ ~CallsFail
       /\ ~run[s].err /\ run'[s].err
       => \/ \E r \in Sub : kc[r] = NoEmail
          \/ \E e \in Email : /\ proc[<<s, e>>].op = "delete"
                             /\ proc[<<s, e>>].ctx \in run[s].cancelled]_vars

\* A sync run comes to an end (or the process does): neither WaitGroup waits
\* for ever, whatever fails (ProvisionAllUsers, DeleteOutdatedUsers).
SyncTerminates ==
  \A s \in Syncer : run[s].pc = "list" ~> run[s].pc \in {"done", "off"}

\* "no matching keycloak user exists" (provision.go:223): DeleteUser removes
\* the user of no email that a Keycloak account has.
LiveUserKept ==
  [][\A e \in Email : user[e] # None /\ user'[e] # user[e] => e \notin KcEmails]_vars

\* "The previous tenant will be deleted automatically" (README): a sync that
\* reports no error leaves no tenant whose email no account has.
SyncRemovesTenants ==
  \A s \in Syncer : Completed(s) /\ ~run[s].err =>
    \A t \in TenantId : tenant[t] # None => tenant[t] \in KcEmails \cup Protected

\* X-UserId is the "Platform User ID" (api/event.go): after a sync without
\* error the integration of an account's tenant carries that account's id.
HeaderIsOwner ==
  \A s \in Syncer : Completed(s) /\ ~run[s].err =>
    \A r \in Sub, a \in AppId :
      /\ kc[r] \in Email /\ app[a] # None /\ tenant[app[a]] = kc[r]
      /\ integ[a] # None
      => integ[a].sub = r
=============================================================================
