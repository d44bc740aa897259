----------------------------- MODULE GatewaySync -----------------------------
(***************************************************************************)
(* The reconciliation of platform hubs with ChirpStack gateways            *)
(* (controller/sync_gateway.go, controller/gateway.go): the consumer of the *)
(* "hubs" topic, SyncAllGateways followed by DeleteOutdatedGateways at      *)
(* startup and on PATCH /sync/gateways, and POST /gateways/:hub_id/cert.    *)
(*                                                                         *)
(* SyncGateway works on a copy of the hub that it read earlier and writes   *)
(* the whole hub and the whole gateway back, in that order; every write of  *)
(* a hub puts a message on the topic.  A tenant is named by the email of the *)
(* user it belongs to, which may change: module Provision models how the    *)
(* tenant of an email is found or created.                                 *)
(***************************************************************************)
EXTENDS Naturals, Sequences, FiniteSets

CONSTANTS
  Hub, Owner, Eui,
  OwnerOf,      \* OwnerOf[h]: the owner of a hub
  Email,        \* emails of users, and the names of their tenants
  FirstMail,    \* the emails at the beginning
  Device,       \* local ids of devices that gateways hear
  Name,         \* names users give to a hub, different ones for each hub
  Place,        \* locations
  Ms,           \* message max ages, in milliseconds
  Consumer,     \* the goroutine of the "hubs" topic
  Boot, Patch,  \* sync runs: at startup, one for each PATCH /sync/gateways
  Cert,         \* certificate requests
  CallsFail,    \* remote calls may fail or lose their reply
  MaxEdits,     \* bound on what users and devices do
  MaxCrashes,   \* bound on restarts of the connector
  None

Runs == {Boot} \cup Patch
Goroutine == {Consumer} \cup (Runs \X Hub)

Emails == [Owner -> Email \cup {None}]
\* Keycloak knows an email once.
Distinct(m) == \A a, b \in Owner : m[a] = m[b] /\ m[a] # None => a = b

ASSUME HubAssumption ==
  /\ OwnerOf \in [Hub -> Owner]
  /\ FirstMail \in Emails /\ Distinct(FirstMail)
  /\ Consumer \notin Runs \X Hub
  /\ None \notin Hub \cup Eui \cup Place \cup Email
ASSUME BoundAssumption ==
  /\ Ms \subseteq Nat /\ MaxEdits \in Nat /\ MaxCrashes \in Nat
  /\ CallsFail \in BOOLEAN

VARIABLES
  hub,      \* device repository: the hubs
  gw,       \* ChirpStack: the gateways by EUI
  mail,     \* Keycloak: the emails of the owners of hubs
  heard,    \* Redis: the devices a gateway heard lately
  topic,    \* Kafka: messages about hubs that are not handled
  proc,     \* goroutines that handle a message or run SyncGateway
  run,      \* progress of SyncAllGateways + DeleteOutdatedGateways
  cert,     \* progress of ProvisionGatewayCerts
  issued,   \* hubs whose owner got a certificate
  edits, crashes

stores == <<hub, gw, heard, topic>>
vars == <<stores, mail, proc, run, cert, issued, edits, crashes>>

-----------------------------------------------------------------------------
(* State.  An attribute of a hub has a value and a flag: the value is        *)
(* written the way fillHubAttributes writes it, with the origin "web-ui".   *)

NoAttr == [val |-> None, web |-> FALSE]
Typed(v) == [val |-> v, web |-> FALSE]
Filled(v) == [val |-> v, web |-> TRUE]

\* time.Duration.Seconds() as uint32, and the "<n>s" made of it.
Secs(ms) == ms \div 1000
MsOf(secs) == secs * 1000

HubRecord ==
  [eui : Eui \cup {None}, name : Hub \X Name,
   loc : [val : Place \cup {None}, web : BOOLEAN],
   age : [val : Nat \cup {None}, web : BOOLEAN],
   dup : BOOLEAN, exp : BOOLEAN, links : SUBSET Device]
Gateway == [tenant : Email, name : Hub \X Name, loc : Place \cup {None}, secs : Nat]
Message ==
  [cmd : {"PUT"}, h : Hub] \cup [cmd : {"DELETE"}, h : Hub, eui : Eui \cup {None}]

\* None is no hub and no gateway.
ASSUME NoneAssumption == None \notin HubRecord /\ None \notin Gateway

Idle == [pc |-> "idle", h |-> None, copy |-> None, old |-> None, new |-> None]
Syncing(h) == [Idle EXCEPT !.pc = "get", !.h = h, !.copy = hub[h]]
NoRun == [pc |-> "off", known |-> {}, doomed |-> {}, swept |-> {},
          failed |-> FALSE, err |-> FALSE, quiet |-> FALSE]
NoRequest == [pc |-> "idle", h |-> None, copy |-> None]

\* GetHubEUI: other hubs are not the connector's business.
Syncable(h) == hub[h] # None /\ hub[h].eui # None
\* The tenant of the owner of a hub, None for one without an email.
Tenant(h) == mail[OwnerOf[h]]
HasGateway(e, h) == e # None /\ gw[e] # None /\ gw[e].tenant = Tenant(h)

Worker ==
  [pc : {"idle", "get", "duplicate", "link", "setHub", "write", "delete"},
   h : Hub \cup {None}, copy : HubRecord \cup {None},
   old : Gateway \cup {None}, new : Gateway \cup {None}]
Run ==
  [pc : {"off", "list", "syncing", "listHubs", "listGateways", "deleting", "done"},
   known : SUBSET (Eui \X Owner), doomed : SUBSET Eui, swept : SUBSET Eui,
   failed : BOOLEAN, err : BOOLEAN, quiet : BOOLEAN]
Request ==
  [pc : {"idle", "gateway", "setHub"}, h : Hub \cup {None},
   copy : HubRecord \cup {None}]

\* The types of the stores and of the connector's goroutines.
TypeOK ==
  /\ hub \in [Hub -> HubRecord \cup {None}]
  /\ gw \in [Eui -> Gateway \cup {None}]
  /\ mail \in Emails /\ Distinct(mail)
  /\ heard \in [Eui -> SUBSET Device]
  /\ topic \in Seq(Message)
  /\ proc \in [Goroutine -> Worker]
  /\ run \in [Runs -> Run]
  /\ cert \in [Cert -> Request]
  /\ issued \subseteq Hub
  /\ edits \in 0..MaxEdits
  /\ crashes \in 0..MaxCrashes

-----------------------------------------------------------------------------
(* SyncGateway.                                                            *)

Put(h) == Append(topic, [cmd |-> "PUT", h |-> h])

\* The handler returns: the consumer takes the next message, whatever the
\* outcome; a goroutine of a run reports an error.
Return(g, ok) ==
  /\ proc' = [proc EXCEPT ![g] = Idle]
  /\ run' = IF g = Consumer \/ ok THEN run
            ELSE [run EXCEPT ![g[1]].failed = TRUE]
Handled(g, q) == IF g = Consumer THEN Tail(q) ELSE q
Stop(g, ok) == Return(g, ok) /\ topic' = Handled(g, topic)

\* ChirpStack, Keycloak, or the device repository do not answer in time.
CallError(g) ==
  /\ CallsFail
  /\ proc[g].pc # "idle"
  /\ Stop(g, FALSE)
  /\ UNCHANGED <<hub, gw, heard, mail, cert, issued, edits, crashes>>

\* Fault: the gateway is put into a tenant named by the hub.
PreparedForHub(old, copy, tenant) ==
  [tenant |-> copy.name[1], name |-> copy.name, loc |-> copy.loc.val, secs |-> 0]

\* prepareGateway: what the gateway has, then what the hub says.
Prepared(old, copy, tenant) ==
  [tenant |-> tenant,
   name   |-> copy.name,
   loc    |-> IF copy.loc.val # None THEN copy.loc.val
              ELSE IF old # None THEN old.loc ELSE None,
   secs   |-> IF copy.age.val # None THEN Secs(copy.age.val)
              ELSE IF old # None THEN old.secs ELSE 0]

\* Get of the gateway and look-up of the owner's email and tenant: no email, no
\* sync.  prepareGateway, the next step of the code, reads nothing else.
GetGateway(g) ==
  /\ proc[g].pc = "get"
  /\ LET copy == proc[g].copy
         tenant == Tenant(proc[g].h)
         found == gw[copy.eui]
     IN  \/ /\ tenant = None
            /\ Stop(g, TRUE)
         \/ /\ tenant # None /\ found # None /\ found.tenant # tenant
            /\ proc' = [proc EXCEPT ![g].pc = "duplicate"]
            /\ UNCHANGED <<topic, run>>
         \/ /\ tenant # None /\ (found # None => found.tenant = tenant)
            /\ proc' = [proc EXCEPT ![g].pc = "link", ![g].old = found,
                                    ![g].new = Prepared(found, copy, tenant)]
            /\ UNCHANGED <<topic, run>>
  /\ UNCHANGED <<hub, gw, heard, mail, cert, issued, edits, crashes>>

\* Fault: the mark is made on the copy and never stored.
MarkDuplicateNot(g) ==
  /\ proc[g].pc = "duplicate"
  /\ Stop(g, TRUE)
  /\ UNCHANGED <<hub, gw, heard, mail, cert, issued, edits, crashes>>

\* SetHub writes the whole hub; the repository refuses one that is gone.
MarkDuplicate(g) ==
  /\ proc[g].pc = "duplicate"
  /\ LET h == proc[g].h IN
     \/ /\ proc[g].copy.dup
        /\ Stop(g, TRUE)
        /\ UNCHANGED hub
     \/ /\ ~proc[g].copy.dup /\ hub[h] = None
        /\ Stop(g, FALSE)
        /\ UNCHANGED hub
     \/ /\ ~proc[g].copy.dup /\ hub[h] # None
        /\ hub' = [hub EXCEPT ![h] = [proc[g].copy EXCEPT !.dup = TRUE]]
        /\ \/ Return(g, TRUE)
           \/ CallsFail /\ Return(g, FALSE)
        /\ topic' = Handled(g, Put(h))
  /\ UNCHANGED <<gw, heard, mail, cert, issued, edits, crashes>>

\* fillHubAttributes.  The location it reads is the one prepareGateway has just
\* changed, as both gateways share it; the stats interval is the old one.
FilledHub(old, new, copy) ==
  [copy EXCEPT !.loc = IF old.loc # None THEN Filled(new.loc) ELSE @,
               !.age = IF old.secs # 0 THEN Filled(MsOf(old.secs)) ELSE @]

\* linkHubDevices: the keys of the scans that succeed.  The code compares them as
\* lists: the same keys are taken to come in the same order from every scan.
Scanned(e) == IF CallsFail THEN SUBSET heard[e] ELSE {heard[e]}

\* Fault: an attribute that has its value already counts as updated.
LinkAlwaysSet(g) ==
  /\ proc[g].pc = "link"
  /\ LET p == proc[g]
         filled == IF p.old = None THEN p.copy
                   ELSE [FilledHub(p.old, p.new, p.copy)
                           EXCEPT !.links = heard[p.copy.eui]]
     IN  proc' = [proc EXCEPT ![g].copy = filled, ![g].pc = "setHub"]
  /\ UNCHANGED <<stores, mail, run, cert, issued, edits, crashes>>

Link(g) ==
  /\ proc[g].pc = "link"
  /\ LET p == proc[g] IN
     \/ /\ p.old = None
        /\ proc' = [proc EXCEPT ![g].pc = "write"]
     \/ /\ p.old # None
        /\ \E links \in Scanned(p.copy.eui) :
             LET h == [FilledHub(p.old, p.new, p.copy) EXCEPT !.links = links]
             IN  proc' = [proc EXCEPT ![g].copy = h,
                            ![g].pc = IF h = p.copy THEN "write" ELSE "setHub"]
  /\ UNCHANGED <<stores, mail, run, cert, issued, edits, crashes>>

SetHub(g) ==
  /\ proc[g].pc = "setHub"
  /\ LET h == proc[g].h IN
     \/ /\ hub[h] = None
        /\ Stop(g, FALSE)
        /\ UNCHANGED hub
     \/ /\ hub[h] # None
        /\ hub' = [hub EXCEPT ![h] = proc[g].copy]
        /\ \/ /\ proc' = [proc EXCEPT ![g].pc = "write"]
              /\ topic' = Put(h)
              /\ UNCHANGED run
           \/ CallsFail /\ Return(g, FALSE) /\ topic' = Handled(g, Put(h))
  /\ UNCHANGED <<gw, heard, mail, cert, issued, edits, crashes>>

\* Fault: a Create that fails is tried again for ever.
CreateGatewayRetry(g) ==
  /\ proc[g].pc = "write" /\ proc[g].old = None
  /\ gw[proc[g].copy.eui] = None
  /\ gw' = [gw EXCEPT ![proc[g].copy.eui] = proc[g].new]
  /\ Stop(g, TRUE)
  /\ UNCHANGED <<hub, heard, mail, cert, issued, edits, crashes>>

\* Create fails for an EUI that exists.
CreateGateway(g) ==
  /\ proc[g].pc = "write" /\ proc[g].old = None
  /\ LET e == proc[g].copy.eui IN
     \/ /\ gw[e] # None
        /\ Stop(g, FALSE)
        /\ UNCHANGED gw
     \/ /\ gw[e] = None
        /\ gw' = [gw EXCEPT ![e] = proc[g].new]
        /\ Stop(g, TRUE) \/ (CallsFail /\ Stop(g, FALSE))
  /\ UNCHANGED <<hub, heard, mail, cert, issued, edits, crashes>>

\* Update writes all fields; whether ChirpStack also moves the gateway to the
\* tenant of the request is left open.
UpdateGateway(g) ==
  /\ proc[g].pc = "write" /\ proc[g].old # None
  /\ LET e == proc[g].copy.eui IN
     \/ /\ proc[g].new = proc[g].old
        /\ Stop(g, TRUE)
        /\ UNCHANGED gw
     \/ /\ proc[g].new # proc[g].old /\ gw[e] = None
        /\ Stop(g, FALSE)
        /\ UNCHANGED gw
     \/ /\ proc[g].new # proc[g].old /\ gw[e] # None
        /\ \E t \in {gw[e].tenant, proc[g].new.tenant} :
             gw' = [gw EXCEPT ![e] = [proc[g].new EXCEPT !.tenant = t]]
        /\ Stop(g, TRUE) \/ (CallsFail /\ Stop(g, FALSE))
  /\ UNCHANGED <<hub, heard, mail, cert, issued, edits, crashes>>

-----------------------------------------------------------------------------
(* The consumer of the topic.                                              *)

\* PUT: ReadHub.  An error of the call or a hub that is gone ends the handler.
HandlePut ==
  /\ proc[Consumer].pc = "idle"
  /\ topic # <<>> /\ Head(topic).cmd = "PUT"
  /\ LET h == Head(topic).h IN
     \/ /\ CallsFail \/ ~Syncable(h)
        /\ topic' = Tail(topic)
        /\ UNCHANGED proc
     \/ /\ Syncable(h)
        /\ proc' = [proc EXCEPT ![Consumer] = Syncing(h)]
        /\ UNCHANGED topic
  /\ UNCHANGED <<hub, gw, heard, mail, run, cert, issued, edits, crashes>>

\* DELETE: Get the gateway of the hub in the message.
HandleDelete ==
  /\ proc[Consumer].pc = "idle"
  /\ topic # <<>> /\ Head(topic).cmd = "DELETE"
  /\ LET own == HasGateway(Head(topic).eui, Head(topic).h) IN
     \/ /\ own
        /\ proc' = [proc EXCEPT ![Consumer].pc = "delete",
                                ![Consumer].h = Head(topic).h]
        /\ UNCHANGED topic
     \/ /\ CallsFail \/ ~own
        /\ topic' = Tail(topic)
        /\ UNCHANGED proc
  /\ UNCHANGED <<hub, gw, heard, mail, run, cert, issued, edits, crashes>>

\* ... and delete what has that EUI by now.
DeleteGateway ==
  /\ proc[Consumer].pc = "delete"
  /\ gw' = [gw EXCEPT ![Head(topic).eui] = None]
  /\ Stop(Consumer, TRUE)
  /\ UNCHANGED <<hub, heard, mail, cert, issued, edits, crashes>>

Work(g) == \/ GetGateway(g) \/ MarkDuplicate(g) \/ Link(g) \/ SetHub(g)
           \/ CreateGateway(g) \/ UpdateGateway(g) \/ CallError(g)
Consume == HandlePut \/ HandleDelete \/ DeleteGateway

-----------------------------------------------------------------------------
(* SyncAllGateways, then DeleteOutdatedGateways.                           *)

Calm == topic = <<>> /\ (\A g \in Goroutine : proc[g].pc = "idle")
        /\ \A c \in Cert : cert[c].pc = "idle"
Disturb(r) == [s \in Runs |-> [r[s] EXCEPT !.quiet = FALSE]]
\* The API starts when the sync of New() has returned.
Serving == run[Boot].pc = "done"
\* Users and devices do something.
Edit == edits < MaxEdits /\ edits' = edits + 1

\* PATCH /sync/gateways arrives.
StartRun(r) ==
  /\ r \in Patch /\ Serving
  /\ run[r].pc = "off"
  /\ run' = [Disturb(run) EXCEPT ![r] =
       [NoRun EXCEPT !.pc = "list",
          !.quiet = Calm /\ \A s \in Runs \ {r} : run[s].pc \in {"off", "done"}]]
  /\ UNCHANGED <<stores, mail, proc, cert, issued, edits, crashes>>

\* ListHubs, and a goroutine for every hub with an EUI.
ListHubs(r) ==
  /\ run[r].pc = "list"
  /\ \/ /\ proc' = [g \in Goroutine |->
             IF g # Consumer /\ g[1] = r /\ Syncable(g[2])
             THEN Syncing(g[2]) ELSE proc[g]]
        /\ run' = [run EXCEPT ![r].pc = "syncing"]
     \/ /\ CallsFail
        /\ run' = [run EXCEPT ![r].pc = "listHubs", ![r].err = TRUE,
                              ![r].failed = TRUE]
        /\ UNCHANGED proc
  /\ UNCHANGED <<stores, mail, cert, issued, edits, crashes>>

\* SyncAllGateways returns: the goroutines have joined their errors to a
\* variable of the loop, not to its result.
WaitSynced(r) ==
  /\ run[r].pc = "syncing"
  /\ \A h \in Hub : proc[<<r, h>>].pc = "idle"
  /\ run' = [run EXCEPT ![r].pc = "listHubs"]
  /\ UNCHANGED <<stores, mail, proc, cert, issued, edits, crashes>>

Finished(r, failed) ==
  [run EXCEPT ![r].pc = "done", ![r].known = {}, ![r].doomed = {},
              ![r].err = @ \/ failed, ![r].failed = @ \/ failed]

\* Fault: the last page of hubs replaces the ones before.
ListHubsLastPage(r) ==
  /\ run[r].pc = "listHubs"
  /\ run' = [run EXCEPT ![r].pc = "listGateways", ![r].known = {}]
  /\ UNCHANGED <<stores, mail, proc, cert, issued, edits, crashes>>

\* DeleteOutdatedGateways lists the hubs ...
ListHubsAgain(r) ==
  /\ run[r].pc = "listHubs"
  /\ \/ run' = [run EXCEPT ![r].pc = "listGateways",
          ![r].known = {<<hub[h].eui, OwnerOf[h]>> : h \in {x \in Hub : Syncable(x)}}]
     \/ CallsFail /\ run' = Finished(r, TRUE)
  /\ UNCHANGED <<stores, mail, proc, cert, issued, edits, crashes>>

\* ... then the gateways, and looks for the hub of each: one whose owner has the
\* email that names the gateway's tenant.  A hub whose gateway's tenant or whose
\* owner cannot be read counts as none.
ListGateways(r) ==
  /\ run[r].pc = "listGateways"
  /\ LET listed == {e \in Eui : gw[e] # None}
         lost == {e \in listed : \A o \in Owner :
                    <<e, o>> \in run[r].known => mail[o] # gw[e].tenant}
         checked == {e \in listed : \E o \in Owner : <<e, o>> \in run[r].known}
     IN  \/ \E unread \in IF CallsFail THEN SUBSET checked ELSE {{}} :
              run' = [run EXCEPT ![r].pc = "deleting",
                                 ![r].doomed = lost \cup unread,
                                 ![r].failed = @ \/ unread # {}]
         \/ CallsFail /\ run' = Finished(r, TRUE)
  /\ UNCHANGED <<stores, mail, proc, cert, issued, edits, crashes>>

DeleteOutdated(r, e) ==
  /\ run[r].pc = "deleting" /\ e \in run[r].doomed
  /\ \/ /\ gw[e] # None
        /\ gw' = [gw EXCEPT ![e] = None]
        /\ run' = [run EXCEPT ![r].doomed = @ \ {e}, ![r].swept = @ \cup {e}]
     \/ /\ gw[e] = None \/ CallsFail
        /\ run' = [run EXCEPT ![r].doomed = @ \ {e}, ![r].failed = TRUE]
        /\ UNCHANGED gw
  /\ UNCHANGED <<hub, heard, topic, mail, proc, cert, issued, edits, crashes>>

\* Fault: DeleteOutdatedGateways returns without wg.Wait().
WaitDeletedNot(r) ==
  /\ run[r].pc = "deleting"
  /\ run' = [run EXCEPT ![r].pc = "done"]
  /\ UNCHANGED <<stores, mail, proc, cert, issued, edits, crashes>>

\* It returns; these errors are lost in the same way.
WaitDeleted(r) ==
  /\ run[r].pc = "deleting" /\ run[r].doomed = {}
  /\ run' = Finished(r, FALSE)
  /\ UNCHANGED <<stores, mail, proc, cert, issued, edits, crashes>>

RunStep(r) == \/ ListHubs(r) \/ WaitSynced(r) \/ ListHubsAgain(r)
              \/ ListGateways(r) \/ WaitDeleted(r)
              \/ \E e \in Eui : DeleteOutdated(r, e)

-----------------------------------------------------------------------------
(* ProvisionGatewayCerts.                                                  *)

RequestCert(c, h) ==
  /\ Serving
  /\ cert[c].pc = "idle"
  /\ Edit
  /\ Syncable(h)
  /\ cert' = [cert EXCEPT ![c] = [pc |-> "gateway", h |-> h, copy |-> hub[h]]]
  /\ run' = Disturb(run)
  /\ UNCHANGED <<stores, mail, proc, issued, crashes>>

\* The gateway must be in the owner's tenant; ChirpStack makes a certificate.
GetCert(c) ==
  /\ cert[c].pc = "gateway"
  /\ IF HasGateway(cert[c].copy.eui, cert[c].h)
     THEN cert' = [cert EXCEPT ![c].pc = "setHub",
                                ![c].copy = [@ EXCEPT !.exp = TRUE]]
     ELSE cert' = [cert EXCEPT ![c] = NoRequest]
  /\ UNCHANGED <<stores, mail, proc, run, issued, edits, crashes>>

AnnotateCert(c) ==
  /\ cert[c].pc = "setHub"
  /\ LET h == cert[c].h IN
     IF hub[h] # None
     THEN /\ hub' = [hub EXCEPT ![h] = cert[c].copy]
          /\ topic' = Put(h)
          /\ issued' = issued \cup {h}
     ELSE UNCHANGED <<hub, topic, issued>>
  /\ cert' = [cert EXCEPT ![c] = NoRequest]
  /\ UNCHANGED <<gw, heard, mail, proc, run, edits, crashes>>

CertError(c) ==
  /\ CallsFail
  /\ cert[c].pc # "idle"
  /\ cert' = [cert EXCEPT ![c] = NoRequest]
  /\ UNCHANGED <<stores, mail, proc, run, issued, edits, crashes>>

-----------------------------------------------------------------------------
(* Users, devices, and the connector's own crashes.                        *)

\* A user creates a hub or changes it.
PutHub(h) ==
  /\ Edit
  /\ \E e \in Eui \cup {None}, n \in {h} \X Name, p \in Place \cup {None},
        ms \in Ms \cup {None} :
       LET new == IF hub[h] = None
                  THEN [eui |-> e, name |-> n, loc |-> Typed(p), age |-> Typed(ms),
                        dup |-> FALSE, exp |-> FALSE, links |-> {}]
                  ELSE [hub[h] EXCEPT !.eui = e, !.name = n, !.loc = Typed(p),
                                      !.age = Typed(ms)]
       IN  hub' = [hub EXCEPT ![h] = new]
  /\ topic' = Put(h)
  /\ run' = Disturb(run)
  /\ UNCHANGED <<gw, heard, mail, proc, cert, issued, crashes>>

DropHub(h) ==
  /\ Edit
  /\ hub[h] # None
  /\ hub' = [hub EXCEPT ![h] = None]
  /\ topic' = Append(topic, [cmd |-> "DELETE", h |-> h, eui |-> hub[h].eui])
  /\ issued' = issued \ {h}
  /\ run' = Disturb(run)
  /\ UNCHANGED <<gw, heard, mail, proc, cert, crashes>>

\* A user gets, changes or loses the email.
SetMail(o) ==
  /\ Edit
  /\ \E m \in Email \cup {None} :
       /\ m # mail[o]
       /\ mail' = [mail EXCEPT ![o] = m]
  /\ Distinct(mail')
  /\ run' = Disturb(run)
  /\ UNCHANGED <<stores, proc, cert, issued, crashes>>

\* A device is heard by a gateway, or its key in Redis expires.
Hear(e, d) ==
  /\ Edit
  /\ heard' = [heard EXCEPT ![e] = IF d \in @ THEN @ \ {d} ELSE @ \cup {d}]
  /\ UNCHANGED <<hub, gw, topic, mail, proc, run, cert, issued, crashes>>

\* The connector restarts.  Messages may be handled again or lost.
BootRuns(quiet) ==
  [r \in Runs |-> IF r = Boot THEN [NoRun EXCEPT !.pc = "list", !.quiet = quiet]
                  ELSE NoRun]
Restart ==
  /\ crashes < MaxCrashes
  /\ crashes' = crashes + 1
  /\ \E k \in 1..(Len(topic) + 1) :
       /\ topic' = SubSeq(topic, k, Len(topic))
       /\ run' = BootRuns(k = Len(topic) + 1)
  /\ proc' = [g \in Goroutine |-> Idle]
  /\ cert' = [c \in Cert |-> NoRequest]
  /\ UNCHANGED <<hub, gw, heard, mail, issued, edits>>

-----------------------------------------------------------------------------
Init ==
  /\ hub = [h \in Hub |-> None]
  /\ gw = [e \in Eui |-> None]
  /\ mail = FirstMail
  /\ heard = [e \in Eui |-> {}]
  /\ topic = <<>>
  /\ proc = [g \in Goroutine |-> Idle]
  /\ cert = [c \in Cert |-> NoRequest]
  /\ run = BootRuns(TRUE)
  /\ issued = {}
  /\ edits = 0
  /\ crashes = 0

Next ==
  \/ \E g \in Goroutine : Work(g)
  \/ Consume
  \/ \E r \in Runs : StartRun(r) \/ RunStep(r)
  \/ \E c \in Cert : \/ GetCert(c) \/ AnnotateCert(c) \/ CertError(c)
                     \/ \E h \in Hub : RequestCert(c, h)
  \/ \E h \in Hub : PutHub(h) \/ DropHub(h)
  \/ \E o \in Owner : SetMail(o)
  \/ \E e \in Eui, d \in Device : Hear(e, d)
  \/ Restart

Spec == Init /\ [][Next]_vars

\* Calls return within their timeouts and every goroutine runs; users, devices
\* and requests owe nothing.
FairSpec == /\ Spec
            /\ \A g \in Goroutine : WF_vars(Work(g))
            /\ WF_vars(Consume)
            /\ \A r \in Runs : WF_vars(RunStep(r))

-----------------------------------------------------------------------------
(* Properties.                                                             *)

Deletes(r, e) ==
  e \in run[r].doomed /\ e \notin run'[r].doomed /\ gw[e] # None /\ gw'[e] = None
Matched(e) ==
  \E h \in Hub : Syncable(h) /\ hub[h].eui = e /\ Tenant(h) = gw[e].tenant
Completed(r) == run[r].pc = "done" /\ run[r].quiet /\ ~run[r].failed

\* After an undisturbed sync without failures every hub with an EUI, of an owner
\* with an email, has its gateway, or says that the EUI is somebody else's: of a
\* gateway that is there, or that the same sync has deleted afterwards.  This
\* holds whatever earlier events, edits and restarts left behind
\* (SyncAllGateways, DeleteOutdatedGateways).
SyncServesHubs ==
  \A r \in Runs : Completed(r) =>
    \A h \in Hub : Syncable(h) /\ Tenant(h) # None =>
      LET e == hub[h].eui IN
      HasGateway(e, h) \/ (hub[h].dup /\ (gw[e] # None \/ e \in run[r].swept))

\* ... and every gateway has a hub of its tenant's owner.
SyncRemovesGateways ==
  \A r \in Runs : Completed(r) =>
    \A e \in Eui : gw[e] # None => Matched(e)

\* A hub and its gateway have the same max age, in whole seconds.  As long as they
\* do not, SyncGateway exchanges the two values: fillHubAttributes writes the one
\* of the gateway to the hub, prepareGateway that of the hub to the gateway
\* (sync_gateway.go:440, 473).
SameAges ==
  \A h \in Hub : Syncable(h) /\ HasGateway(hub[h].eui, h) /\ hub[h].age.val # None =>
    Secs(hub[h].age.val) = gw[hub[h].eui].secs

\* The writes of hubs that handling a message causes come to an end: with the
\* users quiet and max ages that agree for good, the topic is empty for good at
\* some time (SyncGateway), if Redis returns the same keys in the same order:
\* slices.Equal compares lists (sync_gateway.go:511), here the links are sets.
Settles == <>[]SameAges => <>[](topic = <<>>)

\* A sync of the gateways ends, and with it its goroutines, when its calls are
\* answered (SyncAllGateways, DeleteOutdatedGateways).
RunsEnd == \A r \in Runs : run[r].pc = "list" ~> run[r].pc \in {"done", "off"}

\* A sync during which no user, request or other sync does anything and no call
\* fails deletes no gateway that has its hub, whatever the messages that its own
\* writes cause do meanwhile (DeleteOutdatedGateways).
FaultlessSyncKeeps ==
  [][\A r \in Runs, e \in Eui :
       run[r].quiet /\ ~run[r].failed /\ Deletes(r, e) => ~Matched(e)]_vars

\* A hub without a gateway is one whose EUI somebody else's gateway has.
DuplicateHasGateway ==
  \A r \in Runs : Completed(r) =>
    \A h \in Hub : Syncable(h) /\ Tenant(h) # None => gw[hub[h].eui] # None

\* "no matching gateway found in repo, delete from chirpstack": the same of a
\* sync with failing calls.
QuietSyncKeeps ==
  [][\A r \in Runs, e \in Eui : run[r].quiet /\ Deletes(r, e) => ~Matched(e)]_vars

\* ... and of any sync.
MatchedGatewayKept ==
  [][\A r \in Runs, e \in Eui : Deletes(r, e) => ~Matched(e)]_vars

\* "gateway is in different application, do not delete": the DELETE of a hub
\* removes a gateway of its owner's tenant only.
DeletesOwnGateway ==
  [][proc[Consumer].pc = "delete" /\ proc'[Consumer].pc = "idle" =>
       \A e \in Eui : gw[e] # None /\ gw'[e] = None =>
         gw[e].tenant = Tenant(proc[Consumer].h)]_vars

\* "3. Annotate Cert Expiration ... 4. Notify User 30d before expiration": the
\* hub of an issued certificate keeps the expiration that the warning needs.
AnnotationKept == \A h \in issued : hub[h].exp

\* PATCH /sync/gateways answers 500 ("@Failure 500") if a gateway failed.
FailureReported == \A r \in Runs : run[r].pc = "done" /\ run[r].failed => run[r].err
=============================================================================
