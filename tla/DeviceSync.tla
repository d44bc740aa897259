----------------------------- MODULE DeviceSync ------------------------------
(***************************************************************************)
(* The reconciliation of platform devices with ChirpStack devices, their    *)
(* keys and activations (controller/sync_device.go): the consumer of the    *)
(* "devices" topic, and SyncAllDevices followed by DeleteOutdatedDevices at *)
(* startup and on PATCH /sync/devices.                                      *)
(*                                                                         *)
(* SyncDevice works on a copy of the device, reads device, activation and   *)
(* keys in ChirpStack one after the other, decides what to do, and does it  *)
(* call by call.  An application is named by its owner: module Provision    *)
(* models how it is found or created.  Which owners have an email, the name *)
(* of their tenant, does not change.                                       *)
(***************************************************************************)
EXTENDS Naturals, Sequences, FiniteSets

CONSTANTS
  Dev, Owner,
  OwnerOf,      \* OwnerOf[d]: the owner of a device
  Account,      \* owners whose user in Keycloak has an email
  Eui,          \* EUIs, numbers in the order in which ChirpStack lists them
  Name, Key,    \* names of devices, key sets of OTAA devices
  Session,      \* session key sets of ABP devices
  Lower,        \* do users write local ids in lower case: TRUE, FALSE, or both
  Otaa,         \* the device profile has SupportsOtaa
  Consumer,     \* the goroutine of the "devices" topic
  Boot, Patch,  \* sync runs: at startup, on PATCH /sync/devices
  PageSize,     \* the limit of ChirpStack's device lists
  CallsFail,    \* remote calls may fail or lose their reply
  MaxEdits,     \* bound on what users and devices do
  MaxCrashes,   \* bound on restarts of the connector
  None

Runs == {Boot} \cup Patch
Goroutine == {Consumer} \cup (Runs \X Dev)

ASSUME DeviceAssumption ==
  /\ OwnerOf \in [Dev -> Owner] /\ Account \subseteq Owner
  /\ Eui \subseteq Nat
  /\ Consumer \notin Runs \X Dev
  /\ None \notin Dev \cup Eui \cup Key \cup Session
ASSUME BoundAssumption ==
  /\ PageSize \in Nat \ {0} /\ MaxEdits \in Nat /\ MaxCrashes \in Nat
  /\ Lower \subseteq BOOLEAN /\ Otaa \in BOOLEAN /\ CallsFail \in BOOLEAN

VARIABLES
  dev,      \* device repository: the devices
  chirp,    \* ChirpStack: application and name of each device
  keys,     \* ChirpStack: keys
  sess,     \* ChirpStack: activation, and whether its frame counters moved
  topic,    \* Kafka: messages about devices that are not handled
  proc,     \* goroutines that handle a message or run SyncDevice
  run,      \* progress of SyncAllDevices + DeleteOutdatedDevices
  sweep,    \* its goroutines, one for the application of each owner
  edits, crashes

vars == <<dev, chirp, keys, sess, topic, proc, run, sweep, edits, crashes>>

-----------------------------------------------------------------------------
(* State.                                                                  *)

Device ==
  [eui : Eui, lower : BOOLEAN, name : Name, key : Key \cup {None},
   act : Session \cup {None}, dup : BOOLEAN]
ChirpDevice == [app : Owner, name : Name]
Joined == "joined"   \* the session keys of an OTAA join
Activation == [key : Session \cup {Joined}, moved : BOOLEAN]
Message ==
  [cmd : {"PUT"}, d : Dev] \cup [cmd : {"DELETE"}, d : Dev, eui : Eui]
Op == {"create", "update", "createKeys", "updateKeys", "activate"}

Idle == [pc |-> "idle", d |-> None, copy |-> None, active |-> None, todo |-> {}]
Syncing(d) == [Idle EXCEPT !.pc = "lower", !.d = d, !.copy = dev[d]]
NoRun == [pc |-> "off", swept |-> {}, failed |-> FALSE, err |-> FALSE,
          quiet |-> FALSE]
NoSweep == [pc |-> "idle", offset |-> 0, page |-> {}]

Worker ==
  [pc : {"idle", "lower", "get", "duplicate", "activation", "keys", "device",
         "setKeys", "activate", "delete"},
   d : Dev \cup {None}, copy : Device \cup {None},
   active : Activation \cup {None}, todo : SUBSET Op]
Run ==
  [pc : {"off", "list", "syncing", "listUsers", "sweeping", "done"},
   swept : SUBSET Eui, failed : BOOLEAN, err : BOOLEAN, quiet : BOOLEAN]
Sweep == [pc : {"idle", "list", "match", "delete"}, offset : Nat, page : SUBSET Eui]

\* None is no device, and no activation.
ASSUME NoneAssumption == None \notin Device \cup ChirpDevice \cup Activation

\* The types of the stores and of the connector's goroutines.
TypeOK ==
  /\ dev \in [Dev -> Device \cup {None}]
  /\ chirp \in [Eui -> ChirpDevice \cup {None}]
  /\ keys \in [Eui -> Key \cup {None}]
  /\ sess \in [Eui -> Activation \cup {None}]
  /\ topic \in Seq(Message)
  /\ proc \in [Goroutine -> Worker]
  /\ run \in [Runs -> Run]
  /\ sweep \in [Runs \X Owner -> Sweep]
  /\ edits \in 0..MaxEdits
  /\ crashes \in 0..MaxCrashes

-----------------------------------------------------------------------------
(* SyncDevice.                                                             *)

chirpstack == <<chirp, keys, sess>>
others == <<sweep, edits, crashes>>
Put(d) == Append(topic, [cmd |-> "PUT", d |-> d])

\* The handler returns: the consumer takes the next message whatever the
\* outcome, a goroutine of a run reports an error.
Return(g, ok) ==
  /\ proc' = [proc EXCEPT ![g] = Idle]
  /\ run' = IF g = Consumer \/ ok THEN run
            ELSE [run EXCEPT ![g[1]].failed = TRUE]
Handled(g, q) == IF g = Consumer THEN Tail(q) ELSE q
Stop(g, ok) == Return(g, ok) /\ topic' = Handled(g, topic)
At(g, p) == proc[g].pc = p
E(g) == proc[g].copy.eui

CallError(g) ==
  /\ CallsFail
  /\ proc[g].pc # "idle"
  /\ Stop(g, FALSE)
  /\ UNCHANGED <<dev, chirpstack, others>>

\* UpdateDevice of the whole copy.  A device that is gone stays gone.
UpdateDevice(g, copy, next) ==
  LET d == proc[g].d IN
  IF dev[d] = None THEN Stop(g, FALSE) /\ UNCHANGED dev
  ELSE /\ dev' = [dev EXCEPT ![d] = copy]
       /\ IF next = "idle"
          THEN /\ Return(g, TRUE) \/ (CallsFail /\ Return(g, FALSE))
               /\ topic' = Handled(g, Put(d))
          ELSE /\ proc' = [proc EXCEPT ![g].copy = copy, ![g].pc = next]
               /\ topic' = Put(d)
               /\ UNCHANGED run

\* Faults: the local id is never lowered, or stored even if it is.
LowerLocalIdNot(g) ==
  /\ At(g, "lower")
  /\ proc' = [proc EXCEPT ![g].pc = "get"]
  /\ UNCHANGED <<dev, chirpstack, topic, run, others>>
LowerLocalIdAlways(g) ==
  /\ At(g, "lower")
  /\ UpdateDevice(g, [proc[g].copy EXCEPT !.lower = TRUE], "get")
  /\ UNCHANGED <<chirpstack, others>>

\* The local id is stored in lower case first.
LowerLocalId(g) ==
  /\ At(g, "lower")
  /\ IF proc[g].copy.lower
     THEN proc' = [proc EXCEPT ![g].pc = "get"] /\ UNCHANGED <<dev, topic, run>>
     ELSE UpdateDevice(g, [proc[g].copy EXCEPT !.lower = TRUE], "get")
  /\ UNCHANGED <<chirpstack, others>>

\* prepareChirpDevice fails for an owner without email.  Then Get: the device is
\* new, another application's, or to be compared.
GetDevice(g) ==
  /\ At(g, "get")
  /\ LET found == chirp[E(g)]
         p == proc[g]
         new == {"create"} \cup (IF p.copy.key # None THEN {"createKeys"} ELSE {})
                           \cup (IF p.copy.act # None THEN {"activate"} ELSE {})
     IN  IF OwnerOf[p.d] \notin Account THEN Stop(g, FALSE)
         ELSE /\ proc' = [proc EXCEPT ![g] =
                IF found = None THEN [p EXCEPT !.pc = "device", !.todo = new]
                ELSE IF found.app # OwnerOf[p.d] THEN [p EXCEPT !.pc = "duplicate"]
                ELSE [p EXCEPT !.pc = "activation",
                        !.todo = IF found.name # p.copy.name THEN {"update"} ELSE {}]]
              /\ UNCHANGED <<topic, run>>
  /\ UNCHANGED <<dev, chirpstack, others>>

\* Fault: the mark is made on the copy and never stored.
MarkDuplicateNot(g) ==
  /\ At(g, "duplicate")
  /\ Stop(g, TRUE)
  /\ UNCHANGED <<dev, chirpstack, others>>
MarkDuplicate(g) ==
  /\ At(g, "duplicate")
  /\ IF proc[g].copy.dup
     THEN Stop(g, TRUE) /\ UNCHANGED dev
     ELSE UpdateDevice(g, [proc[g].copy EXCEPT !.dup = TRUE], "idle")
  /\ UNCHANGED <<chirpstack, others>>

\* GetActivation: without one the keys are to be created, if there are any.  Any
\* error of the call counts as none then (CallError is one of the call before).
GetActivation(g) ==
  /\ At(g, "activation")
  /\ LET p == proc[g] IN
     IF chirp[E(g)] = None /\ p.copy.key = None THEN Stop(g, FALSE)
     ELSE \E active \in {sess[E(g)]}
            \cup (IF CallsFail /\ p.copy.key # None THEN {None} ELSE {}) :
          /\ proc' = [proc EXCEPT ![g].pc = "keys", ![g].active = active,
                ![g].todo = IF active = None /\ p.copy.key # None
                            THEN @ \cup {"createKeys"} ELSE @]
          /\ UNCHANGED <<topic, run>>
  /\ UNCHANGED <<dev, chirpstack, others>>

\* Fault: the comparison never finds a difference.
DifferNever(received, built) == {FALSE}
\* reflect.DeepEqual of a received and a built message: the unexported fields
\* of equal messages may differ.
Differ(received, built) == IF received = built THEN BOOLEAN ELSE {TRUE}

\* GetKeys, and the decision.  Keys to be created are no reason to go on.
GetKeys(g) ==
  /\ At(g, "keys")
  /\ LET p == proc[g]
         wanted == IF p.copy.act = None THEN None
                   ELSE [key |-> p.copy.act, moved |-> FALSE]
     IN \E k \in Differ(keys[E(g)], p.copy.key), a \in Differ(p.active, wanted) :
          LET todo == p.todo
                \cup (IF /\ p.copy.key # None /\ "createKeys" \notin p.todo
                         /\ Otaa /\ k
                      THEN {"updateKeys"} ELSE {})
                \cup (IF p.copy.act # None /\ a THEN {"activate"} ELSE {})
          IN  IF todo \subseteq {"createKeys"} THEN Stop(g, TRUE)
              ELSE /\ proc' = [proc EXCEPT ![g].todo = todo, ![g].pc = "device"]
                   /\ UNCHANGED <<topic, run>>
  /\ UNCHANGED <<dev, chirpstack, others>>

\* The next call of g, or its return; a reply may be lost.
Continue(g, next) ==
  \/ /\ next # "idle"
     /\ proc' = [proc EXCEPT ![g].pc = next]
     /\ UNCHANGED <<topic, run>>
  \/ next = "idle" /\ Stop(g, TRUE)
  \/ CallsFail /\ Stop(g, FALSE)

\* Fault: the application id is the device's id.
WriteDeviceById(g) ==
  /\ At(g, "device")
  /\ Continue(g, "setKeys")
  /\ chirp' = [chirp EXCEPT ![E(g)] =
                 [app |-> proc[g].d, name |-> proc[g].copy.name]]
  /\ UNCHANGED <<dev, keys, sess, others>>
\* Create fails for an EUI that exists, Update for one that does not.
WriteDevice(g) ==
  /\ At(g, "device")
  /\ LET todo == proc[g].todo
         new == [app |-> OwnerOf[proc[g].d], name |-> proc[g].copy.name]
     IN IF todo \cap {"create", "update"} = {}
        THEN Continue(g, "setKeys") /\ UNCHANGED chirp
        ELSE IF ("create" \in todo) = (chirp[E(g)] = None)
        THEN Continue(g, "setKeys") /\ chirp' = [chirp EXCEPT ![E(g)] = new]
        ELSE Stop(g, FALSE) /\ UNCHANGED chirp
  /\ UNCHANGED <<dev, keys, sess, others>>

\* CreateKeys fails for keys that exist, UpdateKeys for keys that do not.
WriteKeys(g) ==
  /\ At(g, "setKeys")
  /\ LET todo == proc[g].todo
         next == IF "activate" \in todo THEN "activate" ELSE "idle"
     IN IF todo \cap {"createKeys", "updateKeys"} = {}
        THEN Continue(g, next) /\ UNCHANGED keys
        ELSE IF /\ chirp[E(g)] # None
                /\ ("createKeys" \in todo) = (keys[E(g)] = None)
        THEN Continue(g, next) /\ keys' = [keys EXCEPT ![E(g)] = proc[g].copy.key]
        ELSE Stop(g, FALSE) /\ UNCHANGED keys
  /\ UNCHANGED <<dev, chirp, sess, others>>

Activate(g) ==
  /\ At(g, "activate")
  /\ IF chirp[E(g)] # None
     THEN /\ Continue(g, "idle")
          /\ sess' = [sess EXCEPT ![E(g)] =
                        [key |-> proc[g].copy.act, moved |-> FALSE]]
     ELSE Stop(g, FALSE) /\ UNCHANGED sess
  /\ UNCHANGED <<dev, chirp, keys, others>>

Work(g) == \/ LowerLocalId(g) \/ GetDevice(g) \/ MarkDuplicate(g)
           \/ GetActivation(g) \/ GetKeys(g)
           \/ WriteDevice(g) \/ WriteKeys(g) \/ Activate(g) \/ CallError(g)

-----------------------------------------------------------------------------
(* The consumer of the topic.                                              *)

\* ChirpStack forgets a device with its keys and its activation.
Forget(e) ==
  /\ chirp' = [chirp EXCEPT ![e] = None]
  /\ keys' = [keys EXCEPT ![e] = None]
  /\ sess' = [sess EXCEPT ![e] = None]

\* PUT: ListExtendedDevices must return the device.
HandlePut ==
  /\ At(Consumer, "idle")
  /\ topic # <<>> /\ Head(topic).cmd = "PUT"
  /\ LET d == Head(topic).d IN
     \/ /\ CallsFail \/ dev[d] = None
        /\ topic' = Tail(topic)
        /\ UNCHANGED proc
     \/ /\ dev[d] # None
        /\ proc' = [proc EXCEPT ![Consumer] = Syncing(d)]
        /\ UNCHANGED topic
  /\ UNCHANGED <<dev, chirpstack, run, others>>

\* DELETE: Get the device; one of another application is left alone, and that of
\* an owner without email.
InApp(e, o) == chirp[e] # None /\ chirp[e].app = o
HandleDelete ==
  /\ At(Consumer, "idle")
  /\ topic # <<>> /\ Head(topic).cmd = "DELETE"
  /\ LET o == OwnerOf[Head(topic).d]
         own == o \in Account /\ InApp(Head(topic).eui, o) IN
     \/ /\ CallsFail \/ ~own
        /\ topic' = Tail(topic)
        /\ UNCHANGED proc
     \/ /\ own
        /\ proc' = [proc EXCEPT ![Consumer].pc = "delete"]
        /\ UNCHANGED topic
  /\ UNCHANGED <<dev, chirpstack, run, others>>

DeleteDevice ==
  /\ At(Consumer, "delete")
  /\ Forget(Head(topic).eui)
  /\ Stop(Consumer, TRUE)
  /\ UNCHANGED <<dev, others>>

Consume == HandlePut \/ HandleDelete \/ DeleteDevice

-----------------------------------------------------------------------------
(* SyncAllDevices, then DeleteOutdatedDevices.                             *)

Calm == topic = <<>> /\ \A g \in Goroutine : At(g, "idle")
Disturb(r) == [s \in Runs |-> [r[s] EXCEPT !.quiet = FALSE]]
\* The API starts when the sync of New() has returned.
Serving == run[Boot].pc = "done"

\* PATCH /sync/devices arrives.
StartRun(r) ==
  /\ r \in Patch /\ Serving
  /\ run[r].pc \in {"off", "done"}
  /\ run' = [Disturb(run) EXCEPT ![r] =
       [NoRun EXCEPT !.pc = "list",
          !.quiet = Calm /\ \A s \in Runs \ {r} : run[s].pc \in {"off", "done"}]]
  /\ UNCHANGED <<dev, chirpstack, topic, proc, others>>

ListDevices(r) ==
  /\ run[r].pc = "list"
  /\ \/ /\ proc' = [g \in Goroutine |->
             IF g # Consumer /\ g[1] = r /\ dev[g[2]] # None
             THEN Syncing(g[2]) ELSE proc[g]]
        /\ run' = [run EXCEPT ![r].pc = "syncing"]
     \/ /\ CallsFail   \* the list of device types, or that of their devices
        /\ \E reported \in BOOLEAN :
             run' = [run EXCEPT ![r].pc = "listUsers", ![r].failed = TRUE,
                                ![r].err = @ \/ reported]
        /\ UNCHANGED proc
  /\ UNCHANGED <<dev, chirpstack, topic, others>>

\* SyncAllDevices returns; the errors of its goroutines are joined to a variable
\* of the loop, not to its result.
WaitSynced(r) ==
  /\ run[r].pc = "syncing"
  /\ \A d \in Dev : At(<<r, d>>, "idle")
  /\ run' = [run EXCEPT ![r].pc = "listUsers"]
  /\ UNCHANGED <<dev, chirpstack, topic, proc, others>>

\* GetUsers and the list of tenants; a goroutine for each one that has a user's
\* email for its name, none for the others.
ListOwners(r) ==
  /\ run[r].pc = "listUsers"
  /\ \/ /\ run' = [run EXCEPT ![r].pc = "sweeping"]
        /\ sweep' = [x \in Runs \X Owner |->
             IF x[1] = r /\ x[2] \in Account THEN [NoSweep EXCEPT !.pc = "list"] ELSE sweep[x]]
     \/ /\ CallsFail
        /\ run' = [run EXCEPT ![r].pc = "done", ![r].failed = TRUE, ![r].err = TRUE]
        /\ UNCHANGED sweep
  /\ UNCHANGED <<dev, chirpstack, topic, proc, edits, crashes>>

\* A page of the application's devices, in the order of their EUIs.
InOrder(o) == {e \in Eui : InApp(e, o)}
Rank(o, e) == Cardinality({f \in InOrder(o) : f < e})
Page(o, offset) == {e \in InOrder(o) : Rank(o, e) \in offset..(offset + PageSize - 1)}

SweepFails(x) ==
  /\ CallsFail
  /\ sweep[x].pc # "idle"
  /\ sweep' = [sweep EXCEPT ![x] = NoSweep]
  /\ run' = [run EXCEPT ![x[1]].failed = TRUE]
  /\ UNCHANGED <<dev, chirpstack, topic, proc, edits, crashes>>

ListPage(x) ==
  /\ sweep[x].pc = "list"
  /\ LET page == Page(x[2], sweep[x].offset) IN
       sweep' = [sweep EXCEPT ![x] =
         IF page = {} THEN NoSweep
         ELSE [pc |-> "match", offset |-> @.offset + PageSize, page |-> page]]
  /\ UNCHANGED <<dev, chirpstack, topic, proc, run, edits, crashes>>

\* Fault: the offset does not advance.
NextPageAgain(x, full) ==
  IF full THEN [NoSweep EXCEPT !.pc = "list"] ELSE NoSweep
\* A full page is followed by the next one.
NextPage(x, full) ==
  IF full THEN [sweep[x] EXCEPT !.pc = "list", !.page = {}] ELSE NoSweep

\* ListDevices of the owner with these local ids, which are in lower case.  As many
\* as the page has need no look; otherwise what they leave of the page misses in
\* the platform.
Platform(o, page) == {d \in Dev : /\ dev[d] # None /\ dev[d].lower
                                  /\ OwnerOf[d] = o /\ dev[d].eui \in page}
Match(x) ==
  /\ sweep[x].pc = "match"
  /\ LET s == sweep[x]
         platform == Platform(x[2], s.page)
         missing == s.page \ {dev[d].eui : d \in platform}
         full == Cardinality(s.page) = PageSize
     IN  sweep' = [sweep EXCEPT ![x] =
           IF Cardinality(platform) = Cardinality(s.page) \/ missing = {}
           THEN NextPage(x, full)
           ELSE [s EXCEPT !.pc = "delete", !.page = missing,
                          !.offset = IF full THEN @ ELSE 0]]
  /\ UNCHANGED <<dev, chirpstack, topic, proc, run, edits, crashes>>

DeleteMissing(x, e) ==
  /\ sweep[x].pc = "delete" /\ e \in sweep[x].page
  /\ Forget(e)
  /\ LET s == sweep[x] IN
       sweep' = [sweep EXCEPT ![x] =
         IF s.page = {e} THEN NextPage(x, s.offset # 0)
         ELSE [s EXCEPT !.page = @ \ {e}]]
  /\ run' = [run EXCEPT ![x[1]].swept = @ \cup {e}]
  /\ UNCHANGED <<dev, topic, proc, edits, crashes>>

\* Fault: it returns without wg.Wait().
WaitSweptNot(r) ==
  /\ run[r].pc = "sweeping"
  /\ run' = [run EXCEPT ![r].pc = "done"]
  /\ UNCHANGED <<dev, chirpstack, topic, proc, others>>
\* DeleteOutdatedDevices returns nil, without sErr.
WaitSwept(r) ==
  /\ run[r].pc = "sweeping"
  /\ \A o \in Owner : sweep[<<r, o>>].pc = "idle"
  /\ run' = [run EXCEPT ![r].pc = "done"]
  /\ UNCHANGED <<dev, chirpstack, topic, proc, others>>

RunStep(r) ==
  \/ ListDevices(r) \/ WaitSynced(r) \/ ListOwners(r) \/ WaitSwept(r)
  \/ \E o \in Owner : \/ ListPage(<<r, o>>) \/ Match(<<r, o>>)
                      \/ SweepFails(<<r, o>>)
                      \/ \E e \in Eui : DeleteMissing(<<r, o>>, e)

-----------------------------------------------------------------------------
(* Users, devices, and the connector's crashes.                            *)

Edit == edits < MaxEdits /\ edits' = edits + 1 /\ run' = Disturb(run)

\* A user creates a device or changes it, in any case of the local id.
PutDevice(d) ==
  /\ Edit
  /\ \E new \in Device :
       /\ new.lower \in Lower
       /\ new.dup = (dev[d] # None /\ dev[d].dup)
       /\ dev' = [dev EXCEPT ![d] = new]
  /\ topic' = Put(d)
  /\ UNCHANGED <<chirpstack, proc, sweep, crashes>>

DropDevice(d) ==
  /\ Edit
  /\ dev[d] # None
  /\ dev' = [dev EXCEPT ![d] = None]
  /\ topic' = Append(topic, [cmd |-> "DELETE", d |-> d, eui |-> dev[d].eui])
  /\ UNCHANGED <<chirpstack, proc, sweep, crashes>>

\* A device joins with its keys, or sends a frame.
Join(e) ==
  /\ Edit
  /\ Otaa /\ keys[e] # None
  /\ sess' = [sess EXCEPT ![e] = [key |-> Joined, moved |-> FALSE]]
  /\ UNCHANGED <<dev, chirp, keys, topic, proc, sweep, crashes>>
Uplink(e) ==
  /\ Edit
  /\ sess[e] # None
  /\ sess' = [sess EXCEPT ![e].moved = TRUE]
  /\ UNCHANGED <<dev, chirp, keys, topic, proc, sweep, crashes>>

BootRuns(quiet) ==
  [r \in Runs |-> IF r = Boot THEN [NoRun EXCEPT !.pc = "list", !.quiet = quiet]
                  ELSE NoRun]
\* The connector restarts.  Messages may be handled again or lost.
Restart ==
  /\ crashes < MaxCrashes
  /\ crashes' = crashes + 1
  /\ \E k \in 1..(Len(topic) + 1) :
       /\ topic' = SubSeq(topic, k, Len(topic))
       /\ run' = BootRuns(k = Len(topic) + 1)
  /\ proc' = [g \in Goroutine |-> Idle]
  /\ sweep' = [x \in Runs \X Owner |-> NoSweep]
  /\ UNCHANGED <<dev, chirpstack, edits>>

-----------------------------------------------------------------------------
\* ChirpStack may have devices of owners that have no email any more.
Init ==
  /\ dev = [d \in Dev |-> None]
  /\ chirp \in [Eui -> {c \in ChirpDevice : c.app \notin Account} \cup {None}]
  /\ keys = [e \in Eui |-> None]
  /\ sess = [e \in Eui |-> None]
  /\ topic = <<>>
  /\ proc = [g \in Goroutine |-> Idle]
  /\ run = BootRuns(TRUE)
  /\ sweep = [x \in Runs \X Owner |-> NoSweep]
  /\ edits = 0
  /\ crashes = 0

Next ==
  \/ \E g \in Goroutine : Work(g)
  \/ Consume
  \/ \E r \in Runs : StartRun(r) \/ RunStep(r)
  \/ \E d \in Dev : PutDevice(d) \/ DropDevice(d)
  \/ \E e \in Eui : Join(e) \/ Uplink(e)
  \/ Restart

Spec == Init /\ [][Next]_vars

\* Calls return within their timeouts and every goroutine runs.
FairSpec == /\ Spec
            /\ \A g \in Goroutine : WF_vars(Work(g))
            /\ WF_vars(Consume)
            /\ \A r \in Runs : WF_vars(RunStep(r))

-----------------------------------------------------------------------------
(* Properties.                                                             *)

Completed(r) == run[r].pc = "done" /\ run[r].quiet /\ ~run[r].failed
Matched(e) == \E d \in Dev : dev[d] # None /\ dev[d].eui = e
                             /\ OwnerOf[d] = chirp[e].app

\* After an undisturbed sync without failures every device is in its owner's
\* application, or marked because another device has its EUI or had it until the
\* same sync deleted that one, whatever failures, restarts and lost messages came
\* before (SyncAllDevices, DeleteOutdatedDevices).
SyncCreatesDevices ==
  \A r \in Runs : Completed(r) =>
    \A d \in Dev : dev[d] # None =>
      LET e == dev[d].eui IN
      InApp(e, OwnerOf[d]) \/ (dev[d].dup /\ (chirp[e] # None \/ e \in run[r].swept))

\* ... the only claim to an ABP device's EUI has its session in ChirpStack, even
\* if an earlier sync stopped before Activate, unless the EUI was another's until
\* this sync ...
SyncActivates ==
  \A r \in Runs : Completed(r) =>
    \A d \in Dev : /\ dev[d] # None /\ dev[d].act # None
                   /\ InApp(dev[d].eui, OwnerOf[d]) /\ dev[d].eui \notin run[r].swept
                   /\ \A x \in Dev \ {d} : dev[x] # None => dev[x].eui # dev[d].eui
      => sess[dev[d].eui] # None /\ sess[dev[d].eui].key = dev[d].act

\* ... and no device in the application of an owner with an email misses in the
\* platform, if the sync had nothing to delete or the devices, with those deleted,
\* fit into one page: after a deletion the offset of the next page skips devices
\* (sync_device.go:321-325, device_paging.cfg).  The devices of an owner differ in
\* their EUIs: otherwise the number of those found may be that of the page though
\* one is missing (sync_device.go:342).
Fits(r) ==
  \/ run[r].swept = {}
  \/ Cardinality({e \in Eui : chirp[e] # None} \cup run[r].swept) <= PageSize
OneEach ==
  \A d, x \in Dev : d # x /\ dev[d] # None /\ dev[x] # None /\ OwnerOf[d] = OwnerOf[x]
    => dev[d].eui # dev[x].eui
SyncRemovesDevices ==
  \A r \in Runs : Completed(r) /\ Fits(r) /\ OneEach =>
    \A e \in Eui : chirp[e] # None /\ chirp[e].app \in Account => Matched(e)

SweepDeletes(r, e) ==
  /\ \E o \in Owner : /\ sweep[<<r, o>>].pc = "delete"
                      /\ sweep'[<<r, o>>] # sweep[<<r, o>>]
  /\ chirp[e] # None /\ chirp'[e] = None
\* A sync during which nothing else happens and no call fails deletes no device
\* that the platform has, in whatever case its local id was stored
\* (DeleteOutdatedDevices).
FaultlessSyncKeeps ==
  [][\A r \in Runs, e \in Eui :
       run[r].quiet /\ ~run[r].failed /\ SweepDeletes(r, e) => ~Matched(e)]_vars

\* A device that is not in ChirpStack is one whose EUI another device has there.
DuplicateHasDevice ==
  \A r \in Runs : Completed(r) =>
    \A d \in Dev : dev[d] # None => chirp[dev[d].eui] # None

\* "misses in platform devices --> delete": so the devices of every page.
SyncRemovesAll ==
  \A r \in Runs : Completed(r) =>
    \A e \in Eui : chirp[e] # None /\ chirp[e].app \in Account => Matched(e)

\* "misses in platform devices --> delete": the same of a sync with failing calls.
QuietSyncKeeps ==
  [][\A r \in Runs, e \in Eui : run[r].quiet /\ SweepDeletes(r, e) => ~Matched(e)]_vars

\* The updates of devices that handling a message causes come to an end.
Settles == <>[](topic = <<>>)

\* Sync runs end, the paging of DeleteOutdatedDevices too, when their calls are
\* answered.
RunsEnd == \A r \in Runs : run[r].pc = "list" ~> run[r].pc \in {"done", "off"}

\* "nothing to do": after an undisturbed sync without failures ChirpStack has the
\* keys of an OTAA device.
SyncSetsKeys ==
  \A r \in Runs : Completed(r) =>
    \A d \in Dev : /\ dev[d] # None /\ dev[d].key # None /\ Otaa
                   /\ InApp(dev[d].eui, OwnerOf[d])
                   /\ \A x \in Dev \ {d} : dev[x] # None => dev[x].eui # dev[d].eui
      => keys[dev[d].eui] = dev[d].key

\* PATCH /sync/devices answers 500 ("@Failure 500") if a device failed.
FailureReported == \A r \in Runs : run[r].pc = "done" /\ run[r].failed => run[r].err
=============================================================================
