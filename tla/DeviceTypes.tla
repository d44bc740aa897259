----------------------------- MODULE DeviceTypes -----------------------------
(***************************************************************************)
(* Device types of the platform and who writes them                        *)
(* (controller/sync_device_types.go, HandleEvent of controller/event.go):   *)
(*   - SyncAllDeviceProfiles, at startup and on PATCH                      *)
(*     /sync/device-profiles, with a goroutine for each profile;           *)
(*   - the consumer of ChirpStack's request stream in Redis, for profiles   *)
(*     that are created or updated;                                        *)
(*   - ensureSyncedService, which adds to a cached device type the service  *)
(*     and the variables of an event that it does not know yet.            *)
(* All of them read a device type, change the copy and write it whole.     *)
(***************************************************************************)
EXTENDS Naturals, Sequences, FiniteSets

CONSTANTS
  Profile,      \* ChirpStack device profiles, numbers in their list's order
  InRegion,     \* those of a region in config.Regions
  Rev,          \* contents of a profile: name, description, flags, interval
  Type,         \* ids of device types
  ProfileOf,    \* the profile id in a device type's attributes
  Service, Var, \* services of events (ports), variables of their values
  Status,       \* the service of status events
  Event,        \* goroutines of POST /event
  Consumer,     \* the goroutine of the stream
  Boot, Patch,  \* sync runs: at startup, on PATCH /sync/device-profiles
  PageSize,     \* the limit of ChirpStack's profile lists
  Failing,      \* runs and goroutines whose calls may fail or lose their reply
  MaxEdits,     \* bound on what users and devices do
  MaxCrashes,   \* bound on restarts by the operator
  None

Runs == {Boot} \cup Patch
Syncer == {Consumer} \cup (Runs \X Profile)
Goroutine == Syncer \cup Event
DeviceType ==
  [rev : Rev,                            \* name, description, attributes
   float : BOOLEAN,                      \* "battery_level" learned from events
   svc : [Service -> (SUBSET Var) \cup {None}]]

ASSUME TypesAssumption ==
  /\ InRegion \subseteq Profile /\ Profile \subseteq Nat
  /\ ProfileOf \in [Type -> Profile]
  /\ Status \notin Service
  /\ Consumer \notin Runs \X Profile /\ Event \cap Syncer = {}
  /\ None \notin Rev \cup DeviceType /\ \A set \in SUBSET Var : set # None
ASSUME TypesBounds ==
  /\ PageSize \in Nat \ {0} /\ MaxEdits \in Nat /\ MaxCrashes \in Nat
  /\ Failing \subseteq Runs \cup {Consumer} \cup Event

VARIABLES
  profile,  \* ChirpStack: contents of the profiles
  stream,   \* Redis: entries about profiles that the consumer will read
  conn,     \* its position: no XREAD yet, an XREAD of "$", an entry's id
  type,     \* device repository: device types
  cache,    \* IotCache (memcached): device types read or written lately
  proc,     \* goroutines that sync a profile or handle an event
  run,      \* progress of SyncAllDeviceProfiles
  panicked, \* a goroutine has ended the process
  raced,    \* history: device types with copies of two goroutines at once
  doubled,  \* history: profiles for which two goroutines created at once
  edits, crashes

stores == <<profile, stream, conn, type, cache>>
vars == <<stores, proc, run, panicked, raced, doubled, edits, crashes>>

-----------------------------------------------------------------------------
(* State.                                                                  *)

Gone == "gone"   \* a profile that was deleted; its id is not used again
NoCopy == [t \in Type |-> None]
Idle == [pc |-> "idle", p |-> None, rev |-> None, copy |-> NoCopy,
         s |-> None, set |-> {}, null |-> {}]
NoRun == [pc |-> "off", offset |-> 0, err |-> FALSE, failed |-> FALSE,
          quiet |-> FALSE]

Worker ==
  [pc : {"idle", "get", "item", "types", "set", "create", "learn", "forward"},
   p : Profile \cup {None}, rev : Rev \cup {None},
   copy : [Type -> DeviceType \cup {None}],
   s : Service \cup {Status, None}, set : SUBSET Var, null : SUBSET Var]
Run == [pc : {"off", "list", "syncing", "done"}, offset : Nat,
        err : BOOLEAN, failed : BOOLEAN, quiet : BOOLEAN]

\* The types of the stores and of the connector's goroutines.
TypeOK ==
  /\ profile \in [Profile -> Rev \cup {None, Gone}]
  /\ stream \in Seq(Profile)
  /\ conn \in {"off", "waiting", "on"}
  /\ type \in [Type -> DeviceType \cup {None}]
  /\ cache \in [Type -> DeviceType \cup {None}]
  /\ proc \in [Goroutine -> Worker]
  /\ run \in [Runs -> Run]
  /\ panicked \in BOOLEAN
  /\ raced \subseteq Type
  /\ doubled \subseteq Profile
  /\ edits \in 0..MaxEdits
  /\ crashes \in 0..MaxCrashes

At(g, p) == proc[g].pc = p
Live(p) == profile[p] \in Rev
TypesOf(p) == {t \in Type : ProfileOf[t] = p /\ type[t] # None}
Holds(g, t) == proc[g].copy[t] # None
CallsFail(g) == g \in Failing \/ \E r \in Runs \cap Failing : g \in {r} \X Profile

\* What the properties know of the past.  Copies of a type are in order again
\* when none is left.
Observed(lost) ==
  /\ raced' = {t \in Type :
       /\ cache'[t] # None \/ \E g \in Goroutine : Holds(g, t)'
       /\ \/ t \in raced \cup lost
          \/ \E g, h \in Goroutine : g # h /\ Holds(g, t)' /\ Holds(h, t)'}
  /\ doubled' = doubled \cup {p \in Profile :
       \E g, h \in Syncer : /\ g # h /\ proc'[g].p = p /\ proc'[h].p = p
                            /\ At(g, "create")' /\ At(h, "create")'}
Disturbed(g) ==
  [r \in Runs |->
     [run[r] EXCEPT !.quiet = @ /\ g \in Runs \X Profile /\ g[1] = r]]

-----------------------------------------------------------------------------
(* SyncDeviceProfile.                                                      *)

\* Faults: services are built anew; the variables of "status" are not compared.
PreparedBare(base, rev) == [rev |-> rev, float |-> FALSE, svc |-> [s \in Service |-> None]]
NeedsUpdateNameOnly(old, new) == old.rev # new.rev
\* prepareDeviceType: the content of the profile, the services of the base.
Prepared(base, rev) == [rev |-> rev, float |-> FALSE, svc |-> base.svc]
New(rev) == [rev |-> rev, float |-> FALSE, svc |-> [s \in Service |-> None]]
\* deviceTypeNeedsUpdate.  The types of the variables of "status" are compared.
NeedsUpdate(old, new) == old.rev # new.rev \/ old.float # new.float

\* A sync of a run returns.  Its error is joined to err only if err is set, and
\* is lost otherwise.
Return(g, ok) ==
  /\ proc' = [proc EXCEPT ![g] = Idle]
  /\ run' = IF g \in Runs \X Profile /\ ~ok
            THEN [run EXCEPT ![g[1]].failed = TRUE] ELSE run

\* Fault: "found" is set only for a type that needs an update.
ListTypesFoundOnUpdate(g) ==
  /\ At(g, "types")
  /\ LET old == {t \in TypesOf(proc[g].p) :
                   NeedsUpdate(type[t], Prepared(type[t], proc[g].rev))}
     IN proc' = [proc EXCEPT ![g].pc = IF old = {} THEN "create" ELSE "set",
                   ![g].copy = [t \in Type |-> IF t \in old THEN type[t] ELSE None]]
  /\ UNCHANGED <<stores, run, panicked, edits, crashes>>

\* ListDeviceTypesV3 with the profile's id.
ListTypes(g) ==
  /\ At(g, "types")
  /\ LET p == proc[g].p
         old == {t \in TypesOf(p) :
                   NeedsUpdate(type[t], Prepared(type[t], proc[g].rev))}
     IN \/ /\ TypesOf(p) = {}
           /\ proc' = [proc EXCEPT ![g].pc = "create"]
           /\ UNCHANGED run
        \/ /\ TypesOf(p) # {} /\ old = {}
           /\ Return(g, TRUE)
        \/ /\ old # {}
           /\ proc' = [proc EXCEPT ![g].pc = "set",
                         ![g].copy = [t \in Type |-> IF t \in old THEN type[t]
                                                     ELSE None]]
           /\ UNCHANGED run
  /\ UNCHANGED <<stores, panicked, edits, crashes>>

\* SetDeviceType of a type that was found, one after the other.
SetType(g) ==
  /\ At(g, "set")
  /\ \E t \in Type :
       /\ Holds(g, t)
       /\ type' = [type EXCEPT ![t] = Prepared(proc[g].copy[t], proc[g].rev)]
       /\ LET rest == [proc[g].copy EXCEPT ![t] = None] IN
          proc' = [proc EXCEPT ![g] = IF rest = NoCopy THEN Idle
                                      ELSE [@ EXCEPT !.copy = rest]]
  /\ run' = Disturbed(g)
  /\ UNCHANGED <<profile, stream, conn, cache, panicked, edits, crashes>>

\* SetDeviceType without an id.
CreateType(g) ==
  /\ At(g, "create")
  /\ \E t \in Type : /\ ProfileOf[t] = proc[g].p /\ type[t] = None
                     /\ type' = [type EXCEPT ![t] = New(proc[g].rev)]
  /\ proc' = [proc EXCEPT ![g] = Idle]
  /\ run' = Disturbed(g)
  /\ UNCHANGED <<profile, stream, conn, cache, panicked, edits, crashes>>

\* A call fails, or its reply is lost.
SyncError(g) ==
  /\ CallsFail(g)
  /\ proc[g].pc \in {"item", "types", "set", "create"}
  /\ Return(g, FALSE)
  /\ UNCHANGED <<stores, panicked, edits, crashes>>
SyncReplyLost(g) ==
  /\ CallsFail(g)
  /\ \/ /\ At(g, "set")
        /\ \E t \in Type : /\ Holds(g, t)
                           /\ type' = [type EXCEPT ![t] =
                                         Prepared(proc[g].copy[t], proc[g].rev)]
     \/ /\ At(g, "create")
        /\ \E t \in Type : /\ ProfileOf[t] = proc[g].p /\ type[t] = None
                           /\ type' = [type EXCEPT ![t] = New(proc[g].rev)]
  /\ proc' = [proc EXCEPT ![g] = Idle]
  /\ run' = [r \in Runs |-> [Disturbed(g)[r] EXCEPT
               !.failed = @ \/ g \in {r} \X Profile]]
  /\ UNCHANGED <<profile, stream, conn, cache, panicked, edits, crashes>>

-----------------------------------------------------------------------------
(* SyncAllDeviceProfiles.                                                  *)

\* The API, and PATCH with it, is there when the startup sync has ended.
StartRun(r) ==
  /\ r \in Patch /\ run[Boot].pc = "done"
  /\ run[r].pc \in {"off", "done"}
  /\ run' = [run EXCEPT ![r] = [NoRun EXCEPT !.pc = "list", !.quiet = TRUE]]
  /\ UNCHANGED <<stores, proc, panicked, edits, crashes>>

Rank(p) == Cardinality({q \in Profile : Live(q) /\ q <= p})
Page(offset) ==
  {p \in Profile : Live(p) /\ Rank(p) \in offset + 1 .. offset + PageSize}

\* Fault: the offset stays.
ListProfilesAgain(r) ==
  /\ run[r].pc = "list"
  /\ LET page == Page(0) IN
     /\ proc' = [g \in Goroutine |->
          IF g \in {r} \X (page \cap InRegion) /\ At(g, "idle")
          THEN [Idle EXCEPT !.pc = "get", !.p = g[2]] ELSE proc[g]]
     /\ run' = IF Cardinality(page) < PageSize
               THEN [run EXCEPT ![r].pc = "syncing"] ELSE run
  /\ UNCHANGED <<stores, panicked, edits, crashes>>

\* A page of profiles: a goroutine for each, those of other regions end at once.
ListProfiles(r) ==
  /\ run[r].pc = "list"
  /\ LET page == Page(run[r].offset) IN
     /\ proc' = [g \in Goroutine |->
          IF g \in {r} \X (page \cap InRegion) /\ At(g, "idle")
          THEN [Idle EXCEPT !.pc = "get", !.p = g[2]] ELSE proc[g]]
     /\ run' = IF Cardinality(page) < PageSize
               THEN [run EXCEPT ![r].pc = "syncing"]
               ELSE [run EXCEPT ![r].offset = @ + PageSize]
  /\ UNCHANGED <<stores, panicked, edits, crashes>>
ListProfilesError(r) ==
  /\ CallsFail(r)
  /\ run[r].pc = "list"
  /\ run' = [run EXCEPT ![r].pc = "syncing", ![r].err = TRUE, ![r].failed = TRUE]
  /\ UNCHANGED <<stores, proc, panicked, edits, crashes>>

\* Fault: the error of Get is not tested at all.
GetProfileUnchecked(r, p) ==
  /\ At(<<r, p>>, "get")
  /\ proc' = [proc EXCEPT ![<<r, p>>].pc = "types", ![<<r, p>>].rev = profile[p]]
  /\ UNCHANGED <<stores, run, panicked, edits, crashes>>

\* Get.  The code then tests the shared err and not the err2 of this call: with
\* err set it returns whatever it got, without err it uses a profile.
GetProfile(r, p) ==
  LET g == <<r, p>> IN
  /\ At(g, "get")
  /\ \/ run[r].err /\ Return(g, Live(p))
     \/ /\ ~run[r].err /\ Live(p)
        /\ proc' = [proc EXCEPT ![g].pc = "types", ![g].rev = profile[p]]
        /\ UNCHANGED run
  /\ UNCHANGED <<stores, panicked, edits, crashes>>

\* wg.Wait.
FinishRun(r) ==
  /\ run[r].pc = "syncing"
  /\ \A p \in Profile : At(<<r, p>>, "idle")
  /\ run' = [run EXCEPT ![r].pc = "done"]
  /\ UNCHANGED <<stores, proc, panicked, edits, crashes>>

-----------------------------------------------------------------------------
(* The consumer of the stream.                                             *)

XRead ==
  /\ conn = "off"
  /\ conn' = "waiting"
  /\ UNCHANGED <<profile, stream, type, cache, proc, run, panicked, edits, crashes>>
\* lastID is still "$": the next XREAD starts after what arrived meanwhile.
XReadError ==
  /\ CallsFail(Consumer)
  /\ conn = "waiting"
  /\ conn' = "off"
  /\ stream' = <<>>
  /\ UNCHANGED <<profile, type, cache, proc, run, panicked, edits, crashes>>

\* Fault: the first read only finds out the position.
ReceivePosition ==
  /\ conn # "off" /\ stream # <<>>
  /\ At(Consumer, "idle")
  /\ conn' = "on"
  /\ proc' = IF conn = "waiting" THEN proc
             ELSE [proc EXCEPT ![Consumer] = [Idle EXCEPT !.pc = "get", !.p = Head(stream)]]
  /\ stream' = Tail(stream)
  /\ UNCHANGED <<profile, type, cache, run, panicked, edits, crashes>>

Receive ==
  /\ conn # "off" /\ stream # <<>>
  /\ At(Consumer, "idle")
  /\ conn' = "on"
  /\ proc' = [proc EXCEPT ![Consumer] = [Idle EXCEPT !.pc = "get", !.p = Head(stream)]]
  /\ stream' = Tail(stream)
  /\ UNCHANGED <<profile, type, cache, run, panicked, edits, crashes>>

\* Get of the profile.  The message is not repeated if it fails.
GetChanged ==
  /\ At(Consumer, "get")
  /\ \/ /\ Live(proc[Consumer].p)
        /\ proc' = [proc EXCEPT ![Consumer].pc = "item",
                      ![Consumer].rev = profile[proc[Consumer].p]]
     \/ /\ ~Live(proc[Consumer].p) \/ CallsFail(Consumer)
        /\ proc' = [proc EXCEPT ![Consumer] = Idle]
  /\ UNCHANGED <<stores, run, panicked, edits, crashes>>

\* Its list item, searched by name: missing if the name has changed since.
\* Regions are not looked at.
FindItem ==
  /\ At(Consumer, "item")
  /\ LET p == proc[Consumer].p IN
     \/ /\ Live(p)
        /\ proc' = [proc EXCEPT ![Consumer].pc = "types"]
     \/ /\ profile[p] # proc[Consumer].rev
        /\ proc' = [proc EXCEPT ![Consumer] = Idle]
  /\ UNCHANGED <<stores, run, panicked, edits, crashes>>

-----------------------------------------------------------------------------
(* HandleEvent.                                                            *)

\* prepareContentVariable with the base's service: variables of the value are
\* added, those with a null value dropped, the others kept.  A JSON number is a
\* float, also the battery level of "status".
Learned(base, s, set, null) ==
  IF s = Status THEN [base EXCEPT !.float = TRUE]
  ELSE [base EXCEPT !.svc[s] = ((IF @ = None THEN {} ELSE @) \ null) \cup set]

\* The merged variables come in the order of a Go map: with two of them
\* reflect.DeepEqual may see a difference where there is none.
MayDiffer(base, s) == s # Status => Cardinality(base.svc[s]) > 1

\* GetDeviceType, from the cache if it is there.
Cached(t) == IF cache[t] # None THEN cache[t] ELSE type[t]
HandleEvent(e) ==
  /\ edits < MaxEdits
  /\ At(e, "idle") /\ run[Boot].pc = "done"
  /\ \E t \in Type, s \in Service \cup {Status}, set, null \in SUBSET Var :
       /\ type[t] # None
       /\ set \cap null = {} /\ (s = Status => set \cup null = {})
       /\ cache' = [cache EXCEPT ![t] = Cached(t)]
       /\ proc' = [proc EXCEPT ![e] =
            [Idle EXCEPT !.pc = "learn", !.copy = [NoCopy EXCEPT ![t] = Cached(t)],
                         !.s = s, !.set = set, !.null = null]]
  /\ edits' = edits + 1
  /\ UNCHANGED <<profile, stream, conn, type, run, panicked, crashes>>

\* Fault: a service that is known is not looked into.
EnsureServiceOnce(e) ==
  /\ At(e, "learn")
  /\ \E t \in Type :
       /\ Holds(e, t)
       /\ LET old == proc[e].copy[t]
              new == Learned(old, proc[e].s, proc[e].set, proc[e].null)
              known == proc[e].s # Status => old.svc[proc[e].s] # None
          IN \/ /\ known
                /\ UNCHANGED <<type, cache, run>>
             \/ /\ ~known
                /\ type' = [type EXCEPT ![t] = new]
                /\ cache' = [cache EXCEPT ![t] = new]
                /\ run' = Disturbed(e)
  /\ proc' = [proc EXCEPT ![e] = [Idle EXCEPT !.pc = "forward"]]
  /\ UNCHANGED <<profile, stream, conn, panicked, edits, crashes>>

\* ensureSyncedService: UpdateDeviceType only if the service differs.  The cache
\* then has the new type.
EnsureService(e) ==
  /\ At(e, "learn")
  /\ \E t \in Type :
       /\ Holds(e, t)
       /\ LET old == proc[e].copy[t]
              new == Learned(old, proc[e].s, proc[e].set, proc[e].null)
          IN \/ /\ new = old
                /\ UNCHANGED <<type, cache, run>>
             \/ /\ new # old \/ MayDiffer(new, proc[e].s)
                /\ type' = [type EXCEPT ![t] = new]
                /\ cache' = [cache EXCEPT ![t] = new]
                /\ run' = Disturbed(e)
  /\ proc' = [proc EXCEPT ![e] = [Idle EXCEPT !.pc = "forward"]]
  /\ UNCHANGED <<profile, stream, conn, panicked, edits, crashes>>

\* HandleDeviceEventWithAuthToken with the service's id; it may fail as well.
Forward(e) ==
  /\ At(e, "forward")
  /\ proc' = [proc EXCEPT ![e] = Idle]
  /\ UNCHANGED <<stores, run, panicked, edits, crashes>>

EventError(e) ==
  /\ CallsFail(e)
  /\ At(e, "learn")
  /\ proc' = [proc EXCEPT ![e] = Idle]
  /\ UNCHANGED <<stores, run, panicked, edits, crashes>>
\* UpdateDeviceType takes effect, but its reply is lost: the cache stays.
LoseUpdate(e, t) ==
  /\ CallsFail(e)
  /\ At(e, "learn") /\ Holds(e, t)
  /\ type' = [type EXCEPT ![t] =
       Learned(proc[e].copy[t], proc[e].s, proc[e].set, proc[e].null)]
  /\ proc' = [proc EXCEPT ![e] = Idle]
  /\ run' = Disturbed(e)
  /\ UNCHANGED <<profile, stream, conn, cache, panicked, edits, crashes>>

\* The minute of the cache is over.
Evict(t) ==
  /\ cache[t] # None
  /\ cache' = [cache EXCEPT ![t] = None]
  /\ UNCHANGED <<profile, stream, conn, type, proc, run, panicked, edits, crashes>>

-----------------------------------------------------------------------------
(* Environment.                                                            *)

\* A user creates or changes a profile.
EditProfile(p) ==
  /\ edits < MaxEdits
  /\ profile[p] # Gone
  /\ \E v \in Rev \ {profile[p]} : profile' = [profile EXCEPT ![p] = v]
  /\ stream' = IF conn = "off" THEN stream ELSE Append(stream, p)
  /\ run' = Disturbed(Consumer)
  /\ edits' = edits + 1
  /\ UNCHANGED <<conn, type, cache, proc, panicked, crashes>>
DeleteProfile(p) ==
  /\ edits < MaxEdits
  /\ Live(p)
  /\ profile' = [profile EXCEPT ![p] = Gone]
  /\ run' = Disturbed(Consumer)
  /\ edits' = edits + 1
  /\ UNCHANGED <<stream, conn, type, cache, proc, panicked, crashes>>

\* The process starts: all goroutines are gone, the cache is not.
Started ==
  /\ proc' = [g \in Goroutine |-> Idle]
  /\ run' = [r \in Runs |-> IF r = Boot
                            THEN [NoRun EXCEPT !.pc = "list", !.quiet = TRUE]
                            ELSE NoRun]
  /\ conn' = "off"
  /\ stream' = <<>>
  /\ UNCHANGED <<profile, type, cache, edits>>
Restart ==
  /\ crashes < MaxCrashes
  /\ crashes' = crashes + 1
  /\ Started
  /\ UNCHANGED panicked
\* A Get of a run fails with no err set: "profile.DeviceProfile" of nil.
Panic(r, p) ==
  /\ At(<<r, p>>, "get") /\ ~run[r].err
  /\ ~Live(p) \/ CallsFail(r)
  /\ panicked' = TRUE
  /\ Started
  /\ UNCHANGED crashes

-----------------------------------------------------------------------------
Init ==
  /\ profile \in [Profile -> Rev \cup {None}]
  /\ stream = <<>> /\ conn = "off"
  /\ type = [t \in Type |-> None]
  /\ cache = [t \in Type |-> None]
  /\ proc = [g \in Goroutine |-> Idle]
  /\ run = [r \in Runs |-> IF r = Boot
                           THEN [NoRun EXCEPT !.pc = "list", !.quiet = TRUE]
                           ELSE NoRun]
  /\ panicked = FALSE
  /\ raced = {} /\ doubled = {}
  /\ edits = 0 /\ crashes = 0

Sync(g) ==
  ListTypes(g) \/ SetType(g) \/ CreateType(g) \/ SyncError(g) \/ SyncReplyLost(g)
SyncRun(r) ==
  \/ ListProfiles(r) \/ ListProfilesError(r) \/ FinishRun(r)
  \/ \E p \in Profile : GetProfile(r, p) \/ Panic(r, p) \/ Sync(<<r, p>>)
Consume == XRead \/ Receive \/ GetChanged \/ FindItem \/ Sync(Consumer)
HandleEvents(e) == EnsureService(e) \/ Forward(e) \/ EventError(e)

Calls ==
  \/ \E r \in Runs : StartRun(r) \/ SyncRun(r)
  \/ Consume \/ XReadError
  \/ \E e \in Event : HandleEvent(e) \/ HandleEvents(e)
  \/ \E t \in Type : Evict(t)
  \/ \E p \in Profile : EditProfile(p) \/ DeleteProfile(p)
  \/ Restart

Next ==
  \/ Calls /\ Observed({})
  \/ \E e \in Event, t \in Type : LoseUpdate(e, t) /\ Observed({t})

Spec == Init /\ [][Next]_vars

\* Goroutines run and their calls return (contexts of 10 minutes, 1 minute).
\* The actions leave the history variables to Next.
program == <<stores, proc, run, panicked, crashes>>
FairSpec ==
  Spec /\ (\A r \in Runs : WF_program(SyncRun(r))) /\ WF_program(Consume)

-----------------------------------------------------------------------------
\* After a sync that nothing disturbed and in which no call failed, every
\* profile of the regions has a device type, and all its types (also those of
\* earlier races and those that events wrote back from the cache) carry its
\* content (SyncAllDeviceProfiles).
SyncUpdatesTypes ==
  \A r \in Runs :
    run[r].pc = "done" /\ run[r].quiet /\ ~run[r].failed =>
      \A p \in InRegion : Live(p) =>
        /\ TypesOf(p) # {}
        /\ \A t \in TypesOf(p) : type[t].rev = profile[p] /\ ~type[t].float

\* A profile has two device types only if two goroutines were about to create
\* one at the same time: no restart, lost reply or failed call doubles it
\* (SyncDeviceProfile looks for the profile id).
OneTypePerProfile ==
  \A t, u \in Type :
    type[t] # None /\ type[u] # None /\ ProfileOf[t] = ProfileOf[u] =>
      t = u \/ ProfileOf[t] \in doubled

\* As long as the goroutines that write a type do so one after the other, and no
\* update's reply is lost, nothing that a type knows is lost but by a null value,
\* although events start from a cached type that syncs do not refresh
\* (ensureSyncedService, prepareDeviceType).
ServicesKept ==
  [][\A t \in Type, s \in Service :
       type[t] # None /\ t \notin raced /\ type[t].svc[s] # None =>
         /\ type'[t] # None /\ type'[t].svc[s] # None
         /\ \A x \in type[t].svc[s] \ type'[t].svc[s] :
              \E e \in Event : At(e, "learn") /\ x \in proc[e].null]_vars

\* Under the same condition an event is forwarded only when the platform's type
\* knows its service and its variables (HandleEvent).
EventLearned ==
  [][\A e \in Event, t \in Type :
       At(e, "learn") /\ At(e, "forward")' /\ Holds(e, t) /\ t \notin raced
         /\ proc[e].s # Status =>
           /\ type'[t].svc[proc[e].s] # None
           /\ proc[e].set \subseteq type'[t].svc[proc[e].s]]_vars

\* A change of a profile that is on the consumer's stream arrives at a device
\* type, unless it is overtaken by another change: also when the process ends and
\* starts again in between, if the calls of the consumer and of the startup sync
\* succeed (neither is Failing); what other syncs do and fail in does not matter
\* (setupEventSyncDeviceProfile, Sync).
ChangeArrives ==
  \A p \in InRegion, v \in Rev :
    profile[p] = v /\ (\E i \in DOMAIN stream : stream[i] = p)
      ~> profile[p] # v \/ \E t \in TypesOf(p) : type[t].rev = v

\* A sync ends, by itself or with the process, whichever of its calls fail or lose
\* their reply, unless the sync of every start ends the process again
\* (SyncAllDeviceProfiles).
RunsEnd ==
  <>[][\A p \in Profile : ~Panic(Boot, p)]_vars
    => \A r \in Runs : run[r].pc = "list" ~> run[r].pc \in {"off", "done"}

-----------------------------------------------------------------------------
(* Statements that do not hold of the code; see the README.                 *)

\* A failing call makes the sync report failure; it does not end the process
\* ("@Failure 500" of PATCH /sync/device-profiles).
NoPanic == ~panicked

\* Only profiles of config.Regions have device types.
OnlyRegions == \A t \in Type : type[t] # None => ProfileOf[t] \in InRegion

\* A sync in which a call failed reports it.
FailureReported ==
  \A r \in Runs : run[r].pc = "done" /\ run[r].failed => run[r].err

\* A profile has one device type.
NoDoubles ==
  \A t, u \in Type :
    type[t] # None /\ type[u] # None /\ ProfileOf[t] = ProfileOf[u] => t = u

\* A device type does not go back to an older content of its profile.
ContentKept ==
  [][\A t \in Type : type[t] # None /\ type[t].rev = profile[ProfileOf[t]]
                       => type'[t].rev = type[t].rev]_vars

\* A service that a type knows is never lost.
NothingLost ==
  [][\A t \in Type, s \in Service :
       type[t] # None /\ type[t].svc[s] # None => type'[t].svc[s] # None]_vars
=============================================================================
