-------------------------- MODULE DeviceTypesProofs --------------------------
(***************************************************************************)
(* Proofs about DeviceTypes for any number of profiles, device types, pages, *)
(* runs of the sync, events, failing calls and restarts.                   *)
(***************************************************************************)
EXTENDS DeviceTypes, FiniteSetTheorems, TLAPS

\* What the pc of a goroutine says about the rest of its record.
LocalOK(l) ==
  /\ l.pc \in {"get", "item", "types", "set", "create"} => l.p \in Profile
  /\ l.pc \in {"item", "types", "set", "create"} => l.rev \in Rev
  /\ l.pc = "learn" => l.s \in Service \cup {Status}

StoreType ==
  /\ profile \in [Profile -> Rev \cup {None, Gone}]
  /\ stream \in Seq(Profile)
  /\ conn \in {"off", "waiting", "on"}
  /\ type \in [Type -> DeviceType \cup {None}]
  /\ cache \in [Type -> DeviceType \cup {None}]
ProcType ==
  /\ proc \in [Goroutine -> Worker]
  /\ \A g \in Goroutine : LocalOK(proc[g])
RunType == run \in [Runs -> Run]
RestType ==
  /\ panicked \in BOOLEAN
  /\ edits \in 0..MaxEdits
  /\ crashes \in 0..MaxCrashes
HistoryType == raced \subseteq Type /\ doubled \subseteq Profile

\* TypeOK is not inductive: a sync writes the content that its record holds.
TypeInv == StoreType /\ ProcType /\ RunType /\ RestType /\ HistoryType

LEMMA TypeInvImplies == TypeInv => TypeOK
BY DEF TypeInv, TypeOK, StoreType, ProcType, RunType, RestType, HistoryType

-----------------------------------------------------------------------------
(* Records.                                                                *)

LEMMA IdleOK == Idle \in Worker /\ LocalOK(Idle)
BY DEF Idle, Worker, NoCopy, LocalOK

LEMMA Domains ==
  /\ \A r \in Runs, p \in Profile : <<r, p>> \in Goroutine
  /\ \A g \in Syncer : g \in Goroutine
  /\ \A e \in Event : e \in Goroutine
  /\ Consumer \in Goroutine /\ Consumer \in Syncer /\ Boot \in Runs
  /\ \A r \in Patch : r \in Runs
BY DEF Goroutine, Syncer, Runs

LEMMA PreparedType ==
  ASSUME NEW base \in DeviceType, NEW rev \in Rev
  PROVE  /\ Prepared(base, rev) \in DeviceType
         /\ Prepared(base, rev).svc = base.svc
BY DEF Prepared, DeviceType

LEMMA NewType ==
  ASSUME NEW rev \in Rev
  PROVE  New(rev) \in DeviceType
<1>1. [s \in Service |-> None] \in [Service -> (SUBSET Var) \cup {None}]
  OBVIOUS
<1> QED BY <1>1 DEF New, DeviceType

\* What an event does to the type it has: the other services stay, and of the
\* one it is about only the variables with a null value go.
LEMMA LearnedFacts ==
  ASSUME NEW base \in DeviceType, NEW s \in Service \cup {Status},
         NEW set \in SUBSET Var, NEW null \in SUBSET Var
  PROVE  /\ Learned(base, s, set, null) \in DeviceType
         /\ \A x \in Service :
              /\ x # s => Learned(base, s, set, null).svc[x] = base.svc[x]
              /\ x = s => /\ Learned(base, s, set, null).svc[x] \in SUBSET Var
                          /\ set \subseteq Learned(base, s, set, null).svc[x]
                          /\ base.svc[x] # None =>
                               base.svc[x] \ null
                                 \subseteq Learned(base, s, set, null).svc[x]
<1>1. CASE s = Status
  BY <1>1, TypesAssumption DEF Learned, DeviceType
<1>2. CASE s \in Service
  <2> DEFINE next == ((IF base.svc[s] = None THEN {} ELSE base.svc[s]) \ null) \cup set
             new == [base EXCEPT !.svc[s] = next]
  <2>1. Learned(base, s, set, null) = new
    BY <1>2, TypesAssumption DEF Learned, DeviceType
  <2>2. base.svc \in [Service -> (SUBSET Var) \cup {None}]
    BY DEF DeviceType
  <2>3. next \in SUBSET Var
    <3>1. base.svc[s] \in SUBSET Var \/ base.svc[s] = None
      BY <1>2, <2>2
    <3> QED BY <3>1
  <2>4. new.svc = [base.svc EXCEPT ![s] = next]
    BY DEF DeviceType
  <2>5. new \in DeviceType
    <3>1. [base.svc EXCEPT ![s] = next] \in [Service -> (SUBSET Var) \cup {None}]
      BY <2>2, <2>3
    <3> HIDE DEF next
    <3> QED BY <3>1 DEF DeviceType
  <2>6. \A x \in Service : new.svc[x] = IF x = s THEN next ELSE base.svc[x]
    BY <1>2, <2>2, <2>4
  <2>7. set \subseteq next /\ (base.svc[s] # None => base.svc[s] \ null \subseteq next)
    OBVIOUS
  <2> HIDE DEF next, new
  <2> QED BY <2>1, <2>3, <2>5, <2>6, <2>7
<1> QED
  BY <1>1, <1>2

LEMMA LearnedType ==
  ASSUME NEW base, NEW s, NEW set, NEW null, base \in DeviceType,
         s \in Service \cup {Status}, set \in SUBSET Var, null \in SUBSET Var
  PROVE  Learned(base, s, set, null) \in DeviceType
BY LearnedFacts

LEMMA LearnedOther ==
  ASSUME NEW base, NEW s, NEW set, NEW null, base \in DeviceType,
         s \in Service \cup {Status}, set \in SUBSET Var, null \in SUBSET Var,
         NEW x \in Service, x # s
  PROVE  Learned(base, s, set, null).svc[x] = base.svc[x]
BY LearnedFacts

LEMMA LearnedService ==
  ASSUME NEW base, NEW s, NEW set, NEW null, base \in DeviceType,
         s \in Service, set \in SUBSET Var, null \in SUBSET Var
  PROVE  /\ Learned(base, s, set, null).svc[s] \in SUBSET Var
         /\ set \subseteq Learned(base, s, set, null).svc[s]
         /\ base.svc[s] # None =>
              base.svc[s] \ null \subseteq Learned(base, s, set, null).svc[s]
BY LearnedFacts

\* A goroutine that replaces its record by one that is in order leaves all
\* records in order.
LEMMA MoveOn ==
  ASSUME NEW g \in Goroutine, NEW l \in Worker, LocalOK(l), ProcType,
         proc' = [proc EXCEPT ![g] = l]
  PROVE  ProcType'
BY DEF ProcType

LEMMA ReturnType ==
  ASSUME NEW g \in Goroutine, NEW ok, Return(g, ok), ProcType, RunType
  PROVE  ProcType' /\ RunType'
<1>1. ProcType'
  BY MoveOn, IdleOK DEF Return
<1>2. RunType'
  <2>1. CASE run' = run
    BY <2>1 DEF RunType
  <2>2. CASE g \in Runs \X Profile /\ run' = [run EXCEPT ![g[1]].failed = TRUE]
    BY <2>2 DEF RunType, Run
  <2> QED BY <2>1, <2>2 DEF Return
<1> QED
  BY <1>1, <1>2

LEMMA DisturbedType ==
  ASSUME RunType, NEW g
  PROVE  Disturbed(g) \in [Runs -> Run]
BY DEF RunType, Disturbed, Run

-----------------------------------------------------------------------------
(* Steps of the syncs, of the consumer, of events and of the environment.   *)

\* What a step of a goroutine has to preserve; Observed is of the other.
Core == StoreType /\ ProcType /\ RunType /\ RestType

LEMMA SyncType ==
  ASSUME NEW g \in Syncer, Core, Sync(g)
  PROVE  Core'
<1> USE Domains DEF At, Holds
<1>g. /\ g \in Goroutine /\ proc[g] \in Worker /\ LocalOK(proc[g])
      /\ \A t \in Type : proc[g].copy[t] \in DeviceType \cup {None}
  BY DEF Core, ProcType, Worker
<1>i. ASSUME proc' = [proc EXCEPT ![g] = Idle] PROVE ProcType'
  BY <1>i, <1>g, IdleOK, MoveOn DEF Core
\* The device type that is written.
<1>w. ASSUME NEW t \in Type, NEW dt \in DeviceType,
             type' = [type EXCEPT ![t] = dt], UNCHANGED <<profile, stream, conn, cache>>
      PROVE  StoreType'
  BY <1>w DEF Core, StoreType
<1>1. CASE ListTypes(g)
  <2>1. StoreType' /\ RestType'
    BY <1>1 DEF ListTypes, stores, Core, StoreType, RestType
  <2>2. CASE proc' = [proc EXCEPT ![g].pc = "create"] /\ UNCHANGED run
    <3> DEFINE l == [proc[g] EXCEPT !.pc = "create"]
    <3>1. l \in Worker /\ LocalOK(l)
      BY <1>1, <1>g DEF ListTypes, Worker, LocalOK
    <3>2. proc' = [proc EXCEPT ![g] = l]
      BY <2>2
    <3> HIDE DEF l
    <3> QED BY <1>g, <2>1, <2>2, <3>1, <3>2, MoveOn DEF Core, RunType
  <2>3. CASE Return(g, TRUE)
    BY <1>g, <2>1, <2>3, ReturnType DEF Core
  <2>4. ASSUME NEW old,
               proc' = [proc EXCEPT ![g].pc = "set",
                          ![g].copy = [t \in Type |-> IF t \in old THEN type[t]
                                                      ELSE None]],
               UNCHANGED run
        PROVE  Core'
    <3> DEFINE l == [proc[g] EXCEPT !.pc = "set",
                       !.copy = [t \in Type |-> IF t \in old THEN type[t] ELSE None]]
    <3>1. [t \in Type |-> IF t \in old THEN type[t] ELSE None]
            \in [Type -> DeviceType \cup {None}]
      BY DEF Core, StoreType
    <3>2. l \in Worker /\ LocalOK(l)
      BY <1>1, <1>g, <3>1 DEF ListTypes, Worker, LocalOK
    <3>3. proc' = [proc EXCEPT ![g] = l]
      BY <2>4
    <3> HIDE DEF l
    <3> QED BY <1>g, <2>1, <2>4, <3>2, <3>3, MoveOn DEF Core, RunType
  <2> QED BY <1>1, <2>2, <2>3, <2>4 DEF ListTypes
<1>2. CASE SetType(g)
  <2>1. PICK t \in Type :
          /\ proc[g].copy[t] # None
          /\ type' = [type EXCEPT ![t] = Prepared(proc[g].copy[t], proc[g].rev)]
          /\ LET rest == [proc[g].copy EXCEPT ![t] = None] IN
             proc' = [proc EXCEPT ![g] = IF rest = NoCopy THEN Idle
                                         ELSE [@ EXCEPT !.copy = rest]]
    BY <1>2 DEF SetType
  <2> DEFINE rest == [proc[g].copy EXCEPT ![t] = None]
             l == [proc[g] EXCEPT !.copy = rest]
  <2>2. Prepared(proc[g].copy[t], proc[g].rev) \in DeviceType
    BY <1>2, <1>g, <2>1, PreparedType DEF SetType, LocalOK
  <2>3. StoreType'
    BY <1>2, <1>w, <2>1, <2>2 DEF SetType
  <2>4. l \in Worker /\ LocalOK(l)
    BY <1>g DEF Worker, LocalOK
  <2>5. proc' = [proc EXCEPT ![g] = l] \/ proc' = [proc EXCEPT ![g] = Idle]
    BY <2>1
  <2> HIDE DEF l
  <2>6. ProcType'
    BY <1>g, <1>i, <2>4, <2>5, MoveOn DEF Core
  <2> QED BY <1>2, <2>3, <2>6, DisturbedType DEF SetType, Core, RunType, RestType
<1>3. CASE CreateType(g)
  <2>1. PICK t \in Type : type' = [type EXCEPT ![t] = New(proc[g].rev)]
    BY <1>3 DEF CreateType
  <2>2. New(proc[g].rev) \in DeviceType
    BY <1>3, <1>g, NewType DEF CreateType, LocalOK
  <2>3. StoreType'
    BY <1>3, <1>w, <2>1, <2>2 DEF CreateType
  <2> QED
    BY <1>3, <1>i, <2>3, DisturbedType DEF CreateType, Core, RunType, RestType
<1>4. CASE SyncError(g)
  BY <1>4, <1>g, ReturnType DEF SyncError, Core, stores, StoreType, RestType
<1>5. CASE SyncReplyLost(g)
  <2>1. StoreType'
    <3>1. ASSUME At(g, "set"), NEW t \in Type, Holds(g, t),
                 type' = [type EXCEPT ![t] = Prepared(proc[g].copy[t], proc[g].rev)]
          PROVE  StoreType'
      <4>1. Prepared(proc[g].copy[t], proc[g].rev) \in DeviceType
        BY <1>g, <3>1, PreparedType DEF LocalOK
      <4> QED BY <1>5, <1>w, <3>1, <4>1 DEF SyncReplyLost
    <3>2. ASSUME At(g, "create"), NEW t \in Type,
                 type' = [type EXCEPT ![t] = New(proc[g].rev)]
          PROVE  StoreType'
      <4>1. New(proc[g].rev) \in DeviceType
        BY <1>g, <3>2, NewType DEF LocalOK
      <4> QED BY <1>5, <1>w, <3>2, <4>1 DEF SyncReplyLost
    <3> QED BY <1>5, <3>1, <3>2 DEF SyncReplyLost
  <2>2. RunType'
    <3>1. \A r \in Runs : Disturbed(g)[r] \in Run
      BY DisturbedType DEF Core
    <3>2. \A r \in Runs : [Disturbed(g)[r] EXCEPT
                             !.failed = @ \/ g \in {r} \X Profile] \in Run
      BY <3>1 DEF Run
    <3> QED BY <1>5, <3>2 DEF SyncReplyLost, RunType
  <2> QED BY <1>5, <1>i, <2>1, <2>2 DEF SyncReplyLost, Core, RestType
<1> QED
  BY <1>1, <1>2, <1>3, <1>4, <1>5 DEF Sync

LEMMA StartedType ==
  ASSUME Started, Core
  PROVE  StoreType' /\ ProcType' /\ RunType' /\ edits' = edits
<1>1. StoreType'
  <2>1. <<>> \in Seq(Profile)
    OBVIOUS
  <2> QED BY <2>1 DEF Started, Core, StoreType
<1>2. ProcType'
  BY IdleOK DEF Started, ProcType
<1>3. RunType'
  BY DEF Started, RunType, Run, NoRun
<1> QED
  BY <1>1, <1>2, <1>3 DEF Started

\* The goroutines of a page of profiles.
LEMMA PageType ==
  ASSUME NEW r \in Runs, NEW page \in SUBSET Profile, ProcType,
         proc' = [g \in Goroutine |->
            IF g \in {r} \X (page \cap InRegion) /\ At(g, "idle")
            THEN [Idle EXCEPT !.pc = "get", !.p = g[2]] ELSE proc[g]]
  PROVE  ProcType'
<1>1. ASSUME NEW p \in Profile
      PROVE  LET l == [Idle EXCEPT !.pc = "get", !.p = p] IN l \in Worker /\ LocalOK(l)
  BY IdleOK DEF Worker, LocalOK
<1>2. \A g \in {r} \X (page \cap InRegion) : g[2] \in Profile
  OBVIOUS
<1>3. ASSUME NEW g \in Goroutine
      PROVE  proc'[g] \in Worker /\ LocalOK(proc'[g])
  BY <1>1, <1>2 DEF ProcType
<1> QED
  BY <1>3 DEF ProcType

LEMMA RunStepType ==
  ASSUME NEW r \in Runs, Core, SyncRun(r) \/ StartRun(r)
  PROVE  Core'
<1> USE Domains DEF At
<1>r. /\ run \in [Runs -> Run] /\ run[r] \in Run
      /\ \A n \in Nat : n + PageSize \in Nat
  BY TypesBounds DEF Core, RunType
<1>1. CASE StartRun(r)
  BY <1>1, <1>r DEF StartRun, Core, stores, StoreType, ProcType, RunType, RestType, Run,
     NoRun
<1>2. CASE ListProfiles(r)
  <2>1. ProcType'
    BY <1>2, PageType DEF ListProfiles, Core, Page
  <2>2. RunType'
    BY <1>2, <1>r DEF ListProfiles, RunType, Run
  <2> QED BY <1>2, <2>1, <2>2 DEF ListProfiles, Core, stores, StoreType, RestType
<1>3. CASE ListProfilesError(r)
  BY <1>3, <1>r DEF ListProfilesError, Core, stores, StoreType, ProcType, RunType, RestType,
     Run
<1>4. CASE FinishRun(r)
  BY <1>4, <1>r DEF FinishRun, Core, stores, StoreType, ProcType, RunType, RestType, Run
<1>5. ASSUME NEW p \in Profile, GetProfile(r, p)
      PROVE  Core'
  <2> DEFINE g == <<r, p>>
             l == [proc[g] EXCEPT !.pc = "types", !.rev = profile[p]]
  <2>1. CASE Return(g, Live(p))
    BY <1>5, <2>1, ReturnType DEF GetProfile, Core, stores, StoreType, RestType
  <2>2. CASE /\ Live(p) /\ UNCHANGED run
             /\ proc' = [proc EXCEPT ![g].pc = "types", ![g].rev = profile[p]]
    <3>1. g \in Goroutine /\ proc[g] \in Worker /\ LocalOK(proc[g]) /\ proc[g].pc = "get"
      BY <1>5 DEF GetProfile, Core, ProcType
    <3>2. l \in Worker /\ LocalOK(l)
      BY <2>2, <3>1 DEF Live, Worker, LocalOK
    <3>3. proc' = [proc EXCEPT ![g] = l]
      BY <2>2
    <3> HIDE DEF l, g
    <3>4. ProcType'
      BY <3>1, <3>2, <3>3, MoveOn DEF Core
    <3> QED BY <1>5, <2>2, <3>4 DEF GetProfile, Core, stores, StoreType, RunType, RestType
  <2> QED BY <1>5, <2>1, <2>2 DEF GetProfile
<1>6. ASSUME NEW p \in Profile, Panic(r, p)
      PROVE  Core'
  BY <1>6, StartedType DEF Panic, Core, RestType
<1>7. ASSUME NEW p \in Profile, Sync(<<r, p>>)
      PROVE  Core'
  <2>1. <<r, p>> \in Syncer
    BY DEF Syncer
  <2> QED BY <1>7, <2>1, SyncType
<1> QED
  BY <1>1, <1>2, <1>3, <1>4, <1>5, <1>6, <1>7 DEF SyncRun

LEMMA ConsumerType ==
  ASSUME Core, Consume \/ XReadError
  PROVE  Core'
<1> USE Domains DEF At, Core
<1>g. LET g == Consumer IN proc[g] \in Worker /\ LocalOK(proc[g])
  BY DEF ProcType
<1>1. CASE XRead
  BY <1>1 DEF XRead, StoreType, ProcType, RunType, RestType
<1>2. CASE XReadError
  <2>1. <<>> \in Seq(Profile)
    OBVIOUS
  <2> QED BY <1>2, <2>1 DEF XReadError, StoreType, ProcType, RunType, RestType
<1>3. CASE Receive
  <2>1. Head(stream) \in Profile /\ Tail(stream) \in Seq(Profile)
    BY <1>3 DEF Receive, StoreType
  <2> DEFINE l == [Idle EXCEPT !.pc = "get", !.p = Head(stream)]
  <2>2. l \in Worker /\ LocalOK(l)
    BY <2>1, IdleOK DEF Worker, LocalOK
  <2>3. proc' = [proc EXCEPT ![Consumer] = l]
    BY <1>3 DEF Receive
  <2> HIDE DEF l
  <2>4. ProcType'
    BY <2>2, <2>3, MoveOn
  <2> QED BY <1>3, <2>1, <2>4 DEF Receive, StoreType, RunType, RestType
<1>4. CASE GetChanged
  <2> DEFINE l == [proc[Consumer] EXCEPT !.pc = "item",
                     !.rev = profile[proc[Consumer].p]]
  <2>1. ASSUME Live(proc[Consumer].p) /\ proc' = [proc EXCEPT ![Consumer] = l]
        PROVE  ProcType'
    <3>1. l \in Worker /\ LocalOK(l)
      BY <1>4, <1>g, <2>1 DEF GetChanged, Live, Worker, LocalOK
    <3> HIDE DEF l
    <3> QED BY <2>1, <3>1, MoveOn
  <2>2. ASSUME proc' = [proc EXCEPT ![Consumer] = Idle]
        PROVE  ProcType'
    BY <2>2, IdleOK, MoveOn
  <2> HIDE DEF l
  <2>3. ProcType'
    BY <1>4, <2>1, <2>2 DEF GetChanged, l
  <2> QED BY <1>4, <2>3 DEF GetChanged, stores, StoreType, RunType, RestType
<1>5. CASE FindItem
  <2> DEFINE l == [proc[Consumer] EXCEPT !.pc = "types"]
  <2>1. ASSUME proc' = [proc EXCEPT ![Consumer] = l]
        PROVE  ProcType'
    <3>1. l \in Worker /\ LocalOK(l)
      BY <1>5, <1>g DEF FindItem, Worker, LocalOK
    <3> HIDE DEF l
    <3> QED BY <2>1, <3>1, MoveOn
  <2>2. ASSUME proc' = [proc EXCEPT ![Consumer] = Idle]
        PROVE  ProcType'
    BY <2>2, IdleOK, MoveOn
  <2> HIDE DEF l
  <2>3. ProcType'
    BY <1>5, <2>1, <2>2 DEF FindItem, l
  <2> QED BY <1>5, <2>3 DEF FindItem, stores, StoreType, RunType, RestType
<1>6. CASE Sync(Consumer)
  BY <1>6, SyncType
<1> QED
  BY <1>1, <1>2, <1>3, <1>4, <1>5, <1>6 DEF Consume

\* The type that an event has learned from.
LEMMA EventLearns ==
  ASSUME NEW e \in Event, At(e, "learn"), NEW t \in Type, Holds(e, t), Core
  PROVE  /\ proc[e].copy[t] \in DeviceType
         /\ proc[e].s \in Service \cup {Status}
         /\ proc[e].set \in SUBSET Var /\ proc[e].null \in SUBSET Var
         /\ Learned(proc[e].copy[t], proc[e].s, proc[e].set, proc[e].null)
              \in DeviceType
<1>1. e \in Goroutine /\ proc[e] \in Worker /\ LocalOK(proc[e])
  BY Domains DEF Core, ProcType
<1>2. /\ proc[e].copy[t] \in DeviceType
      /\ proc[e].s \in Service \cup {Status}
      /\ proc[e].set \in SUBSET Var /\ proc[e].null \in SUBSET Var
  BY <1>1 DEF At, Holds, Worker, LocalOK
<1> QED
  BY <1>2, LearnedType

LEMMA EventType ==
  ASSUME NEW e \in Event, Core,
         \/ HandleEvent(e) \/ HandleEvents(e)
         \/ \E t \in Type : LoseUpdate(e, t)
  PROVE  Core'
<1> USE Domains DEF Core
<1>i. ASSUME proc' = [proc EXCEPT ![e] = Idle] PROVE ProcType'
  BY <1>i, IdleOK, MoveOn
<1>1. CASE HandleEvent(e)
  <2>1. PICK t \in Type, s \in Service \cup {Status}, set, null \in SUBSET Var :
       /\ type[t] # None
       /\ set \cap null = {} /\ (s = Status => set \cup null = {})
       /\ cache' = [cache EXCEPT ![t] = Cached(t)]
       /\ proc' = [proc EXCEPT ![e] =
            [Idle EXCEPT !.pc = "learn", !.copy = [NoCopy EXCEPT ![t] = Cached(t)],
                         !.s = s, !.set = set, !.null = null]]
    BY <1>1 DEF HandleEvent
  <2> DEFINE l == [Idle EXCEPT !.pc = "learn", !.copy = [NoCopy EXCEPT ![t] = Cached(t)],
                         !.s = s, !.set = set, !.null = null]
  <2>2. Cached(t) \in DeviceType
    BY <2>1 DEF StoreType, Cached
  <2>3. StoreType'
    BY <1>1, <2>1, <2>2 DEF HandleEvent, StoreType
  <2>4. l \in Worker /\ LocalOK(l)
    <3>1. [NoCopy EXCEPT ![t] = Cached(t)] \in [Type -> DeviceType \cup {None}]
      BY <2>2 DEF NoCopy
    <3> QED BY <3>1 DEF Idle, Worker, LocalOK
  <2>5. proc' = [proc EXCEPT ![e] = l]
    BY <2>1
  <2> HIDE DEF l
  <2>6. ProcType'
    BY <2>4, <2>5, MoveOn
  <2>7. edits' \in 0..MaxEdits
    <3>1. edits < MaxEdits /\ edits' = edits + 1
      BY <1>1 DEF HandleEvent
    <3> QED BY <3>1, TypesBounds DEF RestType
  <2> QED BY <1>1, <2>3, <2>6, <2>7 DEF HandleEvent, RunType, RestType
<1>2. CASE EnsureService(e)
  <2>1. PICK t \in Type :
          /\ Holds(e, t)
          /\ LET new == Learned(proc[e].copy[t], proc[e].s, proc[e].set, proc[e].null) IN
             \/ UNCHANGED <<type, cache, run>>
             \/ /\ type' = [type EXCEPT ![t] = new]
                /\ cache' = [cache EXCEPT ![t] = new]
                /\ run' = Disturbed(e)
    BY <1>2 DEF EnsureService
  <2> DEFINE new == Learned(proc[e].copy[t], proc[e].s, proc[e].set, proc[e].null)
  <2>2. new \in DeviceType
    BY <1>2, <2>1, EventLearns DEF EnsureService
  <2> HIDE DEF new
  <2>3. StoreType' /\ RunType'
    BY <1>2, <2>1, <2>2, DisturbedType DEF EnsureService, StoreType, RunType, new
  <2>4. ProcType'
    <3> DEFINE l == [Idle EXCEPT !.pc = "forward"]
    <3>1. l \in Worker /\ LocalOK(l)
      BY IdleOK DEF Worker, LocalOK
    <3>2. proc' = [proc EXCEPT ![e] = l]
      BY <1>2 DEF EnsureService
    <3> HIDE DEF l
    <3> QED BY <3>1, <3>2, MoveOn
  <2> QED BY <1>2, <2>3, <2>4 DEF EnsureService, RestType
<1>3. CASE Forward(e) \/ EventError(e)
  BY <1>3, <1>i DEF Forward, EventError, stores, StoreType, RunType, RestType
<1>4. ASSUME NEW t \in Type, LoseUpdate(e, t)
      PROVE  Core'
  <2> DEFINE new == Learned(proc[e].copy[t], proc[e].s, proc[e].set, proc[e].null)
  <2>1. new \in DeviceType
    BY <1>4, EventLearns DEF LoseUpdate
  <2> HIDE DEF new
  <2>2. StoreType'
    BY <1>4, <2>1 DEF LoseUpdate, StoreType, new
  <2> QED BY <1>4, <1>i, <2>2, DisturbedType DEF LoseUpdate, RunType, RestType
<1> QED
  BY <1>1, <1>2, <1>3, <1>4 DEF HandleEvents

LEMMA EnvironmentType ==
  ASSUME Core,
         \/ \E t \in Type : Evict(t)
         \/ \E p \in Profile : EditProfile(p) \/ DeleteProfile(p)
         \/ Restart
  PROVE  Core'
<1> USE DEF Core
<1>1. ASSUME NEW t \in Type, Evict(t)
      PROVE  Core'
  BY <1>1 DEF Evict, StoreType, ProcType, RunType, RestType
<1>2. ASSUME NEW p \in Profile, EditProfile(p)
      PROVE  Core'
  <2>1. stream' \in Seq(Profile)
    BY <1>2 DEF EditProfile, StoreType
  <2>2. profile' \in [Profile -> Rev \cup {None, Gone}]
    BY <1>2 DEF EditProfile, StoreType
  <2>3. edits' \in 0..MaxEdits
    BY <1>2, TypesBounds DEF EditProfile, RestType
  <2> QED
    BY <1>2, <2>1, <2>2, <2>3, DisturbedType
    DEF EditProfile, StoreType, ProcType, RunType, RestType
<1>3. ASSUME NEW p \in Profile, DeleteProfile(p)
      PROVE  Core'
  <2>1. edits' \in 0..MaxEdits
    BY <1>3, TypesBounds DEF DeleteProfile, RestType
  <2> QED
    BY <1>3, <2>1, DisturbedType
    DEF DeleteProfile, StoreType, ProcType, RunType, RestType
<1>4. CASE Restart
  <2>1. crashes' \in 0..MaxCrashes
    BY <1>4, TypesBounds DEF Restart, RestType
  <2> QED BY <1>4, <2>1, StartedType DEF Restart, RestType
<1> QED
  BY <1>1, <1>2, <1>3, <1>4

LEMMA ObservedType ==
  ASSUME NEW lost, Observed(lost), HistoryType
  PROVE  HistoryType'
BY DEF Observed, HistoryType

LEMMA CallsType ==
  ASSUME Core, Calls
  PROVE  Core'
<1>1. ASSUME NEW r \in Runs, StartRun(r) \/ SyncRun(r)
      PROVE  Core'
  BY <1>1, RunStepType
<1>2. ASSUME NEW e \in Event, HandleEvent(e) \/ HandleEvents(e)
      PROVE  Core'
  BY <1>2, EventType
<1> QED
  BY <1>1, <1>2, ConsumerType, EnvironmentType DEF Calls

LEMMA InitType == Init => TypeInv
<1> SUFFICES ASSUME Init PROVE TypeInv
  OBVIOUS
<1>1. StoreType
  BY DEF Init, StoreType
<1>2. ProcType
  BY IdleOK DEF Init, ProcType
<1>3. RunType
  BY DEF Init, RunType, Run, NoRun
<1>4. RestType /\ HistoryType
  <2>1. panicked = FALSE /\ raced = {} /\ doubled = {} /\ edits = 0 /\ crashes = 0
    BY DEF Init
  <2>2. 0 \in 0..MaxEdits /\ 0 \in 0..MaxCrashes
    BY TypesBounds
  <2> QED BY <2>1, <2>2 DEF RestType, HistoryType
<1> QED
  BY <1>1, <1>2, <1>3, <1>4 DEF TypeInv

LEMMA StepType == TypeInv /\ [Next]_vars => TypeInv'
<1> SUFFICES ASSUME TypeInv, [Next]_vars PROVE TypeInv'
  OBVIOUS
<1>1. ASSUME Calls, Observed({})
      PROVE  TypeInv'
  BY <1>1, CallsType, ObservedType DEF TypeInv, Core
<1>2. ASSUME NEW e \in Event, NEW t \in Type, LoseUpdate(e, t), Observed({t})
      PROVE  TypeInv'
  BY <1>2, EventType, ObservedType DEF TypeInv, Core
<1>3. CASE UNCHANGED vars
  BY <1>3 DEF vars, stores, TypeInv, StoreType, ProcType, RunType, RestType, HistoryType
<1> QED
  BY <1>1, <1>2, <1>3 DEF Next

\* The stores and the goroutines of the connector keep their types, whatever
\* runs at the same time, fails or is restarted.
THEOREM TypeCorrect == Spec => []TypeOK
BY InitType, StepType, TypeInvImplies, PTL DEF Spec

-----------------------------------------------------------------------------
(* Copies of a device type.                                                *)

\* Whoever is the only one to hold a copy of a type that nobody raced for knows
\* the services that the type has, and so does the cache.
CopyOK(t) ==
  /\ type[t] = None => cache[t] = None /\ \A g \in Goroutine : ~Holds(g, t)
  /\ t \notin raced =>
       /\ cache[t] # None => cache[t].svc = type[t].svc
       /\ \A g \in Goroutine : Holds(g, t) => proc[g].copy[t].svc = type[t].svc
       /\ \A g, h \in Goroutine : Holds(g, t) /\ Holds(h, t) => g = h
OneCopy ==
  \A e \in Event : At(e, "learn") =>
    \A t, u \in Type : Holds(e, t) /\ Holds(e, u) => t = u
CopyInv == (\A t \in Type : CopyOK(t)) /\ OneCopy

LEMMA RacedFacts ==
  ASSUME NEW lost, Observed(lost), NEW t \in Type, t \notin raced'
  PROVE  \/ cache'[t] = None /\ \A g \in Goroutine : ~Holds(g, t)'
         \/ /\ t \notin raced /\ t \notin lost
            /\ \A g, h \in Goroutine : Holds(g, t)' /\ Holds(h, t)' => g = h
BY DEF Observed

\* Steps that make copies of what is there, or drop them.
LEMMA CopyStep ==
  ASSUME NEW lost, Observed(lost), NEW t \in Type, CopyOK(t),
         cache'[t] \in {cache[t], type[t], None},
         \A g \in Goroutine :
           proc'[g].copy[t] \in {proc[g].copy[t], cache[t], type[t], None},
         type[t] # None =>
           /\ type'[t] # None
           /\ t \notin raced /\ t \notin lost => type'[t].svc = type[t].svc
  PROVE  CopyOK(t)'
<1>1. ASSUME type'[t] = None
      PROVE  cache'[t] = None /\ \A g \in Goroutine : ~Holds(g, t)'
  BY <1>1 DEF CopyOK, Holds
<1>2. ASSUME t \notin raced'
      PROVE  /\ cache'[t] # None => cache'[t].svc = type'[t].svc
             /\ \A g \in Goroutine : Holds(g, t)' => proc'[g].copy[t].svc = type'[t].svc
             /\ \A g, h \in Goroutine : Holds(g, t)' /\ Holds(h, t)' => g = h
  <2>1. CASE cache'[t] = None /\ \A g \in Goroutine : ~Holds(g, t)'
    BY <2>1
  <2>2. CASE /\ t \notin raced /\ t \notin lost
             /\ \A g, h \in Goroutine : Holds(g, t)' /\ Holds(h, t)' => g = h
    <3>1. CASE type[t] = None
      BY <2>2, <3>1 DEF CopyOK, Holds
    <3>2. CASE type[t] # None
      <4>1. type'[t].svc = type[t].svc
        BY <2>2, <3>2
      <4>2. cache'[t] # None => cache'[t].svc = type'[t].svc
        BY <2>2, <4>1 DEF CopyOK
      <4>3. ASSUME NEW g \in Goroutine, Holds(g, t)'
            PROVE  proc'[g].copy[t].svc = type'[t].svc
        BY <2>2, <4>1, <4>3 DEF CopyOK, Holds
      <4> QED BY <2>2, <4>2, <4>3
    <3> QED BY <3>1, <3>2
  <2> QED BY <1>2, <2>1, <2>2, RacedFacts
<1> QED
  BY <1>1, <1>2 DEF CopyOK

LEMMA NewIsType ==
  /\ None \notin DeviceType
  /\ \A set \in SUBSET Var : set # None
BY TypesAssumption

\* What a step of a sync does to the type t and to the copies of it.
LEMMA SyncCopies ==
  ASSUME NEW g \in Syncer, Core, Sync(g), NEW t \in Type, CopyOK(t)
  PROVE  /\ cache' = cache
         /\ \A h \in Goroutine : proc'[h].copy[t] \in {proc[h].copy[t], type[t], None}
         /\ type[t] # None =>
              type'[t] # None /\ (t \notin raced => type'[t].svc = type[t].svc)
         /\ \A h \in Goroutine : h # g => proc'[h] = proc[h]
         /\ proc'[g].pc # "learn"
<1> USE Domains, NewIsType DEF At, Holds, Core
<1>g. /\ g \in Goroutine /\ proc[g] \in Worker /\ LocalOK(proc[g])
      /\ proc \in [Goroutine -> Worker]
      /\ \A u \in Type : proc[g].copy[u] \in DeviceType \cup {None}
      /\ type \in [Type -> DeviceType \cup {None}]
      /\ Idle.pc # "learn" /\ Idle.copy[t] = None
  BY DEF ProcType, StoreType, Worker, Idle, NoCopy
\* A type is replaced by a copy of it with other content.
<1>w. ASSUME NEW u \in Type, proc[g].copy[u] # None, proc[g].rev \in Rev,
             type' = [type EXCEPT ![u] = Prepared(proc[g].copy[u], proc[g].rev)]
      PROVE  type[t] # None =>
               type'[t] # None /\ (t \notin raced => type'[t].svc = type[t].svc)
  <2>1. /\ Prepared(proc[g].copy[u], proc[g].rev) \in DeviceType
        /\ Prepared(proc[g].copy[u], proc[g].rev).svc = proc[g].copy[u].svc
    BY <1>g, <1>w, PreparedType
  <2>2. CASE u = t
    BY <1>g, <1>w, <2>1, <2>2 DEF CopyOK
  <2>3. CASE u # t
    BY <1>g, <1>w, <2>3
  <2> QED BY <2>2, <2>3
<1>n. ASSUME NEW u \in Type, type[u] = None, NEW dt, type' = [type EXCEPT ![u] = dt]
      PROVE  type[t] # None => type'[t] # None /\ type'[t] = type[t]
  BY <1>g, <1>n
<1>1. CASE ListTypes(g)
  <2>1. ASSUME NEW old,
               proc' = [proc EXCEPT ![g].pc = "set",
                          ![g].copy = [x \in Type |-> IF x \in old THEN type[x]
                                                      ELSE None]]
        PROVE  /\ \A h \in Goroutine :
                    proc'[h].copy[t] \in {proc[h].copy[t], type[t], None}
               /\ \A h \in Goroutine : h # g => proc'[h] = proc[h]
               /\ proc'[g].pc # "learn"
    <3>1. proc'[g].copy = [x \in Type |-> IF x \in old THEN type[x] ELSE None]
      BY <1>g, <2>1 DEF Worker
    <3>2. proc'[g].pc = "set" /\ \A h \in Goroutine : h # g => proc'[h] = proc[h]
      BY <1>g, <2>1 DEF Worker
    <3> QED BY <3>1, <3>2
  <2>2. ASSUME proc' = [proc EXCEPT ![g].pc = "create"]
        PROVE  /\ \A h \in Goroutine : proc'[h].copy = proc[h].copy
               /\ \A h \in Goroutine : h # g => proc'[h] = proc[h]
               /\ proc'[g].pc # "learn"
    BY <1>g, <2>2 DEF Worker
  <2>3. UNCHANGED <<type, cache>>
    BY <1>1 DEF ListTypes, stores
  <2> QED BY <1>1, <1>g, <2>1, <2>2, <2>3 DEF ListTypes, Return
<1>2. CASE SetType(g)
  <2>1. PICK u \in Type :
          /\ proc[g].copy[u] # None
          /\ type' = [type EXCEPT ![u] = Prepared(proc[g].copy[u], proc[g].rev)]
          /\ LET rest == [proc[g].copy EXCEPT ![u] = None] IN
             proc' = [proc EXCEPT ![g] = IF rest = NoCopy THEN Idle
                                         ELSE [@ EXCEPT !.copy = rest]]
    BY <1>2 DEF SetType
  <2>2. proc[g].rev \in Rev
    BY <1>2, <1>g DEF SetType, LocalOK
  <2>3. /\ \A h \in Goroutine : h # g => proc'[h] = proc[h]
        /\ \/ proc'[g] = Idle
           \/ proc'[g] = [proc[g] EXCEPT !.copy = [proc[g].copy EXCEPT ![u] = None]]
    BY <1>g, <2>1
  <2>4. proc'[g].copy[t] \in {proc[g].copy[t], None} /\ proc'[g].pc # "learn"
    BY <1>2, <1>g, <2>3 DEF SetType, Worker
  <2> QED BY <1>2, <1>w, <2>1, <2>2, <2>3, <2>4 DEF SetType
<1>3. CASE CreateType(g)
  BY <1>3, <1>g, <1>n DEF CreateType
<1>4. CASE SyncError(g)
  BY <1>4, <1>g DEF SyncError, Return, stores
<1>5. CASE SyncReplyLost(g)
  <2>1. proc[g].pc \in {"set", "create"} => proc[g].rev \in Rev
    BY <1>g DEF LocalOK
  <2> QED BY <1>5, <1>g, <1>w, <1>n, <2>1 DEF SyncReplyLost
<1> QED
  BY <1>1, <1>2, <1>3, <1>4, <1>5 DEF Sync

\* Steps that do not touch device types; copies are only dropped.
Dropping ==
  /\ type' = type
  /\ \A t \in Type : cache'[t] \in {cache[t], None}
  /\ \A g \in Goroutine :
       \/ proc'[g] = proc[g]
       \/ proc'[g].pc \notin {"learn", "forward", "create"} /\ proc'[g].copy \in {proc[g].copy, NoCopy}

\* The other steps are the syncs' and those of events.
LEMMA OtherSteps ==
  ASSUME Core, Calls
  PROVE  \/ Dropping
         \/ \E g \in Syncer : Sync(g)
         \/ \E e \in Event : HandleEvent(e) \/ EnsureService(e)
<1> USE Domains DEF At, Core
<1>p. /\ proc \in [Goroutine -> Worker] /\ cache \in [Type -> DeviceType \cup {None}]
      /\ Idle.pc \notin {"learn", "forward", "create"} /\ Idle.copy = NoCopy
  BY DEF ProcType, StoreType, Idle
\* One goroutine moves on.
<1>m. ASSUME NEW g \in Goroutine, NEW l, proc' = [proc EXCEPT ![g] = l],
             l.pc \notin {"learn", "forward", "create"}, l.copy \in {proc[g].copy, NoCopy}, type' = type, cache' = cache
      PROVE  Dropping
  BY <1>p, <1>m DEF Dropping
<1>i. ASSUME NEW g \in Goroutine, proc' = [proc EXCEPT ![g] = Idle], type' = type,
             cache' = cache
      PROVE  Dropping
  BY <1>p, <1>i, <1>m
<1>s. ASSUME proc' = proc, type' = type, cache' = cache
      PROVE  Dropping
  BY <1>s DEF Dropping
<1>r. ASSUME Started
      PROVE  Dropping
  BY <1>p, <1>r DEF Started, Dropping
<1>1. ASSUME NEW r \in Runs, StartRun(r) \/ ListProfilesError(r) \/ FinishRun(r)
      PROVE  Dropping
  BY <1>s, <1>1 DEF StartRun, ListProfilesError, FinishRun, stores
<1>2. ASSUME NEW r \in Runs, ListProfiles(r)
      PROVE  Dropping
  <2>1. \A p : [Idle EXCEPT !.pc = "get", !.p = p].pc \notin {"learn", "forward", "create"}
           /\ [Idle EXCEPT !.pc = "get", !.p = p].copy = NoCopy
    BY DEF Idle
  <2>2. type' = type /\ cache' = cache
    BY <1>2 DEF ListProfiles, stores
  <2>3. ASSUME NEW g \in Goroutine
        PROVE  \/ proc'[g] = proc[g]
               \/ proc'[g] = [Idle EXCEPT !.pc = "get", !.p = g[2]]
    BY <1>2 DEF ListProfiles
  <2> QED BY <2>1, <2>2, <2>3 DEF Dropping
<1>3. ASSUME NEW r \in Runs, NEW p \in Profile, GetProfile(r, p)
      PROVE  Dropping
  <2> DEFINE l == [proc[<<r, p>>] EXCEPT !.pc = "types", !.rev = profile[p]]
  <2>1. l.pc \notin {"learn", "forward", "create"} /\ l.copy = proc[<<r, p>>].copy
    BY <1>p DEF Worker
  <2>2. \/ proc' = [proc EXCEPT ![<<r, p>>] = l]
        \/ proc' = [proc EXCEPT ![<<r, p>>] = Idle]
    BY <1>3 DEF GetProfile, Return
  <2> HIDE DEF l
  <2>3. type' = type /\ cache' = cache
    BY <1>3 DEF GetProfile, stores
  <2> QED BY <1>m, <1>i, <2>1, <2>2, <2>3
<1>4. ASSUME NEW r \in Runs, NEW p \in Profile, Panic(r, p)
      PROVE  Dropping
  BY <1>r, <1>4 DEF Panic
<1>5. CASE XRead \/ XReadError
  BY <1>s, <1>5 DEF XRead, XReadError
<1>6. CASE Receive
  <2> DEFINE l == [Idle EXCEPT !.pc = "get", !.p = Head(stream)]
  <2>1. l.pc \notin {"learn", "forward", "create"} /\ l.copy = NoCopy
    BY DEF Idle
  <2>2. proc' = [proc EXCEPT ![Consumer] = l] /\ type' = type /\ cache' = cache
    BY <1>6 DEF Receive
  <2> HIDE DEF l
  <2> QED BY <1>m, <2>1, <2>2
<1>7. CASE GetChanged
  <2> DEFINE l == [proc[Consumer] EXCEPT !.pc = "item",
                     !.rev = profile[proc[Consumer].p]]
  <2>1. l.pc \notin {"learn", "forward", "create"} /\ l.copy = proc[Consumer].copy
    BY <1>p DEF Worker
  <2>2. \/ proc' = [proc EXCEPT ![Consumer] = l]
        \/ proc' = [proc EXCEPT ![Consumer] = Idle]
    BY <1>7 DEF GetChanged
  <2> HIDE DEF l
  <2>3. type' = type /\ cache' = cache
    BY <1>7 DEF GetChanged, stores
  <2> QED BY <1>m, <1>i, <2>1, <2>2, <2>3
<1>8. CASE FindItem
  <2> DEFINE l == [proc[Consumer] EXCEPT !.pc = "types"]
  <2>1. l.pc \notin {"learn", "forward", "create"} /\ l.copy = proc[Consumer].copy
    BY <1>p DEF Worker
  <2>2. \/ proc' = [proc EXCEPT ![Consumer] = l]
        \/ proc' = [proc EXCEPT ![Consumer] = Idle]
    BY <1>8 DEF FindItem
  <2> HIDE DEF l
  <2>3. type' = type /\ cache' = cache
    BY <1>8 DEF FindItem, stores
  <2> QED BY <1>m, <1>i, <2>1, <2>2, <2>3
<1>9. ASSUME NEW e \in Event, Forward(e) \/ EventError(e)
      PROVE  Dropping
  BY <1>i, <1>9 DEF Forward, EventError, stores
<1>10. ASSUME NEW t \in Type, Evict(t)
       PROVE  Dropping
  BY <1>p, <1>10 DEF Evict, Dropping
<1>11. ASSUME NEW p \in Profile, EditProfile(p) \/ DeleteProfile(p)
       PROVE  Dropping
  BY <1>s, <1>11 DEF EditProfile, DeleteProfile
<1>12. CASE Restart
  BY <1>r, <1>12 DEF Restart
<1>13. \A r \in Runs, p \in Profile : <<r, p>> \in Syncer
  BY DEF Syncer
<1> QED
  BY <1>1, <1>2, <1>3, <1>4, <1>5, <1>6, <1>7, <1>8, <1>9, <1>10, <1>11, <1>12, <1>13
  DEF Calls, SyncRun, Consume, HandleEvents

\* What an event writes back.
EventNew(e, t) == Learned(proc[e].copy[t], proc[e].s, proc[e].set, proc[e].null)

LEMMA EnsureFacts ==
  ASSUME NEW e \in Event, Core, CopyInv, EnsureService(e)
  PROVE  \E t \in Type :
           /\ Holds(e, t) /\ EventNew(e, t) \in DeviceType /\ type[t] # None
           /\ \A u \in Type \ {t} : ~Holds(e, u)
           /\ \/ EventNew(e, t) = proc[e].copy[t] /\ type' = type /\ cache' = cache
              \/ /\ type' = [type EXCEPT ![t] = EventNew(e, t)]
                 /\ cache' = [cache EXCEPT ![t] = EventNew(e, t)]
           /\ \A g \in Goroutine : g # e => proc'[g] = proc[g]
           /\ proc'[e].copy = NoCopy /\ proc'[e].pc = "forward"
<1>1. PICK t \in Type :
        /\ Holds(e, t)
        /\ \/ EventNew(e, t) = proc[e].copy[t] /\ type' = type /\ cache' = cache
           \/ /\ type' = [type EXCEPT ![t] = EventNew(e, t)]
              /\ cache' = [cache EXCEPT ![t] = EventNew(e, t)]
  BY DEF EnsureService, EventNew
<1>2. At(e, "learn") /\ e \in Goroutine
  BY Domains DEF EnsureService
<1>3. EventNew(e, t) \in DeviceType
  BY <1>1, <1>2, EventLearns DEF EventNew
<1>4. type[t] # None /\ \A u \in Type \ {t} : ~Holds(e, u)
  BY <1>1, <1>2 DEF CopyInv, CopyOK, OneCopy
<1>5. /\ \A g \in Goroutine : g # e => proc'[g] = proc[g]
      /\ proc'[e].copy = NoCopy /\ proc'[e].pc = "forward"
  BY <1>2 DEF EnsureService, Core, ProcType, Idle
<1> QED
  BY <1>1, <1>3, <1>4, <1>5

LEMMA EnsureCopies ==
  ASSUME NEW e \in Event, Core, CopyInv, EnsureService(e), Observed({}), NEW t \in Type
  PROVE  CopyOK(t)'
<1>1. PICK u \in Type :
        /\ Holds(e, u) /\ EventNew(e, u) \in DeviceType /\ type[u] # None
        /\ \A v \in Type \ {u} : ~Holds(e, v)
        /\ \/ EventNew(e, u) = proc[e].copy[u] /\ type' = type /\ cache' = cache
           \/ /\ type' = [type EXCEPT ![u] = EventNew(e, u)]
              /\ cache' = [cache EXCEPT ![u] = EventNew(e, u)]
        /\ \A g \in Goroutine : g # e => proc'[g] = proc[g]
        /\ proc'[e].copy = NoCopy /\ proc'[e].pc = "forward"
  BY EnsureFacts
<1>2. /\ \A g \in Goroutine : proc'[g].copy[t] \in {proc[g].copy[t], None}
      /\ ~Holds(e, t)' /\ e \in Goroutine /\ CopyOK(t)
      /\ type \in [Type -> DeviceType \cup {None}]
      /\ cache \in [Type -> DeviceType \cup {None}]
  BY <1>1, Domains DEF NoCopy, Holds, CopyInv, Core, StoreType
<1>3. CASE type'[t] = type[t] /\ cache'[t] = cache[t]
  BY <1>2, <1>3, CopyStep
<1>4. CASE t = u /\ type'[t] = EventNew(e, t) /\ cache'[t] = EventNew(e, t)
  <2>1. type'[t] # None
    BY <1>1, <1>4, NewIsType
  <2>2. ASSUME t \notin raced'
        PROVE  /\ t \notin raced
               /\ \A g, h \in Goroutine : Holds(g, t)' /\ Holds(h, t)' => g = h
    BY <1>4, <2>1, <2>2, RacedFacts
  <2>3. t \notin raced => \A g \in Goroutine : ~Holds(g, t)'
    BY <1>1, <1>2, <1>4 DEF CopyOK, Holds
  <2> QED BY <1>4, <2>1, <2>2, <2>3 DEF CopyOK
<1> QED
  BY <1>1, <1>2, <1>3, <1>4

LEMMA HandleCopies ==
  ASSUME NEW e \in Event, Core, CopyInv, HandleEvent(e)
  PROVE  /\ type' = type
         /\ \A t \in Type :
              /\ cache'[t] \in {cache[t], type[t], None}
              /\ \A g \in Goroutine :
                   proc'[g].copy[t] \in {proc[g].copy[t], cache[t], type[t], None}
         /\ \A g \in Goroutine : g # e => proc'[g] = proc[g]
         /\ \A t, u \in Type : Holds(e, t)' /\ Holds(e, u)' => t = u
<1>1. PICK t \in Type, s \in Service \cup {Status}, set, null \in SUBSET Var :
       /\ type[t] # None
       /\ set \cap null = {} /\ (s = Status => set \cup null = {})
       /\ cache' = [cache EXCEPT ![t] = Cached(t)]
       /\ proc' = [proc EXCEPT ![e] =
            [Idle EXCEPT !.pc = "learn", !.copy = [NoCopy EXCEPT ![t] = Cached(t)],
                         !.s = s, !.set = set, !.null = null]]
  BY DEF HandleEvent
<1>2. e \in Goroutine
  BY Domains
<1>3. /\ proc'[e].copy = [NoCopy EXCEPT ![t] = Cached(t)]
      /\ \A g \in Goroutine : g # e => proc'[g] = proc[g]
  BY <1>1, <1>2 DEF Core, ProcType, Idle
<1>4. \A u \in Type :
        /\ u # t => proc'[e].copy[u] = None /\ cache'[u] = cache[u]
        /\ u = t => /\ proc'[e].copy[u] \in {cache[u], type[u]}
                    /\ cache'[u] \in {cache[u], type[u]}
  BY <1>1, <1>3 DEF NoCopy, Cached, Core, StoreType
<1>5. type' = type
  BY DEF HandleEvent
<1> QED
  BY <1>3, <1>4, <1>5 DEF Holds

LEMMA LoseFacts ==
  ASSUME NEW e \in Event, NEW t \in Type, Core, CopyInv, LoseUpdate(e, t)
  PROVE  /\ type[t] # None /\ EventNew(e, t) \in DeviceType
         /\ type' = [type EXCEPT ![t] = EventNew(e, t)] /\ cache' = cache
         /\ \A g \in Goroutine : g # e => proc'[g] = proc[g]
         /\ proc'[e].copy = NoCopy /\ proc'[e].pc = "idle"
<1>1. At(e, "learn") /\ Holds(e, t) /\ e \in Goroutine
  BY Domains DEF LoseUpdate
<1>2. EventNew(e, t) \in DeviceType
  BY <1>1, EventLearns DEF EventNew
<1>3. type[t] # None
  BY <1>1 DEF CopyInv, CopyOK
<1>4. /\ \A g \in Goroutine : g # e => proc'[g] = proc[g]
      /\ proc'[e].copy = NoCopy /\ proc'[e].pc = "idle"
  BY <1>1 DEF LoseUpdate, Core, ProcType, Idle
<1> QED
  BY <1>2, <1>3, <1>4 DEF LoseUpdate, EventNew

LEMMA CallsCopies ==
  ASSUME Core, CopyInv, Calls, Observed({})
  PROVE  CopyInv'
<1>e. \A e \in Event : e \in Goroutine
  BY Domains
<1>1. CASE Dropping
  <2>1. ASSUME NEW t \in Type PROVE CopyOK(t)'
    BY <1>1, CopyStep DEF Dropping, CopyInv, NoCopy
  <2>2. OneCopy'
    BY <1>1, <1>e DEF Dropping, CopyInv, OneCopy, At, Holds
  <2> QED BY <2>1, <2>2 DEF CopyInv
<1>2. ASSUME NEW g \in Syncer, Sync(g) PROVE CopyInv'
  <2>1. ASSUME NEW t \in Type PROVE CopyOK(t)'
    BY <1>2, <2>1, SyncCopies, CopyStep DEF CopyInv
  <2>2. ASSUME NEW e \in Event, At(e, "learn")',
               NEW t \in Type, NEW u \in Type, Holds(e, t)', Holds(e, u)'
        PROVE  t = u
    <3>1. proc'[e] = proc[e]
      BY <1>2, <1>e, <2>2, SyncCopies DEF CopyInv, At
    <3> QED BY <2>2, <3>1 DEF CopyInv, OneCopy, At, Holds
  <2> QED BY <2>1, <2>2 DEF CopyInv, OneCopy
<1>3. ASSUME NEW e \in Event, HandleEvent(e) PROVE CopyInv'
  <2>1. ASSUME NEW t \in Type PROVE CopyOK(t)'
    BY <1>3, HandleCopies, CopyStep DEF CopyInv
  <2>2. OneCopy'
    BY <1>3, <1>e, HandleCopies DEF CopyInv, OneCopy, At, Holds
  <2> QED BY <2>1, <2>2 DEF CopyInv
<1>4. ASSUME NEW e \in Event, EnsureService(e) PROVE CopyInv'
  <2>1. OneCopy'
    BY <1>4, <1>e, EnsureFacts DEF CopyInv, OneCopy, At, Holds
  <2> QED BY <1>4, <2>1, EnsureCopies DEF CopyInv
<1> QED
  BY <1>1, <1>2, <1>3, <1>4, OtherSteps

LEMMA LoseCopies ==
  ASSUME NEW e \in Event, NEW t \in Type, Core, CopyInv, LoseUpdate(e, t), Observed({t})
  PROVE  CopyInv'
<1>1. ASSUME NEW u \in Type PROVE CopyOK(u)'
  <2>1. \A g \in Goroutine : proc'[g].copy[u] \in {proc[g].copy[u], None}
    BY LoseFacts DEF NoCopy
  <2>2. type[u] # None =>
          type'[u] # None /\ (u \notin raced /\ u \notin {t} => type'[u].svc = type[u].svc)
    BY LoseFacts, NewIsType DEF Core, StoreType
  <2>3. cache'[u] = cache[u]
    BY LoseFacts
  <2> QED BY <2>1, <2>2, <2>3, CopyStep DEF CopyInv
<1>2. OneCopy'
  BY Domains, LoseFacts DEF CopyInv, OneCopy, At, Holds
<1> QED
  BY <1>1, <1>2 DEF CopyInv

LEMMA InitCopies == Init => CopyInv
<1> SUFFICES ASSUME Init PROVE CopyInv
  OBVIOUS
<1>1. \A t \in Type : cache[t] = None /\ \A g \in Goroutine : ~Holds(g, t)
  BY DEF Init, Holds, Idle, NoCopy
<1>2. \A g \in Goroutine : ~At(g, "learn")
  BY DEF Init, At, Idle
<1> QED
  BY <1>1, <1>2, Domains DEF CopyInv, CopyOK, OneCopy

LEMMA StepCopies == TypeInv /\ CopyInv /\ [Next]_vars => CopyInv'
<1> SUFFICES ASSUME TypeInv, CopyInv, [Next]_vars PROVE CopyInv'
  OBVIOUS
<1> USE DEF TypeInv, Core
<1>1. ASSUME Calls, Observed({}) PROVE CopyInv'
  BY <1>1, CallsCopies
<1>2. ASSUME NEW e \in Event, NEW t \in Type, LoseUpdate(e, t), Observed({t})
      PROVE  CopyInv'
  BY <1>2, LoseCopies
<1>3. CASE UNCHANGED vars
  BY <1>3 DEF vars, stores, CopyInv, CopyOK, OneCopy, At, Holds
<1> QED
  BY <1>1, <1>2, <1>3 DEF Next

-----------------------------------------------------------------------------
(* What types keep, and what events have made known.                       *)

Keeps(t, s) ==
  /\ type'[t] # None /\ type'[t].svc[s] # None
  /\ \A x \in type[t].svc[s] \ type'[t].svc[s] :
       \E e \in Event : At(e, "learn") /\ x \in proc[e].null

\* An event writes what it has learned into the type that it has the services of.
LEMMA LearnedKeeps ==
  ASSUME Core, CopyInv, NEW e \in Event, At(e, "learn"), NEW t \in Type, Holds(e, t),
         type'[t] = EventNew(e, t), t \notin raced, NEW s \in Service,
         type[t].svc[s] # None
  PROVE  Keeps(t, s)
<1> DEFINE base == proc[e].copy[t]
<1>1. /\ base \in DeviceType /\ proc[e].s \in Service \cup {Status}
      /\ proc[e].set \in SUBSET Var /\ proc[e].null \in SUBSET Var
  BY EventLearns
<1>2. base.svc = type[t].svc
  BY Domains DEF CopyInv, CopyOK
<1> HIDE DEF base
<1>3. EventNew(e, t) = Learned(base, proc[e].s, proc[e].set, proc[e].null)
  BY DEF EventNew, base
<1>4. EventNew(e, t) \in DeviceType
  BY <1>1, <1>3, LearnedType
<1>5. CASE s = proc[e].s
  <2>1. /\ EventNew(e, t).svc[s] \in SUBSET Var
        /\ base.svc[s] \ proc[e].null \subseteq EventNew(e, t).svc[s]
    BY <1>1, <1>2, <1>3, <1>5, LearnedService
  <2> QED BY <1>2, <1>4, <2>1, NewIsType DEF Keeps
<1>6. CASE s # proc[e].s
  <2>1. EventNew(e, t).svc[s] = base.svc[s]
    BY <1>1, <1>3, <1>6, LearnedOther
  <2> QED BY <1>2, <1>4, <2>1, NewIsType DEF Keeps
<1> QED
  BY <1>5, <1>6

\* A goroutine that writes a device type whole loses no service and no variable
\* of it, as long as goroutines do so one after the other: also when the copy
\* comes from the cache (SyncDeviceProfile, ensureSyncedService).
THEOREM ServicesCorrect == Spec => ServicesKept
<1>1. Init => TypeInv /\ CopyInv
  BY InitType, InitCopies
<1>2. TypeInv /\ CopyInv /\ [Next]_vars => (TypeInv /\ CopyInv)'
  BY StepType, StepCopies
<1>3. TypeInv /\ CopyInv /\ [Next]_vars =>
        [\A t \in Type, s \in Service :
           type[t] # None /\ t \notin raced /\ type[t].svc[s] # None =>
             /\ type'[t] # None /\ type'[t].svc[s] # None
             /\ \A x \in type[t].svc[s] \ type'[t].svc[s] :
                  \E e \in Event : At(e, "learn") /\ x \in proc[e].null]_vars
  <2> SUFFICES ASSUME Core, CopyInv, Next, NEW t \in Type, NEW s \in Service,
                      type[t] # None, t \notin raced, type[t].svc[s] # None
               PROVE  Keeps(t, s)
    BY DEF TypeInv, Core, Keeps
  <2>1. CASE type'[t] = type[t]
    BY <2>1 DEF Keeps
  <2>2. ASSUME NEW g \in Syncer, Sync(g) PROVE Keeps(t, s)
    <3>1. type'[t] # None /\ type'[t].svc = type[t].svc
      BY <2>2, SyncCopies DEF CopyInv
    <3> QED BY <3>1 DEF Keeps
  <2>3. ASSUME NEW e \in Event, EnsureService(e) PROVE Keeps(t, s)
    <3>1. PICK u \in Type :
            /\ Holds(e, u)
            /\ \/ type' = type
               \/ type' = [type EXCEPT ![u] = EventNew(e, u)]
      BY <2>3, EnsureFacts
    <3>2. At(e, "learn")
      BY <2>3 DEF EnsureService
    <3>3. type'[t] = type[t] \/ (t = u /\ type'[t] = EventNew(e, t))
      BY <3>1 DEF Core, StoreType
    <3> QED BY <2>1, <3>1, <3>2, <3>3, LearnedKeeps
  <2>4. ASSUME NEW e \in Event, NEW u \in Type, LoseUpdate(e, u) PROVE Keeps(t, s)
    <3>1. At(e, "learn") /\ Holds(e, u)
      BY <2>4 DEF LoseUpdate
    <3>2. type'[t] = type[t] \/ (t = u /\ type'[t] = EventNew(e, t))
      BY <2>4, LoseFacts DEF Core, StoreType
    <3> QED BY <2>1, <3>1, <3>2, LearnedKeeps
  <2>5. CASE Calls
    <3>1. ASSUME NEW e \in Event, HandleEvent(e) PROVE type'[t] = type[t]
      BY <3>1 DEF HandleEvent
    <3> QED BY <2>1, <2>2, <2>3, <2>5, <3>1, OtherSteps DEF Dropping
  <2> QED BY <2>4, <2>5 DEF Next
<1> QED
  BY <1>1, <1>2, <1>3, PTL DEF Spec, ServicesKept

\* An event that is forwarded is one that its device type describes, although the
\* handler may have looked at a cached type only (HandleEvent).
THEOREM EventCorrect == Spec => EventLearned
<1>1. Init => TypeInv /\ CopyInv
  BY InitType, InitCopies
<1>2. TypeInv /\ CopyInv /\ [Next]_vars => (TypeInv /\ CopyInv)'
  BY StepType, StepCopies
<1>3. TypeInv /\ CopyInv /\ [Next]_vars =>
        [\A e \in Event, t \in Type :
           At(e, "learn") /\ At(e, "forward")' /\ Holds(e, t) /\ t \notin raced
             /\ proc[e].s # Status =>
               /\ type'[t].svc[proc[e].s] # None
               /\ proc[e].set \subseteq type'[t].svc[proc[e].s]]_vars
  <2> SUFFICES ASSUME Core, CopyInv, Next, NEW e \in Event, NEW t \in Type,
                      At(e, "learn"), At(e, "forward")', Holds(e, t), t \notin raced,
                      proc[e].s # Status
               PROVE  /\ type'[t].svc[proc[e].s] # None
                      /\ proc[e].set \subseteq type'[t].svc[proc[e].s]
    BY DEF TypeInv, Core
  <2>1. /\ proc[e].copy[t] \in DeviceType /\ proc[e].s \in Service
        /\ proc[e].set \in SUBSET Var /\ proc[e].null \in SUBSET Var
        /\ e \in Goroutine
    BY EventLearns, Domains
  <2>2. /\ EventNew(e, t).svc[proc[e].s] \in SUBSET Var
        /\ proc[e].set \subseteq EventNew(e, t).svc[proc[e].s]
    BY <2>1, LearnedService DEF EventNew
  <2>3. ASSUME type'[t].svc = EventNew(e, t).svc
        PROVE  /\ type'[t].svc[proc[e].s] # None
               /\ proc[e].set \subseteq type'[t].svc[proc[e].s]
    BY <2>2, <2>3, NewIsType
  <2>4. CASE EnsureService(e)
    <3>1. PICK u \in Type :
            /\ \A v \in Type \ {u} : ~Holds(e, v)
            /\ \/ EventNew(e, u) = proc[e].copy[u] /\ type' = type
               \/ type' = [type EXCEPT ![u] = EventNew(e, u)]
      BY <2>4, EnsureFacts
    <3>2. u = t
      BY <3>1
    <3>3. proc[e].copy[t].svc = type[t].svc
      BY <2>1 DEF CopyInv, CopyOK
    <3> QED BY <2>3, <3>1, <3>2, <3>3 DEF Core, StoreType
  <2>5. proc'[e] # proc[e]
    BY DEF At
  <2>6. ~Dropping
    BY <2>1, <2>5 DEF Dropping, At
  <2>7. ASSUME NEW g \in Syncer, Sync(g) PROVE FALSE
    <3>1. g # e
      BY TypesAssumption
    <3> QED BY <2>1, <2>5, <2>7, <3>1, SyncCopies DEF CopyInv
  <2>8. ASSUME NEW h \in Event, HandleEvent(h) PROVE FALSE
    <3>1. h # e
      BY <2>8 DEF HandleEvent, At
    <3> QED BY <2>1, <2>5, <2>8, <3>1, HandleCopies
  <2>9. ASSUME NEW h \in Event, EnsureService(h), h # e PROVE FALSE
    BY <2>1, <2>5, <2>9, EnsureFacts
  <2>10. ASSUME NEW h \in Event, NEW u \in Type, LoseUpdate(h, u) PROVE FALSE
    BY <2>1, <2>5, <2>10, LoseFacts DEF At
  <2> QED
    BY <2>4, <2>6, <2>7, <2>8, <2>9, <2>10, OtherSteps DEF Next
<1> QED
  BY <1>1, <1>2, <1>3, PTL DEF Spec, EventLearned

-----------------------------------------------------------------------------
(* How many device types a profile has.                                    *)

Creating(g, p) == At(g, "create") /\ proc[g].p = p
\* A goroutine that is about to create a type has found none, and there is none
\* yet unless another was about to do so, too.
ProfileOK(p) ==
  p \notin doubled =>
    /\ \A g \in Syncer : Creating(g, p) => TypesOf(p) = {}
    /\ \A g, h \in Syncer : Creating(g, p) /\ Creating(h, p) => g = h
    /\ \A t, u \in TypesOf(p) : t = u
ProfileInv == \A p \in Profile : ProfileOK(p)

LEMMA DoubledFacts ==
  ASSUME NEW lost, Observed(lost), NEW p \in Profile, p \notin doubled'
  PROVE  /\ p \notin doubled
         /\ \A g, h \in Syncer : Creating(g, p)' /\ Creating(h, p)' => g = h
BY Domains DEF Observed, Creating, At

\* Steps in which no type comes into being, and nobody decides to create one
\* unless there is none.
LEMMA NothingNew ==
  ASSUME NEW lost, Observed(lost), NEW p \in Profile, ProfileOK(p),
         \A t \in Type : type'[t] # None => type[t] # None,
         \A g \in Syncer : Creating(g, p)' => Creating(g, p) \/ TypesOf(p) = {}
  PROVE  ProfileOK(p)'
BY DoubledFacts DEF ProfileOK, TypesOf

LEMMA SyncCreates ==
  ASSUME NEW g \in Syncer, Core, CopyInv, Sync(g), NEW lost, Observed(lost),
         NEW p \in Profile, ProfileOK(p)
  PROVE  ProfileOK(p)'
<1> USE Domains DEF At, Holds, Core
<1>g. /\ g \in Goroutine /\ proc \in [Goroutine -> Worker]
      /\ type \in [Type -> DeviceType \cup {None}] /\ Idle.pc = "idle"
  BY DEF ProcType, StoreType, Idle
\* The goroutine ends.
<1>e. ASSUME proc' = [proc EXCEPT ![g] = Idle]
      PROVE  \A h \in Syncer : Creating(h, p)' => Creating(h, p) /\ h # g
  BY <1>g, <1>e DEF Creating
<1>n. ASSUME NEW t \in Type, proc[g].pc = "create", ProfileOf[t] = proc[g].p,
             type' = [type EXCEPT ![t] = New(proc[g].rev)],
             proc' = [proc EXCEPT ![g] = Idle]
      PROVE  ProfileOK(p)'
  <2>1. CASE p # proc[g].p
    <3>1. TypesOf(p)' = TypesOf(p)
      BY <1>g, <1>n, <2>1 DEF TypesOf
    <3> QED BY <1>e, <1>n, <3>1, DoubledFacts DEF ProfileOK
  <2>2. CASE p = proc[g].p
    <3>1. ASSUME p \notin doubled'
          PROVE  /\ \A h \in Syncer : ~Creating(h, p)'
                 /\ TypesOf(p)' \subseteq {t}
      <4>1. Creating(g, p) /\ p \notin doubled
        BY <1>n, <2>2, <3>1, DoubledFacts DEF Creating
      <4>2. TypesOf(p) = {} /\ \A h \in Syncer : Creating(h, p) => h = g
        BY <4>1 DEF ProfileOK
      <4>3. TypesOf(p)' \subseteq {t}
        BY <1>g, <1>n, <4>2 DEF TypesOf
      <4> QED BY <1>e, <1>n, <4>2, <4>3
    <3> QED BY <3>1 DEF ProfileOK
  <2> QED BY <2>1, <2>2
\* No other goroutine moves; this one goes to pc.
<1>m. ASSUME \A t \in Type : type'[t] # None => type[t] # None,
             \A h \in Goroutine : h # g => proc'[h] = proc[h],
             proc'[g].pc = "create" =>
               \/ proc'[g] = proc[g]
               \/ proc'[g].p = proc[g].p /\ TypesOf(proc[g].p) = {}
      PROVE  ProfileOK(p)'
  <2>1. ASSUME NEW h \in Syncer, Creating(h, p)'
        PROVE  Creating(h, p) \/ TypesOf(p) = {}
    BY <1>m, <2>1 DEF Creating
  <2> QED BY <1>m, <2>1, NothingNew
\* A type that is there is written.
<1>w. ASSUME NEW t \in Type, proc[g].copy[t] # None,
             NEW dt, type' = [type EXCEPT ![t] = dt]
      PROVE  \A u \in Type : type'[u] # None => type[u] # None
  BY <1>g, <1>w DEF CopyInv, CopyOK
<1>1. CASE ListTypes(g)
  <2>1. /\ \A h \in Goroutine : h # g => proc'[h] = proc[h]
        /\ proc'[g].pc = "create" =>
             proc'[g].p = proc[g].p /\ TypesOf(proc[g].p) = {}
    <3>1. CASE /\ TypesOf(proc[g].p) = {}
               /\ proc' = [proc EXCEPT ![g].pc = "create"]
      BY <1>g, <3>1 DEF Worker
    <3>2. CASE proc' = [proc EXCEPT ![g] = Idle]
      BY <1>g, <3>2
    <3>3. ASSUME NEW old,
                 proc' = [proc EXCEPT ![g].pc = "set",
                           ![g].copy = [x \in Type |-> IF x \in old THEN type[x]
                                                       ELSE None]]
          PROVE  /\ \A h \in Goroutine : h # g => proc'[h] = proc[h]
                 /\ proc'[g].pc = "set"
      BY <1>g, <3>3 DEF Worker
    <3> QED BY <1>1, <3>1, <3>2, <3>3 DEF ListTypes, Return
  <2> QED BY <1>1, <1>m, <2>1 DEF ListTypes, stores
<1>2. CASE SetType(g)
  <2>1. \A u \in Type : type'[u] # None => type[u] # None
    BY <1>2, <1>w DEF SetType
  <2>2. proc'[g].pc # "create" /\ \A h \in Goroutine : h # g => proc'[h] = proc[h]
    BY <1>2, <1>g DEF SetType, Worker
  <2> QED BY <1>m, <2>1, <2>2
<1>3. CASE CreateType(g)
  BY <1>3, <1>n DEF CreateType
<1>4. CASE SyncError(g)
  <2>1. type' = type /\ proc' = [proc EXCEPT ![g] = Idle]
    BY <1>4 DEF SyncError, Return, stores
  <2> QED BY <1>g, <1>m, <2>1
<1>5. CASE SyncReplyLost(g)
  <2>1. proc' = [proc EXCEPT ![g] = Idle]
    BY <1>5 DEF SyncReplyLost
  <2>2. CASE \A u \in Type : type'[u] # None => type[u] # None
    BY <1>g, <1>m, <2>1, <2>2
  <2> QED BY <1>5, <1>w, <1>n, <2>1, <2>2 DEF SyncReplyLost
<1> QED
  BY <1>1, <1>2, <1>3, <1>4, <1>5 DEF Sync

\* Events update types that are there.
LEMMA EventCreates ==
  ASSUME NEW e \in Event, Core, CopyInv, NEW lost, Observed(lost),
         HandleEvent(e) \/ EnsureService(e) \/ \E t \in Type : LoseUpdate(e, t),
         NEW p \in Profile, ProfileOK(p)
  PROVE  ProfileOK(p)'
<1>1. \A t \in Type : type'[t] # None => type[t] # None
  BY HandleCopies, EnsureFacts, LoseFacts DEF Core, StoreType
<1>2. \A g \in Goroutine : g # e => proc'[g] = proc[g]
  BY HandleCopies, EnsureFacts, LoseFacts
<1>3. \A g \in Syncer : g \in Goroutine /\ g # e
  BY Domains, TypesAssumption
<1>4. \A g \in Syncer : Creating(g, p)' => Creating(g, p)
  BY <1>2, <1>3 DEF Creating, At
<1> QED
  BY <1>1, <1>4, NothingNew

LEMMA StepProfile ==
  TypeInv /\ CopyInv /\ ProfileInv /\ [Next]_vars => ProfileInv'
<1> SUFFICES ASSUME Core, CopyInv, NEW p \in Profile, ProfileOK(p), [Next]_vars
             PROVE  ProfileOK(p)'
  BY DEF TypeInv, Core, ProfileInv
<1>1. ASSUME Calls, Observed({}) PROVE ProfileOK(p)'
  <2>1. CASE Dropping
    <3>1. \A g \in Syncer : Creating(g, p)' => Creating(g, p)
      BY <2>1, Domains DEF Dropping, Creating, At
    <3> QED BY <1>1, <2>1, <3>1, NothingNew DEF Dropping
  <2> QED BY <1>1, <2>1, OtherSteps, SyncCreates, EventCreates
<1>2. ASSUME NEW e \in Event, NEW t \in Type, LoseUpdate(e, t), Observed({t})
      PROVE  ProfileOK(p)'
  BY <1>2, EventCreates
<1>3. CASE UNCHANGED vars
  BY <1>3 DEF vars, stores, ProfileOK, Creating, TypesOf, At
<1> QED
  BY <1>1, <1>2, <1>3 DEF Next

LEMMA InitProfile == Init => ProfileInv
<1> SUFFICES ASSUME Init, NEW p \in Profile PROVE ProfileOK(p)
  BY DEF ProfileInv
<1>1. TypesOf(p) = {}
  BY DEF Init, TypesOf
<1>2. \A g \in Syncer : ~Creating(g, p)
  BY Domains DEF Init, Creating, At, Idle
<1> QED
  BY <1>1, <1>2 DEF ProfileOK

LEMMA ProfileImplies == TypeInv /\ ProfileInv => OneTypePerProfile
BY TypesAssumption DEF ProfileInv, ProfileOK, TypesOf, OneTypePerProfile

\* A profile has one device type, whatever fails, is lost or is restarted,
\* unless two goroutines were about to create it at once (SyncDeviceProfile).
THEOREM ProfileCorrect == Spec => []OneTypePerProfile
<1>1. Init => TypeInv /\ CopyInv /\ ProfileInv
  BY InitType, InitCopies, InitProfile
<1>2. TypeInv /\ CopyInv /\ ProfileInv /\ [Next]_vars
        => (TypeInv /\ CopyInv /\ ProfileInv)'
  BY StepType, StepCopies, StepProfile
<1> QED
  BY <1>1, <1>2, ProfileImplies, PTL DEF Spec

-----------------------------------------------------------------------------
(***************************************************************************)
(* A sync of the device types that nothing disturbs brings the type of     *)
(* every profile up to date, whatever earlier syncs left.                  *)
(***************************************************************************)

\* A run that the properties speak of, and what it has to achieve.
Good(r) == run[r].quiet /\ ~run[r].failed
UpToDate(t) == type[t].rev = profile[ProfileOf[t]] /\ ~type[t].float
Current(p) == TypesOf(p) # {} /\ \A t \in TypesOf(p) : UpToDate(t)

\* The pages that the run has read contain p if p is live.
Listed(r, p) ==
  \/ run[r].pc \in {"syncing", "done"}
  \/ run[r].pc = "list" /\ Rank(p) <= run[r].offset

\* What the goroutine of profile p holds is what the stores have.
HeldOK(r, p) ==
  LET g == <<r, p>> IN
  /\ proc[g].pc \in {"idle", "get", "types", "set", "create"}
  /\ proc[g].pc # "idle" => proc[g].p = p /\ Live(p)
  /\ proc[g].pc \in {"types", "set", "create"} => proc[g].rev = profile[p]
  /\ At(g, "set") => \A t \in Type : Holds(g, t) => t \in TypesOf(p)

\* How far the profile is.
ProgressOK(r, p) ==
  LET g == <<r, p>> IN
  /\ ~Listed(r, p) => At(g, "idle")
  /\ At(g, "set") => /\ TypesOf(p) # {}
                     /\ \A t \in TypesOf(p) : Holds(g, t) \/ UpToDate(t)
  /\ At(g, "create") => TypesOf(p) = {}
  /\ At(g, "idle") /\ Listed(r, p) /\ p \in InRegion /\ Live(p) => Current(p)

RunOK(r) ==
  /\ run[r].err => run[r].failed
  /\ run[r].pc \in {"off", "done"} => \A p \in Profile : At(<<r, p>>, "idle")
  /\ Good(r) => \A p \in Profile : HeldOK(r, p) /\ ProgressOK(r, p)

SyncInv == \A r \in Runs : RunOK(r)

-----------------------------------------------------------------------------
(* Ranks and pages.                                                        *)

\* Among finite sets of numbers with a property there is one none of whose
\* proper subsets has it.
LEMMA SmallestSet ==
  ASSUME NEW Bad, Bad \subseteq FiniteSubsetsOf(Nat), Bad # {}
  PROVE  \E G \in Bad : \A x \in G : G \ {x} \notin Bad
<1>1. PICK G \in Bad : \A H \in Bad : <<H, G>> \notin StrictSubsetOrdering(Nat)
  BY FS_StrictSubsetOrderingWellFounded, WFMin
<1>2. ASSUME NEW x \in G, G \ {x} \in Bad PROVE FALSE
  BY <1>1, <1>2 DEF StrictSubsetOrdering, FiniteSubsetsOf
<1> QED
  BY <1>2

LEMMA LargestNumber ==
  ASSUME NEW F, F \in SUBSET Nat, IsFiniteSet(F), F # {}
  PROVE  \E m \in F : \A x \in F : x <= m
<1> DEFINE Bad == {G \in FiniteSubsetsOf(Nat) :
                     G # {} /\ \A m \in G : \E x \in G : ~(x <= m)}
<1> SUFFICES ASSUME Bad # {} PROVE FALSE
  BY DEF FiniteSubsetsOf
<1>1. PICK G \in Bad : \A x \in G : G \ {x} \notin Bad
  <2>1. Bad \subseteq FiniteSubsetsOf(Nat)
    OBVIOUS
  <2> HIDE DEF Bad
  <2> QED BY <2>1, SmallestSet
<1>2. PICK x \in G : TRUE
  OBVIOUS
<1>3. /\ G \in SUBSET Nat /\ IsFiniteSet(G)
      /\ \A m \in G : \E y \in G : ~(y <= m)
  BY DEF FiniteSubsetsOf
<1>4. G \ {x} \in FiniteSubsetsOf(Nat)
  BY <1>3, FS_RemoveElement DEF FiniteSubsetsOf
<1>5. G \ {x} # {}
  <2>1. PICK y \in G : ~(y <= x)
    BY <1>2, <1>3
  <2> QED BY <1>2, <1>3, <2>1
<1>6. PICK m \in G \ {x} : \A y \in G \ {x} : y <= m
  BY <1>1, <1>2, <1>4, <1>5
<1>7. \A y \in G : y <= IF x <= m THEN m ELSE x
  BY <1>2, <1>3, <1>6
<1> QED
  BY <1>2, <1>3, <1>6, <1>7

\* Every number up to the size of a finite set is the rank of one of its
\* elements.
LEMMA RanksTaken ==
  ASSUME NEW F, F \in SUBSET Nat, IsFiniteSet(F), NEW k \in 1 .. Cardinality(F)
  PROVE  \E q \in F : Cardinality({x \in F : x <= q}) = k
<1> DEFINE Below(G, q) == {x \in G : x <= q}
           Bad == {G \in FiniteSubsetsOf(Nat) :
                     /\ k \in 1 .. Cardinality(G)
                     /\ \A q \in G : Cardinality(Below(G, q)) # k}
<1> SUFFICES ASSUME Bad # {} PROVE FALSE
  BY DEF FiniteSubsetsOf
<1>1. PICK G \in Bad : \A x \in G : G \ {x} \notin Bad
  <2>1. Bad \subseteq FiniteSubsetsOf(Nat)
    OBVIOUS
  <2> HIDE DEF Bad
  <2> QED BY <2>1, SmallestSet
<1>2. /\ G \in SUBSET Nat /\ IsFiniteSet(G) /\ k \in 1 .. Cardinality(G)
      /\ \A q \in G : Cardinality(Below(G, q)) # k
  BY DEF FiniteSubsetsOf
<1>3. G # {}
  BY <1>2, FS_EmptySet
<1>4. PICK m \in G : \A x \in G : x <= m
  BY <1>2, <1>3, LargestNumber
<1>5. Below(G, m) = G
  BY <1>4
<1>6. Cardinality(G) \in Nat /\ Cardinality(G) # k
  BY <1>2, <1>5, FS_CardinalityType
<1>7. /\ G \ {m} \in FiniteSubsetsOf(Nat)
      /\ k \in 1 .. Cardinality(G \ {m})
  <2>1. /\ IsFiniteSet(G \ {m})
        /\ Cardinality(G \ {m}) = Cardinality(G) - 1
    BY <1>2, <1>4, FS_RemoveElement
  <2>2. G \ {m} \in SUBSET Nat
    BY <1>2
  <2>3. k \in 1 .. Cardinality(G) - 1
    BY <1>2, <1>6
  <2> QED BY <2>1, <2>2, <2>3 DEF FiniteSubsetsOf
<1>8. PICK q \in G \ {m} : Cardinality(Below(G \ {m}, q)) = k
  BY <1>1, <1>7
<1>9. Below(G \ {m}, q) = Below(G, q)
  BY <1>2, <1>4, <1>8
<1> QED
  BY <1>2, <1>8, <1>9

\* The live profiles up to p.
UpTo(p) == {q \in Profile : Live(q) /\ q <= p}

LEMMA UpToFinite ==
  ASSUME NEW p \in Profile
  PROVE  UpTo(p) \in SUBSET Nat /\ IsFiniteSet(UpTo(p)) /\ Rank(p) \in Nat
BY TypesAssumption, FS_BoundedSetOfNaturals, FS_CardinalityType DEF UpTo, Rank

LEMMA RankMonotonic ==
  ASSUME NEW p \in Profile, NEW q \in Profile, p <= q
  PROVE  Rank(p) <= Rank(q)
<1>1. UpTo(p) \in SUBSET UpTo(q)
  <2>1. ASSUME NEW x \in Profile, x <= p PROVE x <= q
    <3>1. x \in Nat /\ p \in Nat /\ q \in Nat
      BY TypesAssumption
    <3> QED BY <2>1, <3>1
  <2> QED BY <2>1 DEF UpTo
<1> QED
  BY <1>1, UpToFinite, FS_Subset DEF UpTo, Rank

\* A page that is not full is the last one: no live profile comes after it
\* (SyncAllDeviceProfiles ends its loop there).
LEMMA PageFull ==
  ASSUME NEW p \in Profile, Live(p), NEW offset \in Nat,
         Rank(p) > offset + PageSize
  PROVE  ~(Cardinality(Page(offset)) < PageSize)
<1> DEFINE F == UpTo(p)
           I == offset + 1 .. offset + PageSize
           f == [k \in I |-> CHOOSE q \in F : Rank(q) = k]
<1>1. /\ F \in SUBSET Nat /\ IsFiniteSet(F) /\ Cardinality(F) = Rank(p)
      /\ Rank(p) \in Nat /\ PageSize \in Nat \ {0}
  BY UpToFinite, TypesBounds DEF UpTo, Rank
<1>2. ASSUME NEW k \in I PROVE \E q \in F : Rank(q) = k
  <2>1. k \in 1 .. Cardinality(F)
    BY <1>1
  <2>2. PICK q \in F : Cardinality({x \in F : x <= q}) = k
    BY <1>1, <2>1, RanksTaken
  <2>3. {x \in F : x <= q} = {x \in Profile : Live(x) /\ x <= q}
    <3>1. ASSUME NEW x \in Profile, x <= q PROVE x <= p
      <4>1. x \in Nat /\ p \in Nat /\ q \in Nat /\ q <= p
        BY TypesAssumption DEF UpTo
      <4> QED BY <3>1, <4>1
    <3> QED BY <3>1 DEF UpTo
  <2> QED BY <2>2, <2>3 DEF Rank
<1>3. Page(offset) \in SUBSET F
  <2>1. ASSUME NEW q \in Page(offset) PROVE q <= p
    <3>1. q \in Profile /\ p \in Nat /\ q \in Nat /\ Rank(q) <= offset + PageSize
      BY <1>1, TypesAssumption DEF Page
    <3> QED BY <1>1, <3>1, RankMonotonic, UpToFinite
  <2> QED BY <2>1 DEF Page, UpTo
<1>4. IsFiniteSet(Page(offset)) /\ Cardinality(Page(offset)) \in Nat
  BY <1>1, <1>3, FS_Subset, FS_CardinalityType
<1>5. f \in Injection(I, Page(offset))
  <2>1. \A k \in I : f[k] \in F /\ Rank(f[k]) = k
    BY <1>2
  <2>2. \A k \in I : f[k] \in Page(offset)
    BY <2>1 DEF Page, UpTo
  <2>3. \A a, b \in I : f[a] = f[b] => a = b
    BY <2>1
  <2>4. f \in [I -> Page(offset)]
    BY <2>2
  <2>5. DOMAIN f = I
    OBVIOUS
  <2> HIDE DEF f
  <2> QED BY <2>3, <2>4, <2>5 DEF Injection, IsInjective
<1>6. Cardinality(I) <= Cardinality(Page(offset))
  <2> HIDE DEF f, I
  <2> QED BY <1>4, <1>5, FS_Injection
<1>7. Cardinality(I) = PageSize
  BY <1>1, FS_Interval
<1> QED
  BY <1>1, <1>4, <1>6, <1>7

LEMMA RankPositive ==
  \A p \in Profile : Live(p) => Rank(p) > 0
<1> SUFFICES ASSUME NEW p \in Profile, Live(p) PROVE Rank(p) > 0
  OBVIOUS
<1>1. p \in UpTo(p)
  BY TypesAssumption DEF UpTo
<1>2. /\ IsFiniteSet(UpTo(p)) /\ Cardinality(UpTo(p)) = Rank(p)
      /\ Rank(p) \in Nat
  BY UpToFinite DEF UpTo, Rank
<1> QED
  BY <1>1, <1>2, FS_EmptySet

-----------------------------------------------------------------------------
(* Steps that are not the run's own.                                       *)

\* What they leave of the run: nothing changes, or it is not quiet any more.
Foreign(r) ==
  /\ \A p \in Profile : proc'[<<r, p>>] = proc[<<r, p>>]
  /\ run'[r].pc = run[r].pc /\ run'[r].offset = run[r].offset
  /\ run'[r].err = run[r].err /\ run'[r].failed = run[r].failed
  /\ run'[r].quiet => run[r].quiet /\ profile' = profile /\ type' = type

LEMMA ForeignKeeps ==
  ASSUME NEW r \in Runs, RunOK(r), Foreign(r)
  PROVE  RunOK(r)'
<1>1. /\ run'[r].err => run'[r].failed
      /\ run'[r].pc \in {"off", "done"} => \A p \in Profile : At(<<r, p>>, "idle")'
  BY DEF RunOK, Foreign, At
<1>2. ASSUME Good(r)', NEW p \in Profile
      PROVE  HeldOK(r, p)' /\ ProgressOK(r, p)'
  <2>1. Good(r) /\ profile' = profile /\ type' = type
    BY <1>2 DEF Good, Foreign
  <2>2. HeldOK(r, p) /\ ProgressOK(r, p)
    BY <2>1 DEF RunOK
  <2>3. /\ Rank(p)' = Rank(p) /\ TypesOf(p)' = TypesOf(p) /\ (Live(p)' <=> Live(p))
        /\ Current(p)' <=> Current(p)
        /\ \A t \in Type : UpToDate(t)' <=> UpToDate(t)
    BY <2>1 DEF Rank, TypesOf, Live, Current, UpToDate
  <2>4. /\ proc'[<<r, p>>] = proc[<<r, p>>]
        /\ Listed(r, p)' <=> Listed(r, p)
    BY <2>3 DEF Foreign, Listed
  <2>5. HeldOK(r, p)'
    BY <2>1, <2>2, <2>3, <2>4 DEF HeldOK, At, Holds
  <2>6. ProgressOK(r, p)'
    <3>1. /\ At(<<r, p>>, "idle")' <=> At(<<r, p>>, "idle")
          /\ At(<<r, p>>, "set")' <=> At(<<r, p>>, "set")
          /\ At(<<r, p>>, "create")' <=> At(<<r, p>>, "create")
      BY <2>4 DEF At
    <3>2. \A t \in Type : Holds(<<r, p>>, t)' <=> Holds(<<r, p>>, t)
      BY <2>4 DEF Holds
    <3>3. At(<<r, p>>, "set")' =>
            /\ TypesOf(p)' # {}
            /\ \A t \in TypesOf(p)' : Holds(<<r, p>>, t)' \/ UpToDate(t)'
      BY <2>2, <2>3, <3>1, <3>2 DEF ProgressOK, TypesOf
    <3>4. At(<<r, p>>, "create")' => TypesOf(p)' = {}
      BY <2>2, <2>3, <3>1 DEF ProgressOK
    <3>5. ~Listed(r, p)' => At(<<r, p>>, "idle")'
      BY <2>2, <2>4, <3>1 DEF ProgressOK
    <3>6. At(<<r, p>>, "idle")' /\ Listed(r, p)' /\ p \in InRegion /\ Live(p)'
            => Current(p)'
      BY <2>2, <2>3, <2>4, <3>1 DEF ProgressOK
    <3> QED BY <3>3, <3>4, <3>5, <3>6 DEF ProgressOK
  <2> QED BY <2>5, <2>6
<1> QED
  BY <1>1, <1>2 DEF RunOK

\* A run of a process that has just started has done nothing yet.
LEMMA StartedKeeps ==
  ASSUME NEW r \in Runs, Started
  PROVE  RunOK(r)'
<1>1. ASSUME NEW p \in Profile
      PROVE  proc'[<<r, p>>] = Idle
  BY Domains DEF Started
<1>2. /\ run'[r].pc \in {"off", "list"} /\ run'[r].offset = 0
      /\ ~run'[r].err /\ ~run'[r].failed
  BY DEF Started, NoRun
<1>3. ASSUME NEW p \in Profile, Live(p)' PROVE ~Listed(r, p)'
  <2>1. Rank(p)' = Rank(p) /\ Live(p)
    BY <1>3 DEF Started, Rank, Live
  <2>2. Rank(p) \in Nat /\ Rank(p) > 0
    BY <2>1, UpToFinite, RankPositive
  <2> QED BY <1>2, <2>1, <2>2 DEF Listed
<1>4. ASSUME NEW p \in Profile PROVE HeldOK(r, p)' /\ ProgressOK(r, p)'
  BY <1>1, <1>3, <1>4 DEF HeldOK, ProgressOK, At, Holds, Idle, NoCopy
<1> QED
  BY <1>1, <1>2, <1>4 DEF RunOK, At, Idle

\* What one run writes disturbs the others; so does every other goroutine.
LEMMA DisturbedFacts ==
  ASSUME NEW r \in Runs, NEW g, g \notin {r} \X Profile, RunType
  PROVE  LET d == Disturbed(g)[r] IN
         /\ d.pc = run[r].pc /\ d.offset = run[r].offset
         /\ d.err = run[r].err /\ d.failed = run[r].failed /\ ~d.quiet
BY DEF Disturbed, RunType, Run

LEMMA ForeignSync ==
  ASSUME NEW r \in Runs, NEW g \in Syncer, g \notin {r} \X Profile, Core, Sync(g)
  PROVE  Foreign(r)
<1> DEFINE Same == /\ run'[r].pc = run[r].pc /\ run'[r].offset = run[r].offset
                   /\ run'[r].err = run[r].err /\ run'[r].failed = run[r].failed
<1>a. /\ RunType /\ proc \in [Goroutine -> Worker] /\ run \in [Runs -> Run]
      /\ g \in Goroutine /\ g \notin {<<r, p>> : p \in Profile}
  BY Domains DEF Core, RunType, ProcType
<1>b. ASSUME NEW l, proc' = [proc EXCEPT ![g] = l]
      PROVE  \A p \in Profile : proc'[<<r, p>>] = proc[<<r, p>>]
  BY <1>a, <1>b
<1>c. ASSUME NEW ok, Return(g, ok), profile' = profile, type' = type
      PROVE  Foreign(r)
  <2>1. Same /\ (run'[r].quiet => run[r].quiet)
    <3>1. CASE run' = run
      BY <3>1
    <3>2. CASE g \in Runs \X Profile /\ run' = [run EXCEPT ![g[1]].failed = TRUE]
      <4>1. g[1] # r /\ g[1] \in Runs
        BY <1>a, <3>2
      <4> QED BY <1>a, <3>2, <4>1
    <3> QED BY <1>c, <3>1, <3>2 DEF Return
  <2> QED BY <1>b, <1>c, <2>1 DEF Return, Foreign
<1>d. ASSUME run' = Disturbed(g) PROVE Same /\ ~run'[r].quiet
  BY <1>a, <1>d, DisturbedFacts
<1>1. CASE ListTypes(g)
  <2>1. profile' = profile /\ type' = type
    BY <1>1 DEF ListTypes, stores
  <2>2. CASE Return(g, TRUE)
    BY <1>c, <2>1, <2>2
  <2>3. CASE ~Return(g, TRUE)
    <3>1. /\ run' = run
          /\ \A h \in Goroutine \ {g} : proc'[h] = proc[h]
      BY <1>1, <1>a, <2>3 DEF ListTypes
    <3>2. \A p \in Profile : proc'[<<r, p>>] = proc[<<r, p>>]
      BY <1>a, <3>1, Domains
    <3> QED BY <2>1, <3>1, <3>2 DEF Foreign
  <2> QED BY <2>2, <2>3
<1>2. CASE SetType(g)
  <2>1. \A p \in Profile : proc'[<<r, p>>] = proc[<<r, p>>]
    BY <1>2, <1>a DEF SetType
  <2> QED BY <1>2, <1>d, <2>1 DEF SetType, Foreign
<1>3. CASE CreateType(g)
  <2>1. \A p \in Profile : proc'[<<r, p>>] = proc[<<r, p>>]
    BY <1>3, <1>b DEF CreateType
  <2> QED BY <1>3, <1>d, <2>1 DEF CreateType, Foreign
<1>4. CASE SyncError(g)
  BY <1>4, <1>c DEF SyncError, stores
<1>5. CASE SyncReplyLost(g)
  <2>1. \A p \in Profile : proc'[<<r, p>>] = proc[<<r, p>>]
    BY <1>5, <1>b DEF SyncReplyLost
  <2>2. run'[r] = [Disturbed(g)[r] EXCEPT !.failed = @ \/ g \in {r} \X Profile]
    BY <1>5 DEF SyncReplyLost
  <2>3. Disturbed(g)[r] \in Run
    BY <1>a, DisturbedType
  <2>4. Same /\ ~run'[r].quiet
    BY <1>a, <2>2, <2>3, DisturbedFacts DEF Run
  <2> QED BY <2>1, <2>4 DEF Foreign
<1> QED
  BY <1>1, <1>2, <1>3, <1>4, <1>5 DEF Sync

\* A step of another run.
LEMMA ForeignRun ==
  ASSUME NEW r \in Runs, NEW s \in Runs, s # r, Core, SyncRun(s) \/ StartRun(s),
         ~Started
  PROVE  Foreign(r)
<1>a. /\ run \in [Runs -> Run] /\ proc \in [Goroutine -> Worker]
      /\ \A p, q \in Profile : <<r, p>> \in Goroutine /\ <<r, p>> # <<s, q>>
  BY Domains DEF Core, RunType, ProcType
<1>1. CASE StartRun(s)
  BY <1>1, <1>a DEF StartRun, Foreign, stores
<1>2. CASE ListProfiles(s)
  <2>1. \A p \in Profile : proc'[<<r, p>>] = proc[<<r, p>>]
    BY <1>2, <1>a DEF ListProfiles
  <2> QED BY <1>2, <1>a, <2>1 DEF ListProfiles, Foreign, stores
<1>3. CASE ListProfilesError(s)
  BY <1>3, <1>a DEF ListProfilesError, Foreign, stores
<1>4. CASE FinishRun(s)
  BY <1>4, <1>a DEF FinishRun, Foreign, stores
<1>5. ASSUME NEW q \in Profile, GetProfile(s, q)
      PROVE  Foreign(r)
  <2>1. \A p \in Profile : proc'[<<r, p>>] = proc[<<r, p>>]
    BY <1>5, <1>a DEF GetProfile, Return
  <2>2. run' = run \/ run' = [run EXCEPT ![s].failed = TRUE]
    BY <1>5 DEF GetProfile, Return
  <2> QED BY <1>5, <1>a, <2>1, <2>2 DEF GetProfile, Foreign, stores
<1>6. ASSUME NEW q \in Profile, Sync(<<s, q>>)
      PROVE  Foreign(r)
  <2>1. <<s, q>> \in Syncer /\ <<s, q>> \notin {r} \X Profile
    BY DEF Syncer
  <2> QED BY <1>6, <2>1, ForeignSync
<1> QED
  BY <1>1, <1>2, <1>3, <1>4, <1>5, <1>6 DEF SyncRun, Panic

\* A step of the consumer.
LEMMA ForeignConsumer ==
  ASSUME NEW r \in Runs, Core, Consume \/ XReadError
  PROVE  Foreign(r)
<1>a. /\ proc \in [Goroutine -> Worker]
      /\ \A p \in Profile : <<r, p>> \in Goroutine /\ <<r, p>> # Consumer
      /\ Consumer \in Syncer /\ Consumer \notin {r} \X Profile
  BY Domains, TypesAssumption DEF Core, ProcType
<1>1. CASE XRead \/ XReadError
  BY <1>1 DEF XRead, XReadError, Foreign
<1>2. CASE Receive
  BY <1>2, <1>a DEF Receive, Foreign
<1>3. CASE GetChanged
  BY <1>3, <1>a DEF GetChanged, Foreign, stores
<1>4. CASE FindItem
  BY <1>4, <1>a DEF FindItem, Foreign, stores
<1>5. CASE Sync(Consumer)
  BY <1>5, <1>a, ForeignSync
<1> QED
  BY <1>1, <1>2, <1>3, <1>4, <1>5 DEF Consume

\* A step of an event, of the cache or of a user.
LEMMA ForeignRest ==
  ASSUME NEW r \in Runs, Core,
         \/ \E e \in Event : HandleEvent(e) \/ HandleEvents(e)
         \/ \E e \in Event, t \in Type : LoseUpdate(e, t)
         \/ \E t \in Type : Evict(t)
         \/ \E p \in Profile : EditProfile(p) \/ DeleteProfile(p)
  PROVE  Foreign(r)
<1>a. /\ proc \in [Goroutine -> Worker] /\ RunType
      /\ \A p \in Profile, e \in Event : <<r, p>> \in Goroutine /\ <<r, p>> # e
      /\ \A e \in Event : e \notin {r} \X Profile
      /\ Consumer \notin {r} \X Profile
  BY Domains, TypesAssumption DEF Core, ProcType, Syncer
<1>d. ASSUME NEW g, g \notin {r} \X Profile, run' = Disturbed(g)
      PROVE  /\ run'[r].pc = run[r].pc /\ run'[r].offset = run[r].offset
             /\ run'[r].err = run[r].err /\ run'[r].failed = run[r].failed
             /\ ~run'[r].quiet
  BY <1>a, <1>d, DisturbedFacts
<1>e. ASSUME NEW e \in Event, NEW l, proc' = [proc EXCEPT ![e] = l]
      PROVE  \A p \in Profile : proc'[<<r, p>>] = proc[<<r, p>>]
  BY <1>a, <1>e
<1>1. ASSUME NEW e \in Event, HandleEvent(e)
      PROVE  Foreign(r)
  <2>1. PICK l : proc' = [proc EXCEPT ![e] = l]
    BY <1>1 DEF HandleEvent
  <2> QED BY <1>1, <1>e, <2>1 DEF HandleEvent, Foreign
<1>2. ASSUME NEW e \in Event, EnsureService(e)
      PROVE  Foreign(r)
  <2>1. \A p \in Profile : proc'[<<r, p>>] = proc[<<r, p>>]
    BY <1>2, <1>e DEF EnsureService
  <2>2. profile' = profile
    BY <1>2 DEF EnsureService
  <2>3. run' = Disturbed(e) \/ (run' = run /\ type' = type)
    BY <1>2 DEF EnsureService
  <2> QED BY <1>a, <1>d, <2>1, <2>2, <2>3 DEF Foreign
<1>3. ASSUME NEW e \in Event, Forward(e) \/ EventError(e)
      PROVE  Foreign(r)
  BY <1>3, <1>e DEF Forward, EventError, Foreign, stores
<1>4. ASSUME NEW e \in Event, NEW t \in Type, LoseUpdate(e, t)
      PROVE  Foreign(r)
  BY <1>4, <1>a, <1>d, <1>e DEF LoseUpdate, Foreign
<1>5. ASSUME NEW t \in Type, Evict(t)
      PROVE  Foreign(r)
  BY <1>5 DEF Evict, Foreign
<1>6. ASSUME NEW p \in Profile, EditProfile(p) \/ DeleteProfile(p)
      PROVE  Foreign(r)
  BY <1>6, <1>a, <1>d DEF EditProfile, DeleteProfile, Foreign
<1> QED
  BY <1>1, <1>2, <1>3, <1>4, <1>5, <1>6 DEF HandleEvents

-----------------------------------------------------------------------------
(* The steps of the run.                                                   *)

\* What a step of the goroutine of profile q leaves alone.
WorkOf(r, q) ==
  /\ \A p \in Profile \ {q} : proc'[<<r, p>>] = proc[<<r, p>>]
  /\ \A t \in Type : ProfileOf[t] # q => type'[t] = type[t]
  /\ profile' = profile
  /\ run'[r].pc = run[r].pc /\ run'[r].offset = run[r].offset
  /\ run'[r].err = run[r].err
  /\ run'[r].quiet => run[r].quiet
  /\ run[r].failed => run'[r].failed

\* The goroutines of the other profiles stay where they are, and so do their
\* types: what remains to be shown is about q.
LEMMA WorkKeeps ==
  ASSUME NEW r \in Runs, NEW q \in Profile, RunOK(r), ~At(<<r, q>>, "idle"),
         WorkOf(r, q), Good(r)' => HeldOK(r, q)' /\ ProgressOK(r, q)'
  PROVE  RunOK(r)'
<1>1. /\ run'[r].err => run'[r].failed
      /\ run'[r].pc \notin {"off", "done"}
  BY DEF RunOK, WorkOf
<1>2. ASSUME Good(r)', NEW p \in Profile \ {q}
      PROVE  HeldOK(r, p)' /\ ProgressOK(r, p)'
  <2>1. HeldOK(r, p) /\ ProgressOK(r, p)
    BY <1>2 DEF RunOK, Good, WorkOf
  <2>2. /\ \A t \in Type : ProfileOf[t] = p => type'[t] = type[t]
        /\ profile' = profile /\ proc'[<<r, p>>] = proc[<<r, p>>]
        /\ run'[r].pc = run[r].pc /\ run'[r].offset = run[r].offset
    BY <1>2 DEF WorkOf
  <2>3. /\ Rank(p)' = Rank(p) /\ TypesOf(p)' = TypesOf(p) /\ (Live(p)' <=> Live(p))
        /\ \A t \in TypesOf(p) : UpToDate(t)' <=> UpToDate(t)
        /\ \A t \in Type : Holds(<<r, p>>, t)' <=> Holds(<<r, p>>, t)
    BY <2>2 DEF Rank, TypesOf, Live, UpToDate, Holds
  <2>4. /\ Current(p)' <=> Current(p)
        /\ Listed(r, p)' <=> Listed(r, p)
    BY <2>2, <2>3 DEF Current, Listed
  <2>5. HeldOK(r, p)'
    BY <2>1, <2>2, <2>3 DEF HeldOK, At
  <2>6. /\ At(<<r, p>>, "idle")' <=> At(<<r, p>>, "idle")
        /\ At(<<r, p>>, "set")' <=> At(<<r, p>>, "set")
        /\ At(<<r, p>>, "create")' <=> At(<<r, p>>, "create")
    BY <2>2 DEF At
  <2>7. At(<<r, p>>, "set")' =>
          /\ TypesOf(p)' # {}
          /\ \A t \in TypesOf(p)' : Holds(<<r, p>>, t)' \/ UpToDate(t)'
    BY <2>1, <2>3, <2>6 DEF ProgressOK, TypesOf
  <2>8. At(<<r, p>>, "create")' => TypesOf(p)' = {}
    BY <2>1, <2>3, <2>6 DEF ProgressOK
  <2>9. ~Listed(r, p)' => At(<<r, p>>, "idle")'
    BY <2>1, <2>4, <2>6 DEF ProgressOK
  <2>10. At(<<r, p>>, "idle")' /\ Listed(r, p)' /\ p \in InRegion /\ Live(p)'
           => Current(p)'
    BY <2>1, <2>3, <2>4, <2>6 DEF ProgressOK
  <2> QED BY <2>5, <2>7, <2>8, <2>9, <2>10 DEF ProgressOK
<1> QED
  BY <1>1, <1>2 DEF RunOK

\* The three calls of SyncDeviceProfile.
LEMMA OwnListTypes ==
  ASSUME NEW r \in Runs, NEW q \in Profile, Core, RunOK(r), ListTypes(<<r, q>>)
  PROVE  RunOK(r)'
<1> DEFINE g == <<r, q>>
           old == {t \in TypesOf(q) : NeedsUpdate(type[t], Prepared(type[t], proc[g].rev))}
<1>a. /\ g \in Goroutine /\ g \in Syncer /\ proc \in [Goroutine -> Worker]
      /\ proc[g] \in Worker /\ LocalOK(proc[g]) /\ run \in [Runs -> Run]
      /\ \A p \in Profile \ {q} : <<r, p>> \in Goroutine /\ <<r, p>> # g
      /\ At(g, "types") /\ profile' = profile /\ type' = type
  BY Domains DEF Core, ProcType, RunType, ListTypes, stores, Syncer
<1>b. run' = run
  BY DEF ListTypes, Return
<1>c. WorkOf(r, q)
  BY <1>a, <1>b DEF ListTypes, Return, WorkOf
<1>d. ASSUME Good(r)'
      PROVE  HeldOK(r, q)' /\ ProgressOK(r, q)'
  <2>1. /\ HeldOK(r, q) /\ ProgressOK(r, q)
        /\ proc[g].p = q /\ proc[g].rev = profile[q] /\ Live(q)
        /\ Listed(r, q)
    BY <1>a, <1>b, <1>d DEF RunOK, Good, HeldOK, ProgressOK, At
  <2>2. /\ Live(q)' /\ Listed(r, q)' /\ TypesOf(q)' = TypesOf(q)
        /\ \A t \in Type : UpToDate(t)' <=> UpToDate(t)
    BY <1>a, <1>b, <2>1 DEF Live, Listed, Rank, TypesOf, UpToDate
  <2>3. \A t \in TypesOf(q) \ old : UpToDate(t)
    BY <2>1 DEF NeedsUpdate, Prepared, UpToDate, TypesOf
  <2>4. CASE TypesOf(q) = {} /\ proc' = [proc EXCEPT ![g].pc = "create"]
    <3>1. proc'[g].pc = "create" /\ proc'[g].p = q /\ proc'[g].rev = profile[q]
      BY <1>a, <2>1, <2>4 DEF Worker
    <3> QED BY <1>a, <2>2, <2>4, <3>1 DEF HeldOK, ProgressOK, At
  <2>5. CASE TypesOf(q) # {} /\ old = {} /\ Return(g, TRUE)
    <3>1. proc'[g].pc = "idle"
      BY <1>a, <2>5 DEF Return, Idle
    <3>2. Current(q)'
      BY <2>2, <2>3, <2>5 DEF Current, TypesOf
    <3> QED BY <3>1, <3>2, <2>2 DEF HeldOK, ProgressOK, At
  <2>6. CASE /\ old # {}
             /\ proc' = [proc EXCEPT ![g].pc = "set",
                           ![g].copy = [t \in Type |-> IF t \in old THEN type[t]
                                                       ELSE None]]
    <3>1. /\ proc'[g].pc = "set" /\ proc'[g].p = q /\ proc'[g].rev = profile[q]
          /\ \A t \in Type : proc'[g].copy[t] = IF t \in old THEN type[t] ELSE None
      BY <1>a, <2>1, <2>6 DEF Worker
    <3>2. \A t \in Type : Holds(g, t)' <=> t \in old
      BY <3>1 DEF Holds, TypesOf
    <3>3. HeldOK(r, q)'
      BY <1>a, <2>2, <3>1, <3>2 DEF HeldOK, At
    <3>4. TypesOf(q)' # {} /\ \A t \in TypesOf(q)' : Holds(g, t)' \/ UpToDate(t)'
      BY <2>2, <2>3, <2>6, <3>2 DEF TypesOf
    <3> QED BY <2>2, <3>1, <3>3, <3>4 DEF ProgressOK, At
  <2> QED
    BY <2>1, <2>4, <2>5, <2>6 DEF ListTypes
<1>e. ~At(g, "idle")
  BY <1>a DEF At
<1> QED
  BY <1>c, <1>d, <1>e, WorkKeeps

LEMMA OwnSetType ==
  ASSUME NEW r \in Runs, NEW q \in Profile, Core, RunOK(r), SetType(<<r, q>>)
  PROVE  RunOK(r)'
<1> DEFINE g == <<r, q>>
<1>a. /\ g \in Goroutine /\ proc \in [Goroutine -> Worker]
      /\ proc[g] \in Worker /\ LocalOK(proc[g]) /\ run \in [Runs -> Run]
      /\ type \in [Type -> DeviceType \cup {None}]
      /\ \A p \in Profile \ {q} : <<r, p>> \in Goroutine /\ <<r, p>> # g
      /\ At(g, "set") /\ ~At(g, "idle") /\ profile' = profile
  BY Domains DEF Core, ProcType, RunType, StoreType, SetType, At
<1>b. PICK t \in Type :
        /\ Holds(g, t)
        /\ type' = [type EXCEPT ![t] = Prepared(proc[g].copy[t], proc[g].rev)]
        /\ LET rest == [proc[g].copy EXCEPT ![t] = None] IN
           proc' = [proc EXCEPT ![g] = IF rest = NoCopy THEN Idle
                                       ELSE [@ EXCEPT !.copy = rest]]
  BY DEF SetType
<1>c. /\ run'[r].pc = run[r].pc /\ run'[r].offset = run[r].offset
      /\ run'[r].err = run[r].err /\ run'[r].failed = run[r].failed
      /\ run'[r].quiet = run[r].quiet
  BY <1>a DEF SetType, Disturbed, Run
<1> DEFINE new == Prepared(proc[g].copy[t], proc[g].rev)
           rest == [proc[g].copy EXCEPT ![t] = None]
<1>1. CASE Good(r)
  <2>1. /\ HeldOK(r, q) /\ ProgressOK(r, q)
        /\ proc[g].p = q /\ proc[g].rev = profile[q] /\ Live(q)
        /\ t \in TypesOf(q) /\ ProfileOf[t] = q /\ Listed(r, q)
        /\ \A u \in Type : Holds(g, u) => u \in TypesOf(q)
        /\ \A u \in TypesOf(q) : Holds(g, u) \/ UpToDate(u)
    BY <1>1, <1>a, <1>b DEF RunOK, HeldOK, ProgressOK, At, TypesOf
  <2>2. /\ proc[g].copy \in [Type -> DeviceType \cup {None}]
        /\ proc[g].copy[t] \in DeviceType /\ proc[g].rev \in Rev
    BY <1>a, <1>b DEF Worker, Holds, LocalOK, At
  <2>3. /\ new # None /\ new.rev = profile[q] /\ ~new.float
        /\ type'[t] = new /\ \A u \in Type \ {t} : type'[u] = type[u]
    <3>1. new \in DeviceType
      BY <2>2, PreparedType
    <3> QED BY <1>a, <1>b, <2>1, <3>1, TypesAssumption DEF Prepared
  <2>4. WorkOf(r, q)
    <3>1. \A p \in Profile \ {q} : proc'[<<r, p>>] = proc[<<r, p>>]
      BY <1>a, <1>b
    <3> QED BY <1>a, <1>c, <2>1, <2>3, <3>1 DEF WorkOf
  <2>5. /\ Live(q)' /\ Listed(r, q)' /\ TypesOf(q)' = TypesOf(q)
        /\ UpToDate(t)' /\ \A u \in Type \ {t} : UpToDate(u)' <=> UpToDate(u)
    BY <1>a, <1>c, <2>1, <2>3 DEF Live, Listed, Rank, TypesOf, UpToDate
  <2>6. HeldOK(r, q)' /\ ProgressOK(r, q)'
    <3>1. CASE rest = NoCopy
      <4>1. proc'[g] = Idle
        BY <1>a, <1>b, <3>1
      <4>2. \A u \in Type \ {t} : ~Holds(g, u)
        BY <2>2, <3>1 DEF NoCopy, Holds
      <4>3. Current(q)'
        BY <2>1, <2>5, <4>2 DEF Current, TypesOf
      <4>4. proc'[g].pc = "idle"
        BY <4>1 DEF Idle
      <4> QED BY <2>5, <4>3, <4>4 DEF HeldOK, ProgressOK, At
    <3>2. CASE rest # NoCopy
      <4>1. /\ proc'[g].pc = "set" /\ proc'[g].p = q /\ proc'[g].rev = profile[q]
            /\ proc'[g].copy = rest
        BY <1>a, <1>b, <2>1, <3>2 DEF Worker, At
      <4>2. ~Holds(g, t)' /\ \A u \in Type \ {t} : Holds(g, u)' <=> Holds(g, u)
        BY <2>2, <4>1 DEF Holds
      <4>3. HeldOK(r, q)'
        BY <1>a, <2>1, <2>5, <4>1, <4>2 DEF HeldOK, At
      <4>4. TypesOf(q)' # {} /\ \A u \in TypesOf(q)' : Holds(g, u)' \/ UpToDate(u)'
        BY <2>1, <2>5, <4>2 DEF TypesOf
      <4> QED BY <2>5, <4>1, <4>3, <4>4 DEF ProgressOK, At
    <3> QED BY <3>1, <3>2
  <2> QED BY <1>a, <2>4, <2>6, WorkKeeps
<1>2. CASE ~Good(r)
  <2>1. ~Good(r)'
    BY <1>2, <1>c DEF Good
  <2> QED BY <1>a, <1>c, <2>1 DEF RunOK, At
<1> QED
  BY <1>1, <1>2

LEMMA OwnCreateType ==
  ASSUME NEW r \in Runs, NEW q \in Profile, Core, RunOK(r), CreateType(<<r, q>>)
  PROVE  RunOK(r)'
<1> DEFINE g == <<r, q>>
<1>a. /\ g \in Goroutine /\ proc \in [Goroutine -> Worker]
      /\ proc[g] \in Worker /\ LocalOK(proc[g]) /\ run \in [Runs -> Run]
      /\ type \in [Type -> DeviceType \cup {None}]
      /\ \A p \in Profile \ {q} : <<r, p>> \in Goroutine /\ <<r, p>> # g
      /\ At(g, "create") /\ ~At(g, "idle") /\ profile' = profile
      /\ proc' = [proc EXCEPT ![g] = Idle]
  BY Domains DEF Core, ProcType, RunType, StoreType, CreateType, At
<1>b. PICK t \in Type : /\ ProfileOf[t] = proc[g].p /\ type[t] = None
                        /\ type' = [type EXCEPT ![t] = New(proc[g].rev)]
  BY DEF CreateType
<1>c. /\ run'[r].pc = run[r].pc /\ run'[r].offset = run[r].offset
      /\ run'[r].err = run[r].err /\ run'[r].failed = run[r].failed
      /\ run'[r].quiet = run[r].quiet
  BY <1>a DEF CreateType, Disturbed, Run
<1>1. CASE Good(r)
  <2>1. /\ HeldOK(r, q) /\ ProgressOK(r, q)
        /\ proc[g].p = q /\ proc[g].rev = profile[q] /\ Live(q)
        /\ ProfileOf[t] = q /\ Listed(r, q) /\ TypesOf(q) = {}
    BY <1>1, <1>a, <1>b DEF RunOK, HeldOK, ProgressOK, At
  <2>2. New(proc[g].rev) \in DeviceType
    BY <1>a, NewType DEF LocalOK, At
  <2>3. /\ type'[t] # None /\ type'[t].rev = profile[q] /\ ~type'[t].float
        /\ \A u \in Type \ {t} : type'[u] = type[u]
    BY <1>a, <1>b, <2>1, <2>2, TypesAssumption DEF New
  <2>4. WorkOf(r, q)
    BY <1>a, <1>c, <2>1, <2>3 DEF WorkOf
  <2>5. TypesOf(q)' = {t} /\ UpToDate(t)' /\ Live(q)' /\ Listed(r, q)'
    BY <1>a, <1>c, <2>1, <2>3 DEF TypesOf, UpToDate, Live, Listed, Rank
  <2>6. proc'[g].pc = "idle"
    BY <1>a DEF Idle
  <2>7. Current(q)'
    BY <2>5 DEF Current
  <2>8. HeldOK(r, q)' /\ ProgressOK(r, q)'
    BY <2>5, <2>6, <2>7 DEF HeldOK, ProgressOK, At
  <2> QED BY <1>a, <2>4, <2>8, WorkKeeps
<1>2. CASE ~Good(r)
  <2>1. ~Good(r)'
    BY <1>2, <1>c DEF Good
  <2> QED BY <1>a, <1>c, <2>1 DEF RunOK, At
<1> QED
  BY <1>1, <1>2

\* A failed call ends what the properties promise of the run.
LEMMA OwnFailure ==
  ASSUME NEW r \in Runs, NEW q \in Profile, Core, RunOK(r),
         SyncError(<<r, q>>) \/ SyncReplyLost(<<r, q>>)
  PROVE  RunOK(r)'
<1> DEFINE g == <<r, q>>
<1>a. /\ g \in Goroutine /\ g \in Runs \X Profile /\ g \in {r} \X Profile
      /\ ~At(g, "idle") /\ run \in [Runs -> Run] /\ RunType
  BY Domains DEF Core, RunType, SyncError, SyncReplyLost, At
<1>1. run'[r].pc = run[r].pc /\ run'[r].failed
  <2>1. CASE SyncError(g)
    BY <2>1, <1>a DEF SyncError, Return, Run
  <2>2. CASE SyncReplyLost(g)
    <3>1. run'[r] = [Disturbed(g)[r] EXCEPT !.failed = @ \/ g \in {r} \X Profile]
      BY <2>2 DEF SyncReplyLost
    <3>2. Disturbed(g)[r] \in Run /\ Disturbed(g)[r].pc = run[r].pc
      BY <1>a, DisturbedType DEF Disturbed, Run
    <3> QED BY <1>a, <3>1, <3>2 DEF Run
  <2> QED BY <2>1, <2>2
<1> QED
  BY <1>1, <1>a DEF RunOK, Good, At

\* A page of the list: its profiles get a goroutine, and if it is the last one
\* no live profile is left.
LEMMA OwnListProfiles ==
  ASSUME NEW r \in Runs, Core, RunOK(r), ListProfiles(r)
  PROVE  RunOK(r)'
<1> DEFINE offset == run[r].offset
           page == Page(offset)
<1>a. /\ run \in [Runs -> Run] /\ offset \in Nat /\ PageSize \in Nat \ {0}
      /\ \A p \in Profile : <<r, p>> \in Goroutine
      /\ profile' = profile /\ type' = type /\ run[r].pc = "list"
  BY Domains, TypesBounds DEF Core, RunType, Run, ListProfiles, stores
<1>b. \A p \in Profile :
        proc'[<<r, p>>] = IF p \in page \cap InRegion /\ At(<<r, p>>, "idle")
                          THEN [Idle EXCEPT !.pc = "get", !.p = p]
                          ELSE proc[<<r, p>>]
  BY <1>a DEF ListProfiles
<1>c. /\ run'[r].err = run[r].err /\ run'[r].failed = run[r].failed
      /\ run'[r].quiet = run[r].quiet
      /\ \/ run'[r].pc = "syncing" /\ Cardinality(page) < PageSize
         \/ run'[r].pc = "list" /\ run'[r].offset = offset + PageSize
  BY <1>a DEF ListProfiles, Run
<1>1. ASSUME Good(r), NEW p \in Profile
      PROVE  HeldOK(r, p)' /\ ProgressOK(r, p)'
  <2>1. HeldOK(r, p) /\ ProgressOK(r, p)
    BY <1>1 DEF RunOK
  <2>2. /\ Rank(p)' = Rank(p) /\ TypesOf(p)' = TypesOf(p) /\ (Live(p)' <=> Live(p))
        /\ Current(p)' <=> Current(p)
        /\ \A t \in Type : UpToDate(t)' <=> UpToDate(t)
        /\ Rank(p) \in Nat
    BY <1>a, UpToFinite DEF Rank, TypesOf, Live, Current, UpToDate
  <2>3. /\ Listed(r, p) => Listed(r, p)'
        /\ Live(p) /\ Listed(r, p)' => Listed(r, p) \/ p \in page
        /\ p \in page => Listed(r, p)' /\ ~Listed(r, p) /\ Live(p)
    <3>1. Live(p) /\ Rank(p) > offset + PageSize => ~(Cardinality(page) < PageSize)
      BY <1>a, PageFull
    <3> QED BY <1>a, <1>c, <2>2, <3>1 DEF Listed, Page
  <2>4. CASE p \in page \cap InRegion
    <3>1. proc'[<<r, p>>] = [Idle EXCEPT !.pc = "get", !.p = p]
      BY <1>b, <2>1, <2>3, <2>4 DEF ProgressOK
    <3>2. proc'[<<r, p>>].pc = "get" /\ proc'[<<r, p>>].p = p
      BY <3>1 DEF Idle
    <3> QED BY <2>2, <2>3, <2>4, <3>2 DEF HeldOK, ProgressOK, At
  <2>5. CASE p \notin page \cap InRegion
    <3>1. proc'[<<r, p>>] = proc[<<r, p>>]
      BY <1>b, <2>5
    <3>2. HeldOK(r, p)'
      BY <1>a, <2>1, <2>2, <3>1 DEF HeldOK, At, Holds
    <3>3. /\ At(<<r, p>>, "idle")' <=> At(<<r, p>>, "idle")
          /\ At(<<r, p>>, "set")' <=> At(<<r, p>>, "set")
          /\ At(<<r, p>>, "create")' <=> At(<<r, p>>, "create")
          /\ \A t \in Type : Holds(<<r, p>>, t)' <=> Holds(<<r, p>>, t)
      BY <3>1 DEF At, Holds
    <3>4. At(<<r, p>>, "set")' =>
            /\ TypesOf(p)' # {}
            /\ \A t \in TypesOf(p)' : Holds(<<r, p>>, t)' \/ UpToDate(t)'
      BY <2>1, <2>2, <3>3 DEF ProgressOK, TypesOf
    <3>5. At(<<r, p>>, "create")' => TypesOf(p)' = {}
      BY <2>1, <2>2, <3>3 DEF ProgressOK
    <3>6. ~Listed(r, p)' => At(<<r, p>>, "idle")'
      BY <2>1, <2>3, <3>3 DEF ProgressOK
    <3>7. At(<<r, p>>, "idle")' /\ Listed(r, p)' /\ p \in InRegion /\ Live(p)'
            => Current(p)'
      BY <2>1, <2>2, <2>3, <2>5, <3>3 DEF ProgressOK
    <3> QED BY <3>2, <3>4, <3>5, <3>6, <3>7 DEF ProgressOK
  <2> QED BY <2>4, <2>5
<1>2. /\ run'[r].err => run'[r].failed
      /\ run'[r].pc \notin {"off", "done"}
      /\ Good(r)' => Good(r)
  BY <1>c DEF RunOK, Good
<1> QED
  BY <1>1, <1>2 DEF RunOK

\* The first steps of a run, and its last one.
LEMMA OwnStartRun ==
  ASSUME NEW r \in Runs, Core, RunOK(r), StartRun(r)
  PROVE  RunOK(r)'
<1>1. /\ run'[r].pc = "list" /\ run'[r].offset = 0
      /\ ~run'[r].err /\ ~run'[r].failed
  BY DEF StartRun, NoRun, Core, RunType
<1>2. \A p \in Profile : At(<<r, p>>, "idle") /\ At(<<r, p>>, "idle")'
  BY DEF RunOK, StartRun, At
<1>3. ASSUME NEW p \in Profile PROVE HeldOK(r, p)'
  BY <1>2 DEF HeldOK, At
<1>4. ASSUME NEW p \in Profile PROVE ProgressOK(r, p)'
  <2>1. Live(p)' => ~Listed(r, p)'
    <3>1. Rank(p)' = Rank(p) /\ (Live(p)' <=> Live(p)) /\ Rank(p) \in Nat
      BY UpToFinite DEF StartRun, stores, Rank, Live
    <3> QED BY <1>1, <3>1, RankPositive DEF Listed
  <2> QED BY <1>2, <2>1 DEF ProgressOK, At
<1> QED
  BY <1>1, <1>2, <1>3, <1>4 DEF RunOK

LEMMA OwnFinishRun ==
  ASSUME NEW r \in Runs, Core, RunOK(r), FinishRun(r)
  PROVE  RunOK(r)'
<1>1. /\ run'[r].pc = "done" /\ run[r].pc = "syncing"
      /\ run'[r].err = run[r].err /\ run'[r].failed = run[r].failed
      /\ run'[r].quiet = run[r].quiet
      /\ UNCHANGED <<profile, type, proc>>
  BY DEF FinishRun, Core, RunType, Run, stores
<1>2. \A p \in Profile : At(<<r, p>>, "idle") /\ At(<<r, p>>, "idle")'
  BY <1>1 DEF FinishRun, At
<1>3. ASSUME Good(r)', NEW p \in Profile PROVE HeldOK(r, p)' /\ ProgressOK(r, p)'
  <2>1. ProgressOK(r, p) /\ Listed(r, p)
    BY <1>1, <1>3 DEF RunOK, Good, Listed
  <2>2. (Live(p)' <=> Live(p)) /\ (Current(p)' <=> Current(p)) /\ Listed(r, p)'
    BY <1>1 DEF Live, Current, TypesOf, UpToDate, Listed
  <2> QED BY <1>2, <2>1, <2>2 DEF HeldOK, ProgressOK, At
<1> QED
  BY <1>1, <1>2, <1>3 DEF RunOK

LEMMA OwnListProfilesError ==
  ASSUME NEW r \in Runs, Core, RunOK(r), ListProfilesError(r)
  PROVE  RunOK(r)'
<1>1. run'[r].pc = "syncing" /\ run'[r].failed
  BY DEF ListProfilesError, Core, RunType, Run
<1> QED
  BY <1>1 DEF RunOK, Good

LEMMA OwnGetProfile ==
  ASSUME NEW r \in Runs, NEW q \in Profile, Core, RunOK(r), GetProfile(r, q)
  PROVE  RunOK(r)'
<1> DEFINE g == <<r, q>>
<1>a. /\ g \in Goroutine /\ proc \in [Goroutine -> Worker] /\ proc[g] \in Worker
      /\ run \in [Runs -> Run]
      /\ \A p \in Profile \ {q} : <<r, p>> \in Goroutine /\ <<r, p>> # g
      /\ At(g, "get") /\ ~At(g, "idle") /\ profile' = profile /\ type' = type
  BY Domains DEF Core, ProcType, RunType, GetProfile, stores, At
<1>b. /\ run'[r].pc = run[r].pc /\ run'[r].offset = run[r].offset
      /\ run'[r].err = run[r].err /\ run'[r].quiet = run[r].quiet
      /\ run[r].failed => run'[r].failed
  BY <1>a DEF GetProfile, Return, Run
<1>c. WorkOf(r, q)
  BY <1>a, <1>b DEF GetProfile, Return, WorkOf
<1>d. ASSUME Good(r)'
      PROVE  HeldOK(r, q)' /\ ProgressOK(r, q)'
  <2>1. HeldOK(r, q) /\ ProgressOK(r, q) /\ ~run[r].err
    BY <1>b, <1>d DEF RunOK, Good
  <2>2. /\ proc[g].p = q /\ Live(q) /\ Listed(r, q)
        /\ proc' = [proc EXCEPT ![g].pc = "types", ![g].rev = profile[q]]
    BY <1>a, <2>1 DEF HeldOK, ProgressOK, At, GetProfile
  <2>3. /\ proc'[g].pc = "types" /\ proc'[g].p = q /\ proc'[g].rev = profile[q]
        /\ Live(q)' /\ Listed(r, q)'
    BY <1>a, <1>b, <2>2 DEF Worker, Live, Listed, Rank
  <2> QED BY <1>a, <2>3 DEF HeldOK, ProgressOK, At
<1> QED
  BY <1>a, <1>c, <1>d, WorkKeeps

-----------------------------------------------------------------------------
LEMMA InitSync == Init => SyncInv
<1> SUFFICES ASSUME Init, NEW r \in Runs PROVE RunOK(r)
  BY DEF SyncInv
<1>1. ASSUME NEW p \in Profile PROVE proc[<<r, p>>] = Idle
  BY Domains DEF Init
<1>2. /\ run[r].pc \in {"off", "list"} /\ run[r].offset = 0
      /\ ~run[r].err /\ ~run[r].failed
  BY DEF Init, NoRun
<1>3. ASSUME NEW p \in Profile, Live(p) PROVE ~Listed(r, p)
  BY <1>2, <1>3, UpToFinite, RankPositive DEF Listed
<1>4. ASSUME NEW p \in Profile PROVE HeldOK(r, p) /\ ProgressOK(r, p)
  BY <1>1, <1>3 DEF HeldOK, ProgressOK, At, Idle
<1> QED
  BY <1>1, <1>2, <1>4 DEF RunOK, At, Idle

LEMMA StepSync == TypeInv /\ SyncInv /\ [Next]_vars => SyncInv'
<1> SUFFICES ASSUME TypeInv, SyncInv, [Next]_vars, NEW r \in Runs
             PROVE  RunOK(r)'
  BY DEF SyncInv
<1>a. Core /\ RunOK(r)
  BY DEF TypeInv, Core, SyncInv
<1>1. CASE Started
  BY <1>1, StartedKeeps
<1>2. CASE UNCHANGED vars
  BY <1>2, <1>a, ForeignKeeps DEF vars, stores, Foreign
<1>3. ASSUME StartRun(r) \/ SyncRun(r), ~Started
      PROVE  RunOK(r)'
  <2>1. ASSUME NEW q \in Profile, Sync(<<r, q>>)
        PROVE  RunOK(r)'
    BY <2>1, <1>a, OwnListTypes, OwnSetType, OwnCreateType, OwnFailure DEF Sync
  <2> QED BY <1>3, <1>a, <2>1, OwnStartRun, OwnListProfiles, OwnListProfilesError,
             OwnFinishRun, OwnGetProfile DEF SyncRun, Panic
<1>4. ASSUME NEW s \in Runs, s # r, StartRun(s) \/ SyncRun(s), ~Started
      PROVE  RunOK(r)'
  BY <1>4, <1>a, ForeignRun, ForeignKeeps
<1>5. ASSUME NEW e \in Event, NEW t \in Type, LoseUpdate(e, t)
      PROVE  RunOK(r)'
  BY <1>5, <1>a, ForeignRest, ForeignKeeps
<1>6. CASE Calls
  <2>1. CASE Consume \/ XReadError
    BY <2>1, <1>a, ForeignConsumer, ForeignKeeps
  <2>2. CASE \/ \E e \in Event : HandleEvent(e) \/ HandleEvents(e)
             \/ \E t \in Type : Evict(t)
             \/ \E p \in Profile : EditProfile(p) \/ DeleteProfile(p)
    BY <2>2, <1>a, ForeignRest, ForeignKeeps
  <2> QED BY <1>6, <1>1, <1>3, <1>4, <2>1, <2>2 DEF Calls, Restart
<1> QED
  BY <1>1, <1>2, <1>5, <1>6 DEF Next

LEMMA SyncImplies == SyncInv => SyncUpdatesTypes
<1> SUFFICES ASSUME SyncInv, NEW r \in Runs, run[r].pc = "done", run[r].quiet,
                    ~run[r].failed, NEW p \in InRegion, Live(p)
             PROVE  Current(p)
  BY DEF SyncUpdatesTypes, Current, UpToDate, TypesOf
<1>1. p \in Profile /\ At(<<r, p>>, "idle") /\ ProgressOK(r, p)
  BY TypesAssumption DEF SyncInv, RunOK, Good
<1> QED
  BY <1>1 DEF ProgressOK, Listed

\* After a sync of any number of pages that nothing disturbed and in which no
\* call failed, every profile of the regions has a device type and all its
\* types carry its content, whatever races, lost replies and restarts left
\* before (SyncAllDeviceProfiles).
THEOREM SyncCorrect == Spec => []SyncUpdatesTypes
BY InitType, StepType, InitSync, StepSync, SyncImplies, PTL DEF Spec
================================================================================
