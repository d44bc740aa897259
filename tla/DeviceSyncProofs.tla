--------------------------- MODULE DeviceSyncProofs ----------------------------
(***************************************************************************)
(* Theorems about DeviceSync: its types, and what an undisturbed sync in    *)
(* which nothing fails does to devices, their sessions, and ChirpStack.    *)
(***************************************************************************)
EXTENDS DeviceSync, SequenceTheorems, FiniteSetTheorems, TLAPS

USE DeviceAssumption

Busy == {"lower", "get", "duplicate", "activation", "keys", "device", "setKeys",
         "activate"}

\* What a goroutine that runs SyncDevice has in its variables.
LocalOK(g, p) ==
  p.pc \in Busy =>
    /\ p.d \in Dev /\ p.copy \in Device
    /\ g # Consumer => p.d = g[2]
    /\ "activate" \in p.todo => p.copy.act # None
    /\ p.pc = "activate" => "activate" \in p.todo
LocalsOK == \A g \in Goroutine : LocalOK(g, proc[g])
\* The consumer leaves the message it handles on the topic.
ConsumerOK ==
  /\ proc[Consumer].pc # "idle" => topic # <<>>
  /\ proc[Consumer].pc = "delete" => Head(topic).cmd = "DELETE"
\* Goroutines of a run work in its phase only.
PhasesOK ==
  /\ \A g \in Goroutine \ {Consumer} :
       proc[g].pc # "idle" => proc[g].pc \in Busy /\ run[g[1]].pc = "syncing"
  /\ \A r \in Runs, o \in Owner :
       sweep[<<r, o>>].pc # "idle" => run[r].pc = "sweeping"
TypeInv == TypeOK /\ LocalsOK /\ ConsumerOK /\ PhasesOK

-----------------------------------------------------------------------------
(* Types.                                                                  *)

LEMMA IdleType ==
  /\ Idle \in Worker /\ Idle.pc = "idle"
  /\ \A g : LocalOK(g, Idle)
BY DEF Idle, Worker, LocalOK, Busy

LEMMA NoRunType ==
  /\ NoRun \in Run /\ NoRun.pc = "off" /\ ~NoRun.quiet
  /\ NoSweep \in Sweep /\ NoSweep.pc = "idle"
BY DEF NoRun, Run, NoSweep, Sweep

LEMMA BootRunsType ==
  ASSUME NEW q \in BOOLEAN
  PROVE  BootRuns(q) \in [Runs -> Run]
BY NoRunType DEF BootRuns, Run

LEMMA DisturbType ==
  ASSUME run \in [Runs -> Run]
  PROVE  /\ Disturb(run) \in [Runs -> Run]
         /\ \A r \in Runs : Disturb(run)[r].pc = run[r].pc /\ ~Disturb(run)[r].quiet
BY DEF Disturb, Run

LEMMA GoroutineParts ==
  /\ Consumer \in Goroutine
  /\ \A r \in Runs, d \in Dev : <<r, d>> \in Goroutine /\ <<r, d>> # Consumer
  /\ \A g \in Goroutine : g # Consumer =>
       g[1] \in Runs /\ g[2] \in Dev /\ g = <<g[1], g[2]>>
BY DEF Goroutine

LEMMA InitType == Init => TypeInv
<1> SUFFICES ASSUME Init PROVE TypeInv
  OBVIOUS
<1>1. run \in [Runs -> Run]
  BY BootRunsType DEF Init
<1>2. topic \in Seq(Message)
  BY EmptySeq DEF Init
<1>3. proc \in [Goroutine -> Worker] /\ sweep \in [Runs \X Owner -> Sweep]
  BY IdleType, NoRunType DEF Init
<1>4. /\ dev \in [Dev -> Device \cup {None}]
      /\ chirp \in [Eui -> ChirpDevice \cup {None}]
      /\ keys \in [Eui -> Key \cup {None}]
      /\ sess \in [Eui -> Activation \cup {None}]
  BY DEF Init
<1>5. edits \in 0..MaxEdits /\ crashes \in 0..MaxCrashes
  BY BoundAssumption DEF Init
<1>6. TypeOK
  BY <1>1, <1>2, <1>3, <1>4, <1>5 DEF TypeOK
<1>7. LocalsOK /\ ConsumerOK /\ PhasesOK
  BY IdleType, NoRunType, GoroutineParts DEF Init, LocalsOK, ConsumerOK, PhasesOK
<1> QED BY <1>6, <1>7 DEF TypeInv

LEMMA PutType ==
  ASSUME topic \in Seq(Message), NEW d \in Dev
  PROVE  /\ Put(d) \in Seq(Message) /\ Put(d) # <<>>
         /\ topic # <<>> => Head(Put(d)) = Head(topic)
<1>1. [cmd |-> "PUT", d |-> d] \in Message
  BY DEF Message
<1> QED BY <1>1, AppendProperties DEF Put

\* A handler that returns leaves the types alone.
LEMMA ReturnType ==
  ASSUME TypeInv, NEW g \in Goroutine, NEW ok \in BOOLEAN, Return(g, ok)
  PROVE  /\ proc' \in [Goroutine -> Worker] /\ LocalsOK'
         /\ proc'[Consumer].pc # "idle" =>
              proc'[Consumer] = proc[Consumer] /\ g # Consumer
         /\ run' \in [Runs -> Run] /\ \A r \in Runs : run'[r].pc = run[r].pc
         /\ \A f \in Goroutine : proc'[f] = IF f = g THEN Idle ELSE proc[f]
<1>1. proc' \in [Goroutine -> Worker]
  BY IdleType DEF Return, TypeInv, TypeOK
<1>2. \A f \in Goroutine : proc'[f] = IF f = g THEN Idle ELSE proc[f]
  BY DEF Return, TypeInv, TypeOK
<1>3. LocalsOK'
  BY <1>2, IdleType DEF LocalsOK, TypeInv, LocalOK
<1>4. proc'[Consumer].pc # "idle" => proc'[Consumer] = proc[Consumer] /\ g # Consumer
  BY <1>2, IdleType, GoroutineParts
<1>5. run' \in [Runs -> Run] /\ \A r \in Runs : run'[r].pc = run[r].pc
  <2>1. run \in [Runs -> Run]
    BY DEF TypeInv, TypeOK
  <2>2. CASE g = Consumer \/ ok
    BY <2>1, <2>2 DEF Return
  <2>3. CASE ~(g = Consumer \/ ok)
    <3>1. PICK r \in Runs : run' = [run EXCEPT ![r].failed = TRUE]
      BY <2>3, GoroutineParts DEF Return
    <3>2. /\ [run[r] EXCEPT !.failed = TRUE] \in Run
          /\ [run[r] EXCEPT !.failed = TRUE].pc = run[r].pc
      BY <2>1 DEF Run
    <3> QED BY <2>1, <3>1, <3>2
  <2> QED BY <2>2, <2>3
<1> QED BY <1>1, <1>2, <1>3, <1>4, <1>5

\* ... and so do a return with the message consumed, or kept, or put before it.
LEMMA HandledType ==
  ASSUME TypeInv, NEW g \in Goroutine, proc[g].pc # "idle",
         NEW ok \in BOOLEAN, Return(g, ok),
         NEW q \in Seq(Message), topic' = Handled(g, q),
         topic # <<>> => q # <<>> /\ Head(q) = Head(topic)
  PROVE  /\ proc' \in [Goroutine -> Worker] /\ LocalsOK' /\ ConsumerOK'
         /\ run' \in [Runs -> Run] /\ topic' \in Seq(Message)
         /\ UNCHANGED sweep => PhasesOK'
<1>1. /\ proc' \in [Goroutine -> Worker] /\ LocalsOK' /\ run' \in [Runs -> Run]
      /\ proc'[Consumer].pc # "idle" =>
           proc'[Consumer] = proc[Consumer] /\ g # Consumer
      /\ \A r \in Runs : run'[r].pc = run[r].pc
      /\ \A f \in Goroutine : proc'[f] = IF f = g THEN Idle ELSE proc[f]
  BY ReturnType
<1>2. g = Consumer => topic # <<>>
  BY DEF TypeInv, ConsumerOK
<1>3. topic' \in Seq(Message)
  BY <1>2, HeadTailProperties DEF Handled
<1>4. ConsumerOK'
  BY <1>1 DEF Handled, ConsumerOK, TypeInv
<1>5. UNCHANGED sweep => PhasesOK'
  <2>1. ASSUME NEW f \in Goroutine \ {Consumer}, proc'[f].pc # "idle"
        PROVE  proc'[f].pc \in Busy /\ run'[f[1]].pc = "syncing"
    <3>1. proc'[f] = proc[f] /\ f[1] \in Runs
      BY <1>1, <2>1, IdleType, GoroutineParts
    <3> QED BY <1>1, <2>1, <3>1 DEF PhasesOK, TypeInv
  <2> QED BY <1>1, <2>1 DEF PhasesOK, TypeInv
<1> QED BY <1>1, <1>3, <1>4, <1>5

LEMMA StopType ==
  ASSUME TypeInv, NEW g \in Goroutine, proc[g].pc # "idle",
         NEW ok \in BOOLEAN, Stop(g, ok)
  PROVE  /\ proc' \in [Goroutine -> Worker] /\ LocalsOK' /\ ConsumerOK'
         /\ run' \in [Runs -> Run] /\ topic' \in Seq(Message)
         /\ UNCHANGED sweep => PhasesOK'
BY HandledType DEF Stop, TypeInv, TypeOK

LEMMA PutReturnType ==
  ASSUME TypeInv, NEW g \in Goroutine, proc[g].pc # "idle", NEW d \in Dev,
         NEW ok \in BOOLEAN, Return(g, ok), topic' = Handled(g, Put(d))
  PROVE  /\ proc' \in [Goroutine -> Worker] /\ LocalsOK' /\ ConsumerOK'
         /\ run' \in [Runs -> Run] /\ topic' \in Seq(Message)
         /\ UNCHANGED sweep => PhasesOK'
BY HandledType, PutType DEF TypeInv, TypeOK

\* A busy handler that goes on with other variables.
LEMMA GoesOnType ==
  ASSUME TypeInv, NEW g \in Goroutine, NEW p \in Worker, LocalOK(g, p),
         proc' = [proc EXCEPT ![g] = p], p.pc \in Busy,
         proc[g].pc # "idle" \/ g = Consumer,
         topic' \in Seq(Message), topic' # <<>> \/ (g # Consumer /\ topic' = topic),
         topic # <<>> => Head(topic') = Head(topic), UNCHANGED <<run, sweep>>
  PROVE  proc' \in [Goroutine -> Worker] /\ LocalsOK' /\ ConsumerOK' /\ PhasesOK'
<1>1. proc' \in [Goroutine -> Worker]
  BY DEF TypeInv, TypeOK
<1>2. \A f \in Goroutine : proc'[f] = IF f = g THEN p ELSE proc[f]
  BY DEF TypeInv, TypeOK
<1>3. LocalsOK'
  BY <1>2 DEF LocalsOK, TypeInv, LocalOK
<1>4. ConsumerOK'
  BY <1>2, GoroutineParts DEF ConsumerOK, TypeInv, Busy
<1>5. PhasesOK'
  BY <1>2, GoroutineParts DEF PhasesOK, TypeInv, Busy
<1> QED BY <1>1, <1>3, <1>4, <1>5

\* The types hold after a step that leaves the counters alone.
LEMMA TypeParts ==
  ASSUME TypeInv, UNCHANGED <<edits, crashes>>,
         dev' \in [Dev -> Device \cup {None}],
         chirp' \in [Eui -> ChirpDevice \cup {None}],
         keys' \in [Eui -> Key \cup {None}],
         sess' \in [Eui -> Activation \cup {None}],
         proc' \in [Goroutine -> Worker], LocalsOK', ConsumerOK', PhasesOK',
         run' \in [Runs -> Run], sweep' \in [Runs \X Owner -> Sweep],
         topic' \in Seq(Message)
  PROVE  TypeInv'
BY DEF TypeInv, TypeOK

\* UpdateDevice of a copy that has a type.
LEMMA UpdateType ==
  ASSUME TypeInv, NEW g \in Goroutine, proc[g].pc \in Busy, NEW copy \in Device,
         NEW next \in {"get", "idle"}, UpdateDevice(g, copy, next),
         copy.act = proc[g].copy.act,
         UNCHANGED <<chirpstack, others>>
  PROVE  TypeInv'
<1> DEFINE p == proc[g]
           d == p.d
<1>a. /\ p \in Worker /\ LocalOK(g, p) /\ d \in Dev
      /\ dev \in [Dev -> Device \cup {None}] /\ topic \in Seq(Message)
  BY DEF TypeInv, TypeOK, LocalsOK, LocalOK
<1>b. p.pc # "idle"
  BY DEF Busy
<1>1. dev' \in [Dev -> Device \cup {None}]
  BY <1>a DEF UpdateDevice
<1>2. /\ proc' \in [Goroutine -> Worker] /\ LocalsOK' /\ ConsumerOK' /\ PhasesOK'
      /\ run' \in [Runs -> Run] /\ topic' \in Seq(Message)
  <2>1. CASE \E ok \in BOOLEAN : Stop(g, ok)
    BY <1>b, <2>1, StopType DEF others
  <2>2. CASE /\ \E ok \in BOOLEAN : Return(g, ok)
             /\ topic' = Handled(g, Put(d))
    BY <1>a, <1>b, <2>2, PutReturnType DEF others
  <2>3. CASE /\ next # "idle"
             /\ proc' = [proc EXCEPT ![g].copy = copy, ![g].pc = next]
             /\ topic' = Put(d) /\ UNCHANGED run
    <3> DEFINE q == [p EXCEPT !.copy = copy, !.pc = next]
    <3>1. proc' = [proc EXCEPT ![g] = q]
      BY <2>3 DEF TypeInv, TypeOK
    <3>2. q \in Worker /\ q.pc \in Busy
      BY <1>a, <2>3 DEF Worker, Busy
    <3>3. LocalOK(g, q)
      BY <1>a, <2>3 DEF LocalOK, Worker
    <3>4. /\ topic' \in Seq(Message) /\ topic' # <<>>
          /\ topic # <<>> => Head(topic') = Head(topic)
      BY <1>a, <2>3, PutType
    <3> HIDE DEF q
    <3>5. UNCHANGED <<run, sweep>>
      BY <2>3 DEF others
    <3>6. proc' \in [Goroutine -> Worker] /\ LocalsOK' /\ ConsumerOK' /\ PhasesOK'
      BY <1>b, <3>1, <3>2, <3>3, <3>4, <3>5, GoesOnType
    <3> QED BY <2>3, <3>4, <3>6 DEF TypeInv, TypeOK
  <2> QED BY <2>1, <2>2, <2>3 DEF UpdateDevice
<1> QED BY <1>1, <1>2, TypeParts DEF chirpstack, others, TypeInv, TypeOK

\* A handler that goes on, or returns, and leaves devices alone.
LEMMA ContinueType ==
  ASSUME TypeInv, NEW g \in Goroutine, proc[g].pc \in Busy,
         UNCHANGED <<dev, others>>,
         chirp' \in [Eui -> ChirpDevice \cup {None}],
         keys' \in [Eui -> Key \cup {None}],
         sess' \in [Eui -> Activation \cup {None}],
         \/ \E ok \in BOOLEAN : Stop(g, ok)
         \/ \E p \in Worker : /\ LocalOK(g, p) /\ p.pc \in Busy
                              /\ proc' = [proc EXCEPT ![g] = p]
                              /\ UNCHANGED <<topic, run>>
  PROVE  TypeInv'
<1>a. proc[g].pc # "idle"
  BY DEF Busy
<1>1. CASE \E ok \in BOOLEAN : Stop(g, ok)
  BY <1>a, <1>1, StopType, TypeParts DEF others, TypeInv, TypeOK
<1>2. ASSUME NEW p \in Worker, LocalOK(g, p), p.pc \in Busy,
             proc' = [proc EXCEPT ![g] = p], UNCHANGED <<topic, run>>
      PROVE  TypeInv'
  <2>1. topic \in Seq(Message) /\ (g = Consumer => topic # <<>>)
    BY <1>a DEF TypeInv, TypeOK, ConsumerOK
  <2>2. UNCHANGED <<run, sweep>>
    BY <1>2 DEF others
  <2>3. proc' \in [Goroutine -> Worker] /\ LocalsOK' /\ ConsumerOK' /\ PhasesOK'
    BY <1>a, <1>2, <2>1, <2>2, GoesOnType
  <2> QED BY <1>2, <2>3, TypeParts DEF others, TypeInv, TypeOK
<1> QED BY <1>1, <1>2

\* The calls that GetKeys decides on, with what the two comparisons say.
Decided(p, k, a) ==
  p.todo
    \cup (IF /\ p.copy.key # None /\ "createKeys" \notin p.todo
             /\ Otaa /\ k
          THEN {"updateKeys"} ELSE {})
    \cup (IF p.copy.act # None /\ a THEN {"activate"} ELSE {})
Wanted(p) == IF p.copy.act = None THEN None
             ELSE [key |-> p.copy.act, moved |-> FALSE]

LEMMA KeysDecided ==
  ASSUME NEW g \in Goroutine, GetKeys(g)
  PROVE  \E k \in Differ(keys[E(g)], proc[g].copy.key),
            a \in Differ(proc[g].active, Wanted(proc[g])) :
           IF Decided(proc[g], k, a) \subseteq {"createKeys"} THEN Stop(g, TRUE)
           ELSE /\ proc' = [proc EXCEPT ![g].todo = Decided(proc[g], k, a),
                                        ![g].pc = "device"]
                /\ UNCHANGED <<topic, run>>
BY Zenon DEF GetKeys, Decided, Wanted

LEMMA WorkType ==
  ASSUME TypeInv, NEW g \in Goroutine, Work(g)
  PROVE  TypeInv'
<1> DEFINE p == proc[g]
           e == p.copy.eui
<1>a. /\ p \in Worker /\ LocalOK(g, p) /\ proc \in [Goroutine -> Worker]
      /\ dev \in [Dev -> Device \cup {None}]
      /\ chirp \in [Eui -> ChirpDevice \cup {None}]
      /\ keys \in [Eui -> Key \cup {None}]
      /\ sess \in [Eui -> Activation \cup {None}]
  BY DEF TypeInv, TypeOK, LocalsOK
<1>b. p.pc \in Busy =>
        /\ p.d \in Dev /\ p.copy \in Device /\ e \in Eui
        /\ OwnerOf[p.d] \in Owner /\ p.copy.name \in Name
        /\ p.copy.key \in Key \cup {None} /\ p.copy.act \in Session \cup {None}
  BY <1>a DEF LocalOK, Device
\* The calls that only change what the goroutine knows.
<1>c. ASSUME NEW q \in Worker, LocalOK(g, q), q.pc \in Busy, p.pc \in Busy,
             proc' = [proc EXCEPT ![g] = q],
             UNCHANGED <<dev, chirpstack, topic, run, others>>
      PROVE  TypeInv'
  BY <1>a, <1>c, ContinueType DEF chirpstack
<1>d. ASSUME p.pc \in Busy, NEW ok \in BOOLEAN, Stop(g, ok),
             UNCHANGED <<dev, chirpstack, others>>
      PROVE  TypeInv'
  BY <1>a, <1>d, ContinueType DEF chirpstack
<1>1. CASE LowerLocalId(g)
  <2>1. p.pc = "lower" /\ p.pc \in Busy
    BY <1>1 DEF LowerLocalId, At, Busy
  <2>2. CASE proc' = [proc EXCEPT ![g].pc = "get"] /\ UNCHANGED <<dev, topic, run>>
    <3> DEFINE q == [p EXCEPT !.pc = "get"]
    <3>1. proc' = [proc EXCEPT ![g] = q]
      BY <2>2, <1>a
    <3>2. q \in Worker /\ LocalOK(g, q) /\ q.pc \in Busy
      BY <2>1, <1>a DEF Worker, LocalOK, Busy
    <3> QED BY <1>1, <1>c, <2>1, <2>2, <3>1, <3>2 DEF LowerLocalId
  <2>3. CASE UpdateDevice(g, [p.copy EXCEPT !.lower = TRUE], "get")
    <3>1. /\ [p.copy EXCEPT !.lower = TRUE] \in Device
          /\ [p.copy EXCEPT !.lower = TRUE].act = p.copy.act
      BY <2>1, <1>b DEF Device
    <3> QED BY <1>1, <2>1, <2>3, <3>1, UpdateType DEF LowerLocalId
  <2> QED BY <1>1, <2>2, <2>3 DEF LowerLocalId
<1>2. CASE GetDevice(g)
  <2>1. p.pc = "get" /\ p.pc \in Busy
    BY <1>2 DEF GetDevice, At, Busy
  <2>2. CASE OwnerOf[p.d] \notin Account
    BY <1>2, <1>d, <2>1, <2>2 DEF GetDevice
  <2>3. CASE OwnerOf[p.d] \in Account
    <3> DEFINE new == {"create"} \cup (IF p.copy.key # None THEN {"createKeys"} ELSE {})
                                 \cup (IF p.copy.act # None THEN {"activate"} ELSE {})
    <3>1. new \in SUBSET Op /\ ("activate" \in new => p.copy.act # None)
      BY DEF Op
    <3> HIDE DEF new
    <3>2. PICK pc \in {"device", "duplicate", "activation"}, todo \in SUBSET Op :
            /\ proc' = [proc EXCEPT ![g] = [p EXCEPT !.pc = pc, !.todo = todo]]
            /\ "activate" \in todo => p.copy.act # None
      <4>1. CASE chirp[e] = None
        <5>1. proc' = [proc EXCEPT ![g] = [p EXCEPT !.pc = "device", !.todo = new]]
          BY <1>2, <2>3, <4>1 DEF GetDevice, new, E
        <5> QED BY <3>1, <5>1
      <4>2. CASE chirp[e] # None /\ chirp[e].app # OwnerOf[p.d]
        <5>1. proc' = [proc EXCEPT ![g] = [p EXCEPT !.pc = "duplicate"]]
          BY <1>2, <2>3, <4>2 DEF GetDevice, E
        <5>2. /\ [p EXCEPT !.pc = "duplicate"] =
                   [p EXCEPT !.pc = "duplicate", !.todo = p.todo]
              /\ p.todo \in SUBSET Op /\ ("activate" \in p.todo => p.copy.act # None)
          BY <2>1, <1>a DEF Worker, LocalOK
        <5> QED BY <5>1, <5>2
      <4>3. CASE chirp[e] # None /\ chirp[e].app = OwnerOf[p.d]
        <5> DEFINE t == IF chirp[e].name # p.copy.name THEN {"update"} ELSE {}
        <5>1. proc' = [proc EXCEPT ![g] = [p EXCEPT !.pc = "activation", !.todo = t]]
          BY <1>2, <2>3, <4>3 DEF GetDevice, E
        <5>2. t \in SUBSET Op /\ "activate" \notin t
          BY DEF Op
        <5> QED BY <5>1, <5>2
      <4> QED BY <4>1, <4>2, <4>3
    <3> DEFINE q == [p EXCEPT !.pc = pc, !.todo = todo]
    <3>3. q \in Worker /\ LocalOK(g, q) /\ q.pc \in Busy
      BY <2>1, <3>2, <1>a DEF Worker, LocalOK, Busy
    <3> QED BY <1>2, <1>c, <2>1, <2>3, <3>2, <3>3 DEF GetDevice
  <2> QED BY <2>2, <2>3
<1>3. CASE MarkDuplicate(g)
  <2>1. p.pc = "duplicate" /\ p.pc \in Busy
    BY <1>3 DEF MarkDuplicate, At, Busy
  <2>2. CASE Stop(g, TRUE) /\ UNCHANGED dev
    BY <1>3, <1>d, <2>1, <2>2 DEF MarkDuplicate
  <2>3. CASE UpdateDevice(g, [p.copy EXCEPT !.dup = TRUE], "idle")
    <3>1. /\ [p.copy EXCEPT !.dup = TRUE] \in Device
          /\ [p.copy EXCEPT !.dup = TRUE].act = p.copy.act
      BY <2>1, <1>b DEF Device
    <3> QED BY <1>3, <2>1, <2>3, <3>1, UpdateType DEF MarkDuplicate
  <2> QED BY <1>3, <2>2, <2>3 DEF MarkDuplicate
<1>4. CASE GetActivation(g)
  <2>1. p.pc = "activation" /\ p.pc \in Busy
    BY <1>4 DEF GetActivation, At, Busy
  <2>2. CASE Stop(g, FALSE)
    BY <1>4, <1>d, <2>1, <2>2 DEF GetActivation
  <2>3. ASSUME NEW t \in SUBSET Op, "activate" \in t => "activate" \in p.todo,
               NEW active \in {sess[e]} \cup {None},
               proc' = [proc EXCEPT ![g].pc = "keys", ![g].active = active,
                                    ![g].todo = t],
               UNCHANGED <<topic, run>>
        PROVE  TypeInv'
    <3> DEFINE q == [p EXCEPT !.pc = "keys", !.active = active, !.todo = t]
    <3>1. proc' = [proc EXCEPT ![g] = q]
      BY <2>3, <1>a
    <3>2. active \in Activation \cup {None}
      BY <2>1, <1>a, <1>b
    <3>3. q \in Worker /\ LocalOK(g, q) /\ q.pc \in Busy
      BY <2>1, <2>3, <3>2, <1>a DEF Worker, LocalOK, Busy
    <3> QED BY <1>4, <1>c, <2>1, <2>3, <3>1, <3>3 DEF GetActivation
  <2>4. p.todo \in SUBSET Op /\ p.todo \cup {"createKeys"} \in SUBSET Op
    BY <1>a DEF Worker, Op
  <2>5. CASE ~Stop(g, FALSE)
    <3>1. PICK active \in {sess[e]} \cup {None} :
            /\ proc' = [proc EXCEPT ![g].pc = "keys", ![g].active = active,
                 ![g].todo = IF active = None /\ p.copy.key # None
                             THEN @ \cup {"createKeys"} ELSE @]
            /\ UNCHANGED <<run, topic>>
      BY <1>4, <2>5 DEF GetActivation, E
    <3> DEFINE t == IF active = None /\ p.copy.key # None
                    THEN p.todo \cup {"createKeys"} ELSE p.todo
    <3>2. t \in SUBSET Op /\ ("activate" \in t => "activate" \in p.todo)
      BY <2>4
    <3>3. proc' = [proc EXCEPT ![g].pc = "keys", ![g].active = active, ![g].todo = t]
      BY <1>a, <3>1
    <3> HIDE DEF t
    <3> QED BY <2>3, <3>1, <3>2, <3>3
  <2> QED BY <2>2, <2>5
<1>5. CASE GetKeys(g)
  <2>1. p.pc = "keys" /\ p.pc \in Busy
    BY <1>5 DEF GetKeys, At, Busy
  <2>2. PICK t \in SUBSET Op :
          /\ "activate" \in t => p.copy.act # None
          /\ \/ Stop(g, TRUE)
             \/ /\ proc' = [proc EXCEPT ![g].todo = t, ![g].pc = "device"]
                /\ UNCHANGED <<topic, run>>
    <3>1. PICK k, a :
            IF Decided(p, k, a) \subseteq {"createKeys"} THEN Stop(g, TRUE)
            ELSE /\ proc' = [proc EXCEPT ![g].todo = Decided(p, k, a),
                                         ![g].pc = "device"]
                 /\ UNCHANGED <<topic, run>>
      BY <1>5, KeysDecided
    <3> DEFINE s == Decided(p, k, a)
    <3>2. s \in SUBSET Op
      BY <1>a DEF Worker, Op, Decided
    <3>3. "activate" \in s => p.copy.act # None
      BY <2>1, <1>a DEF LocalOK, Decided
    <3>4. \/ Stop(g, TRUE)
          \/ /\ proc' = [proc EXCEPT ![g].todo = s, ![g].pc = "device"]
             /\ UNCHANGED <<topic, run>>
      BY <3>1
    <3> HIDE DEF s
    <3> QED BY <3>2, <3>3, <3>4
  <2>3. CASE Stop(g, TRUE)
    BY <1>5, <1>d, <2>1, <2>3 DEF GetKeys
  <2>4. CASE /\ proc' = [proc EXCEPT ![g].todo = t, ![g].pc = "device"]
             /\ UNCHANGED <<topic, run>>
    <3> DEFINE q == [p EXCEPT !.todo = t, !.pc = "device"]
    <3>1. proc' = [proc EXCEPT ![g] = q]
      BY <2>4, <1>a
    <3>2. q \in Worker /\ LocalOK(g, q) /\ q.pc \in Busy
      BY <2>1, <2>2, <1>a DEF Worker, LocalOK, Busy
    <3> QED BY <1>5, <1>c, <2>1, <2>4, <3>1, <3>2 DEF GetKeys
  <2> QED BY <2>2, <2>3, <2>4
\* Continue with the next call that changes ChirpStack.
<1>e. ASSUME p.pc \in Busy, NEW next \in {"setKeys", "activate", "idle"},
             Continue(g, next),
             next = "activate" => "activate" \in p.todo
      PROVE  \/ \E ok \in BOOLEAN : Stop(g, ok)
             \/ \E q \in Worker : /\ LocalOK(g, q) /\ q.pc \in Busy
                                  /\ proc' = [proc EXCEPT ![g] = q]
                                  /\ UNCHANGED <<topic, run>>
  <2>1. CASE /\ next # "idle" /\ proc' = [proc EXCEPT ![g].pc = next]
             /\ UNCHANGED <<topic, run>>
    <3> DEFINE q == [p EXCEPT !.pc = next]
    <3>1. proc' = [proc EXCEPT ![g] = q]
      BY <2>1, <1>a
    <3>2. q \in Worker /\ LocalOK(g, q) /\ q.pc \in Busy
      BY <1>e, <2>1, <1>a DEF Worker, LocalOK, Busy
    <3> QED BY <2>1, <3>1, <3>2
  <2> QED BY <1>e, <2>1 DEF Continue
<1>6. CASE WriteDevice(g)
  <2>1. p.pc = "device" /\ p.pc \in Busy
    BY <1>6 DEF WriteDevice, At, Busy
  <2>2. [app |-> OwnerOf[p.d], name |-> p.copy.name] \in ChirpDevice
    BY <2>1, <1>b DEF ChirpDevice
  <2>3. chirp' \in [Eui -> ChirpDevice \cup {None}]
    <3>1. \/ UNCHANGED chirp
          \/ chirp' = [chirp EXCEPT ![e] = [app |-> OwnerOf[p.d], name |-> p.copy.name]]
      BY <1>6 DEF WriteDevice, E
    <3> QED BY <2>2, <3>1, <1>a
  <2>4. Continue(g, "setKeys") \/ Stop(g, FALSE)
    BY <1>6 DEF WriteDevice
  <2>5. UNCHANGED <<dev, keys, sess, others>>
    BY <1>6 DEF WriteDevice
  <2> QED BY <1>a, <1>e, <2>1, <2>3, <2>4, <2>5, ContinueType
<1>7. CASE WriteKeys(g)
  <2>1. p.pc = "setKeys" /\ p.pc \in Busy
    BY <1>7 DEF WriteKeys, At, Busy
  <2>2. keys' \in [Eui -> Key \cup {None}]
    <3>1. UNCHANGED keys \/ keys' = [keys EXCEPT ![e] = p.copy.key]
      BY <1>7 DEF WriteKeys, E
    <3> QED BY <2>1, <3>1, <1>a, <1>b
  <2>3. \/ \E next \in {"activate", "idle"} :
             Continue(g, next) /\ (next = "activate" => "activate" \in p.todo)
        \/ Stop(g, FALSE)
    BY <1>7 DEF WriteKeys
  <2>4. UNCHANGED <<dev, chirp, sess, others>>
    BY <1>7 DEF WriteKeys
  <2> QED BY <1>a, <1>e, <2>1, <2>2, <2>3, <2>4, ContinueType
<1>8. CASE Activate(g)
  <2>1. p.pc = "activate" /\ p.pc \in Busy
    BY <1>8 DEF Activate, At, Busy
  <2>2. [key |-> p.copy.act, moved |-> FALSE] \in Activation
    BY <2>1, <1>a, <1>b DEF Activation, LocalOK
  <2>3. sess' \in [Eui -> Activation \cup {None}]
    BY <1>8, <2>2, <1>a DEF Activate, E
  <2>4. Continue(g, "idle") \/ Stop(g, FALSE)
    BY <1>8 DEF Activate
  <2>5. UNCHANGED <<dev, chirp, keys, others>>
    BY <1>8 DEF Activate
  <2> QED BY <1>a, <1>e, <2>1, <2>3, <2>4, <2>5, ContinueType
<1>9. CASE CallError(g)
  <2>1. Stop(g, FALSE) /\ p.pc # "idle" /\ UNCHANGED <<dev, chirpstack, others>>
    BY <1>9 DEF CallError
  <2> QED BY <2>1, <1>a, StopType, TypeParts DEF chirpstack, others, TypeInv, TypeOK
<1> QED BY <1>1, <1>2, <1>3, <1>4, <1>5, <1>6, <1>7, <1>8, <1>9 DEF Work

LEMMA ConsumeType ==
  ASSUME TypeInv, Consume
  PROVE  TypeInv'
<1>a. /\ dev \in [Dev -> Device \cup {None}]
      /\ chirp \in [Eui -> ChirpDevice \cup {None}]
      /\ keys \in [Eui -> Key \cup {None}]
      /\ sess \in [Eui -> Activation \cup {None}]
      /\ topic \in Seq(Message) /\ proc[Consumer] \in Worker
      /\ Consumer \in Goroutine /\ proc \in [Goroutine -> Worker]
      /\ run \in [Runs -> Run] /\ sweep \in [Runs \X Owner -> Sweep]
  BY GoroutineParts DEF TypeInv, TypeOK
\* A message that needs no work leaves the topic.
<1>b. ASSUME proc[Consumer].pc = "idle", topic # <<>>, topic' = Tail(topic),
             UNCHANGED <<dev, chirpstack, proc, run, others>>
      PROVE  TypeInv'
  <2>1. topic' \in Seq(Message)
    BY <1>a, <1>b, HeadTailProperties
  <2>2. LocalsOK' /\ ConsumerOK'
    BY <1>b DEF TypeInv, LocalsOK, LocalOK, ConsumerOK
  <2>3. PhasesOK'
    BY <1>b DEF TypeInv, PhasesOK, others
  <2> QED BY <1>a, <1>b, <2>1, <2>2, <2>3, TypeParts DEF chirpstack, others
<1>1. CASE HandlePut
  <2>0. proc[Consumer].pc = "idle" /\ topic # <<>> /\ Head(topic) \in Message
    BY <1>1, <1>a, HeadTailProperties DEF HandlePut, At
  <2>1. CASE UNCHANGED proc /\ topic' = Tail(topic)
    BY <1>1, <1>b, <2>0, <2>1 DEF HandlePut
  <2>2. CASE /\ dev[Head(topic).d] # None /\ UNCHANGED topic
             /\ proc' = [proc EXCEPT ![Consumer] = Syncing(Head(topic).d)]
    <3> DEFINE d == Head(topic).d
    <3>1. d \in Dev /\ dev[d] \in Device
      BY <2>0, <2>2, <1>a DEF Message
    <3>2. /\ Syncing(d) \in Worker /\ LocalOK(Consumer, Syncing(d))
          /\ Syncing(d).pc \in Busy
      BY <3>1 DEF Syncing, Idle, Worker, LocalOK, Busy
    <3>3. UNCHANGED <<run, sweep>>
      BY <1>1 DEF HandlePut, others
    <3>4. proc' \in [Goroutine -> Worker] /\ LocalsOK' /\ ConsumerOK' /\ PhasesOK'
      BY <2>0, <2>2, <3>2, <3>3, <1>a, GoesOnType
    <3> QED BY <1>1, <2>2, <3>4, <1>a, TypeParts DEF HandlePut, chirpstack, others
  <2> QED BY <1>1, <2>1, <2>2 DEF HandlePut
<1>2. CASE HandleDelete
  <2>0. proc[Consumer].pc = "idle" /\ topic # <<>> /\ Head(topic).cmd = "DELETE"
    BY <1>2 DEF HandleDelete, At
  <2>1. CASE UNCHANGED proc /\ topic' = Tail(topic)
    BY <1>2, <1>b, <2>0, <2>1 DEF HandleDelete
  <2>2. CASE UNCHANGED topic /\ proc' = [proc EXCEPT ![Consumer].pc = "delete"]
    <3> DEFINE q == [proc[Consumer] EXCEPT !.pc = "delete"]
    <3>1. proc' = [proc EXCEPT ![Consumer] = q] /\ q \in Worker
      BY <2>2, <1>a DEF Worker
    <3>2. \A f \in Goroutine : proc'[f] = IF f = Consumer THEN q ELSE proc[f]
      BY <3>1, <1>a
    <3>3. proc' \in [Goroutine -> Worker] /\ LocalOK(Consumer, q)
      BY <3>1, <1>a DEF LocalOK, Busy, Worker
    <3>4. UNCHANGED <<run, sweep>>
      BY <1>2 DEF HandleDelete, others
    <3> HIDE DEF q
    <3>5. LocalsOK'
      BY <3>2, <3>3 DEF LocalsOK, TypeInv, LocalOK
    <3>6. ConsumerOK'
      BY <2>0, <2>2 DEF ConsumerOK
    <3>7. PhasesOK'
      BY <3>2, <3>4 DEF PhasesOK, TypeInv
    <3> QED BY <1>2, <2>2, <3>3, <3>5, <3>6, <3>7, <1>a, TypeParts
            DEF HandleDelete, chirpstack, others
  <2> QED BY <1>2, <2>1, <2>2 DEF HandleDelete
<1>3. CASE DeleteDevice
  <2>1. /\ chirp' \in [Eui -> ChirpDevice \cup {None}]
        /\ keys' \in [Eui -> Key \cup {None}]
        /\ sess' \in [Eui -> Activation \cup {None}]
    BY <1>3, <1>a DEF DeleteDevice, Forget
  <2>2. proc[Consumer].pc # "idle" /\ Stop(Consumer, TRUE) /\ UNCHANGED <<dev, others>>
    BY <1>3 DEF DeleteDevice, At
  <2> QED BY <2>1, <2>2, <1>a, StopType, TypeParts DEF others
<1> QED BY <1>1, <1>2, <1>3 DEF Consume

\* A step of a run that leaves the goroutines alone.
LEMMA RunOnlyType ==
  ASSUME TypeInv, NEW r \in Runs, NEW x \in Run, run' = [run EXCEPT ![r] = x],
         run[r].pc # "syncing" \/ x.pc = "syncing" \/ \A d \in Dev : proc[<<r, d>>].pc = "idle",
         x.pc = "sweeping" \/ \A o \in Owner : sweep'[<<r, o>>].pc = "idle",
         \A s \in Runs \ {r}, o \in Owner : sweep'[<<s, o>>] = sweep[<<s, o>>],
         chirp' \in [Eui -> ChirpDevice \cup {None}],
         keys' \in [Eui -> Key \cup {None}],
         sess' \in [Eui -> Activation \cup {None}],
         sweep' \in [Runs \X Owner -> Sweep],
         UNCHANGED <<dev, topic, proc, edits, crashes>>
  PROVE  TypeInv'
<1>1. run \in [Runs -> Run]
  BY DEF TypeInv, TypeOK
<1>2. run' \in [Runs -> Run] /\ \A s \in Runs : run'[s] = IF s = r THEN x ELSE run[s]
  BY <1>1
<1>3. LocalsOK' /\ ConsumerOK'
  BY DEF TypeInv, LocalsOK, LocalOK, ConsumerOK
<1>4. ASSUME NEW g \in Goroutine \ {Consumer}, proc'[g].pc # "idle"
      PROVE  proc'[g].pc \in Busy /\ run'[g[1]].pc = "syncing"
  <2>1. g[1] \in Runs /\ g[2] \in Dev /\ g = <<g[1], g[2]>>
    BY GoroutineParts
  <2>2. proc[g].pc # "idle" /\ proc[g].pc \in Busy /\ run[g[1]].pc = "syncing"
    BY <1>4 DEF TypeInv, PhasesOK
  <2> QED BY <1>2, <2>1, <2>2
<1>5. ASSUME NEW s \in Runs, NEW o \in Owner, sweep'[<<s, o>>].pc # "idle"
      PROVE  run'[s].pc = "sweeping"
  BY <1>2, <1>5 DEF TypeInv, PhasesOK
<1>6. PhasesOK'
  BY <1>4, <1>5 DEF PhasesOK
<1> QED BY <1>2, <1>3, <1>6, TypeParts DEF TypeInv, TypeOK

LEMMA PageType == \A o \in Owner, i \in Nat : Page(o, i) \in SUBSET Eui
BY DEF Page, InOrder

\* A step of one sweep goroutine.
LEMMA SweepType ==
  ASSUME TypeInv, NEW r \in Runs, NEW o \in Owner, NEW s \in Sweep,
         sweep[<<r, o>>].pc # "idle",
         sweep' = [sweep EXCEPT ![<<r, o>>] = s], 
         NEW x \in Run, run' = [run EXCEPT ![r] = x], x.pc = run[r].pc,
         chirp' \in [Eui -> ChirpDevice \cup {None}],
         keys' \in [Eui -> Key \cup {None}],
         sess' \in [Eui -> Activation \cup {None}],
         UNCHANGED <<dev, topic, proc, edits, crashes>>
  PROVE  TypeInv'
<1>1. /\ sweep' \in [Runs \X Owner -> Sweep]
      /\ \A y \in Runs \X Owner : y # <<r, o>> => sweep'[y] = sweep[y]
  BY DEF TypeInv, TypeOK
<1>2. run[r].pc = "sweeping"
  BY DEF TypeInv, PhasesOK
<1> QED BY <1>1, <1>2, RunOnlyType

LEMMA RunStepType ==
  ASSUME TypeInv, NEW r \in Runs, StartRun(r) \/ RunStep(r)
  PROVE  TypeInv'
<1> DEFINE x == run[r]
<1>a. /\ run \in [Runs -> Run] /\ x \in Run
      /\ dev \in [Dev -> Device \cup {None}]
      /\ chirp \in [Eui -> ChirpDevice \cup {None}]
      /\ keys \in [Eui -> Key \cup {None}]
      /\ sess \in [Eui -> Activation \cup {None}]
      /\ proc \in [Goroutine -> Worker] /\ topic \in Seq(Message)
      /\ sweep \in [Runs \X Owner -> Sweep]
  BY DEF TypeInv, TypeOK
<1>b. x.pc # "sweeping" => \A o \in Owner : sweep[<<r, o>>].pc = "idle"
  BY DEF TypeInv, PhasesOK
<1>c. x.pc # "syncing" => \A d \in Dev : proc[<<r, d>>].pc = "idle"
  <2> SUFFICES ASSUME x.pc # "syncing", NEW d \in Dev PROVE proc[<<r, d>>].pc = "idle"
    OBVIOUS
  <2>1. <<r, d>> \in Goroutine \ {Consumer} /\ <<r, d>>[1] = r
    BY GoroutineParts
  <2> QED BY <2>1 DEF TypeInv, PhasesOK
<1>1. CASE StartRun(r)
  <2> DEFINE q == Calm /\ \A s \in Runs \ {r} : run[s].pc \in {"off", "done"}
             y == [NoRun EXCEPT !.pc = "list", !.quiet = q]
  <2>1. y \in Run /\ y.pc = "list"
    BY NoRunType DEF Run
  <2>2. /\ run' = [Disturb(run) EXCEPT ![r] = y]
        /\ UNCHANGED <<dev, chirpstack, topic, proc, others>>
        /\ x.pc \in {"off", "done"}
    BY <1>1 DEF StartRun
  <2> HIDE DEF y
  <2>3. /\ run' \in [Runs -> Run]
        /\ \A s \in Runs \ {r} : run'[s].pc = run[s].pc
    BY <2>1, <2>2, <1>a, DisturbType
  <2>4. LocalsOK' /\ ConsumerOK'
    BY <2>2 DEF TypeInv, LocalsOK, LocalOK, ConsumerOK
  <2>5. ASSUME NEW g \in Goroutine \ {Consumer}, proc'[g].pc # "idle"
        PROVE  proc'[g].pc \in Busy /\ run'[g[1]].pc = "syncing"
    <3>1. g[1] \in Runs /\ proc[g].pc \in Busy /\ run[g[1]].pc = "syncing"
      BY <2>2, <2>5, GoroutineParts DEF TypeInv, PhasesOK
    <3> QED BY <2>2, <2>3, <3>1
  <2>6. ASSUME NEW s \in Runs, NEW o \in Owner, sweep'[<<s, o>>].pc # "idle"
        PROVE  run'[s].pc = "sweeping"
    <3>1. run[s].pc = "sweeping"
      BY <2>2, <2>6 DEF TypeInv, PhasesOK, others
    <3> QED BY <2>2, <2>3, <3>1
  <2>7. PhasesOK'
    BY <2>5, <2>6 DEF PhasesOK
  <2> QED BY <2>2, <2>3, <2>4, <2>7, <1>a, TypeParts DEF chirpstack, others
<1>2. CASE ListDevices(r)
  <2>0. x.pc = "list" /\ UNCHANGED <<dev, chirpstack, topic, others>>
    BY <1>2 DEF ListDevices
  <2>1. CASE /\ run' = [run EXCEPT ![r].pc = "syncing"]
             /\ proc' = [g \in Goroutine |->
                  IF g # Consumer /\ g[1] = r /\ dev[g[2]] # None
                  THEN Syncing(g[2]) ELSE proc[g]]
    <3>1. ASSUME NEW g \in Goroutine, g # Consumer, dev[g[2]] # None
          PROVE  Syncing(g[2]) \in Worker /\ LocalOK(g, Syncing(g[2]))
                 /\ Syncing(g[2]).pc \in Busy
      <4>1. g[2] \in Dev /\ dev[g[2]] \in Device
        BY <3>1, <1>a, GoroutineParts
      <4> QED BY <4>1 DEF Syncing, Idle, Worker, LocalOK, Busy
    <3>2. proc' \in [Goroutine -> Worker]
      BY <2>1, <3>1, <1>a
    <3>3. LocalsOK'
      BY <2>1, <3>1 DEF LocalsOK, TypeInv, LocalOK
    <3>4. proc'[Consumer] = proc[Consumer] /\ topic' = topic
      BY <2>0, <2>1, GoroutineParts
    <3>5. run' = [run EXCEPT ![r] = [x EXCEPT !.pc = "syncing"]]
      BY <2>1, <1>a
    <3>6. /\ run' \in [Runs -> Run] /\ run'[r].pc = "syncing"
          /\ \A s \in Runs \ {r} : run'[s] = run[s]
      BY <3>5, <1>a DEF Run
    <3>7. ConsumerOK'
      BY <3>4 DEF ConsumerOK, TypeInv
    <3>8. ASSUME NEW g \in Goroutine \ {Consumer}, proc'[g].pc # "idle"
          PROVE  proc'[g].pc \in Busy /\ run'[g[1]].pc = "syncing"
      <4>1. CASE g[1] = r /\ dev[g[2]] # None
        BY <2>1, <3>1, <3>6, <4>1
      <4>2. CASE ~(g[1] = r /\ dev[g[2]] # None)
        <5>1. proc'[g] = proc[g] /\ g[1] \in Runs
          BY <2>1, <4>2, GoroutineParts
        <5> QED BY <3>6, <3>8, <5>1 DEF TypeInv, PhasesOK
      <4> QED BY <4>1, <4>2
    <3>9. PhasesOK'
      <4>1. ASSUME NEW s \in Runs, NEW o \in Owner, sweep'[<<s, o>>].pc # "idle"
            PROVE  run'[s].pc = "sweeping"
        <5>1. run[s].pc = "sweeping"
          BY <2>0, <4>1 DEF TypeInv, PhasesOK, others
        <5> QED BY <2>0, <3>6, <5>1
      <4> QED BY <3>8, <4>1 DEF PhasesOK
    <3> QED BY <2>0, <3>2, <3>3, <3>6, <3>7, <3>9, <1>a, TypeParts
            DEF chirpstack, others
  <2>2. CASE /\ \E b \in BOOLEAN :
                  run' = [run EXCEPT ![r].pc = "listUsers", ![r].failed = TRUE,
                                     ![r].err = @ \/ b]
             /\ UNCHANGED proc
    <3>1. PICK b \in BOOLEAN :
            run' = [run EXCEPT ![r].pc = "listUsers", ![r].failed = TRUE,
                               ![r].err = @ \/ b]
      BY <2>2
    <3> DEFINE y == [x EXCEPT !.pc = "listUsers", !.failed = TRUE, !.err = @ \/ b]
    <3>2. run' = [run EXCEPT ![r] = y] /\ y \in Run
      BY <3>1, <1>a DEF Run
    <3> HIDE DEF y
    <3> QED BY <2>0, <2>2, <3>2, <1>a, <1>b, RunOnlyType DEF chirpstack, others
  <2> QED BY <1>2, <2>1, <2>2 DEF ListDevices
<1>3. CASE WaitSynced(r)
  <2>1. /\ run' = [run EXCEPT ![r] = [x EXCEPT !.pc = "listUsers"]]
        /\ [x EXCEPT !.pc = "listUsers"] \in Run
    BY <1>3, <1>a DEF WaitSynced, Run
  <2>2. /\ \A d \in Dev : proc[<<r, d>>].pc = "idle"
        /\ x.pc = "syncing" /\ UNCHANGED <<dev, chirpstack, topic, proc, others>>
    BY <1>3 DEF WaitSynced, At
  <2> QED BY <2>1, <2>2, <1>a, <1>b, RunOnlyType DEF chirpstack, others
<1>4. CASE ListOwners(r)
  <2>0. x.pc = "listUsers" /\ UNCHANGED <<dev, chirpstack, topic, proc, edits, crashes>>
    BY <1>4 DEF ListOwners
  <2>1. CASE /\ run' = [run EXCEPT ![r].pc = "sweeping"]
             /\ sweep' = [y \in Runs \X Owner |->
                  IF y[1] = r /\ y[2] \in Account
                  THEN [NoSweep EXCEPT !.pc = "list"] ELSE sweep[y]]
    <3>1. /\ run' = [run EXCEPT ![r] = [x EXCEPT !.pc = "sweeping"]]
          /\ [x EXCEPT !.pc = "sweeping"] \in Run
          /\ [x EXCEPT !.pc = "sweeping"].pc = "sweeping"
      BY <2>1, <1>a DEF Run
    <3>2. [NoSweep EXCEPT !.pc = "list"] \in Sweep
      BY DEF NoSweep, Sweep
    <3>3. /\ sweep' \in [Runs \X Owner -> Sweep]
          /\ \A s \in Runs \ {r}, o \in Owner : sweep'[<<s, o>>] = sweep[<<s, o>>]
      BY <2>1, <3>2, <1>a
    <3> QED BY <2>0, <3>1, <3>3, <1>a, RunOnlyType DEF chirpstack
  <2>2. CASE /\ run' = [run EXCEPT ![r].pc = "done", ![r].failed = TRUE, ![r].err = TRUE]
             /\ UNCHANGED sweep
    <3> DEFINE y == [x EXCEPT !.pc = "done", !.failed = TRUE, !.err = TRUE]
    <3>1. run' = [run EXCEPT ![r] = y] /\ y \in Run
      BY <2>2, <1>a DEF Run
    <3> HIDE DEF y
    <3> QED BY <2>0, <2>2, <3>1, <1>a, <1>b, RunOnlyType DEF chirpstack
  <2> QED BY <1>4, <2>1, <2>2 DEF ListOwners
<1>5. CASE WaitSwept(r)
  <2>1. /\ run' = [run EXCEPT ![r] = [x EXCEPT !.pc = "done"]]
        /\ [x EXCEPT !.pc = "done"] \in Run
    BY <1>5, <1>a DEF WaitSwept, Run
  <2>2. /\ \A o \in Owner : sweep[<<r, o>>].pc = "idle"
        /\ x.pc = "sweeping" /\ UNCHANGED <<dev, chirpstack, topic, proc, others>>
    BY <1>5 DEF WaitSwept
  <2> QED BY <2>1, <2>2, <1>a, RunOnlyType DEF chirpstack, others
<1>6. ASSUME NEW o \in Owner, ListPage(<<r, o>>) PROVE TypeInv'
  <2> DEFINE s == sweep[<<r, o>>]
             page == Page(o, s.offset)
             n == [pc |-> "match", offset |-> s.offset + PageSize, page |-> page]
  <2>1. s \in Sweep /\ s.pc # "idle" /\ page \in SUBSET Eui
    BY <1>6, <1>a, PageType DEF ListPage, Sweep
  <2>2. sweep' = [sweep EXCEPT ![<<r, o>>] = IF page = {} THEN NoSweep ELSE n]
    BY <1>6, <1>a DEF ListPage
  <2> HIDE DEF page
  <2>3. n \in Sweep
    BY <2>1, BoundAssumption DEF Sweep
  <2>4. (IF page = {} THEN NoSweep ELSE n) \in Sweep
    BY <2>3, NoRunType
  <2>5. UNCHANGED <<dev, chirpstack, topic, proc, run, edits, crashes>>
    BY <1>6 DEF ListPage
  <2>6. run' = [run EXCEPT ![r] = x]
    BY <2>5, <1>a
  <2> HIDE DEF n
  <2> QED BY <2>1, <2>2, <2>4, <2>5, <2>6, <1>a, SweepType DEF chirpstack
\* What follows a page.
<1>d. \A o \in Owner, full \in BOOLEAN : NextPage(<<r, o>>, full) \in Sweep
  BY <1>a, NoRunType DEF NextPage, Sweep
<1>7. ASSUME NEW o \in Owner, Match(<<r, o>>) PROVE TypeInv'
  <2> DEFINE s == sweep[<<r, o>>]
  <2>1. s \in Sweep /\ s.pc # "idle"
    BY <1>7, <1>a DEF Match
  <2>2. PICK n \in Sweep : sweep' = [sweep EXCEPT ![<<r, o>>] = n]
    <3> DEFINE platform == Platform(o, s.page)
               missing == s.page \ {dev[d].eui : d \in platform}
               full == Cardinality(s.page) = PageSize
               skip == Cardinality(platform) = Cardinality(s.page) \/ missing = {}
               m == [s EXCEPT !.pc = "delete", !.page = missing,
                              !.offset = IF full THEN @ ELSE 0]
    <3>1. sweep' = [sweep EXCEPT ![<<r, o>>] =
              IF skip THEN NextPage(<<r, o>>, full) ELSE m]
      <4>1. <<r, o>>[2] = o /\ <<r, o>> \in Runs \X Owner
        OBVIOUS
      <4> QED BY <1>7, <1>a, <4>1, Zenon DEF Match
    <3>2. missing \subseteq s.page
      OBVIOUS
    <3> HIDE DEF platform, missing, skip
    <3>3. m \in Sweep
      BY <2>1, <3>2 DEF Sweep
    <3> DEFINE n == IF skip THEN NextPage(<<r, o>>, full) ELSE m
    <3>4. n \in Sweep
      BY <3>3, <1>d
    <3> QED BY <3>1, <3>4
  <2>3. UNCHANGED <<dev, chirpstack, topic, proc, run, edits, crashes>>
    BY <1>7 DEF Match
  <2>4. run' = [run EXCEPT ![r] = x]
    BY <2>3, <1>a
  <2> QED BY <2>1, <2>2, <2>3, <2>4, <1>a, SweepType DEF chirpstack
<1>8. ASSUME NEW o \in Owner, SweepFails(<<r, o>>) PROVE TypeInv'
  <2>1. /\ sweep[<<r, o>>].pc # "idle"
        /\ sweep' = [sweep EXCEPT ![<<r, o>>] = NoSweep]
        /\ UNCHANGED <<dev, chirpstack, topic, proc, edits, crashes>>
    BY <1>8 DEF SweepFails
  <2>2. /\ run' = [run EXCEPT ![r] = [x EXCEPT !.failed = TRUE]]
        /\ [x EXCEPT !.failed = TRUE] \in Run /\ [x EXCEPT !.failed = TRUE].pc = x.pc
    BY <1>8, <1>a DEF SweepFails, Run
  <2> QED BY <2>1, <2>2, <1>a, NoRunType, SweepType DEF chirpstack
<1>9. ASSUME NEW o \in Owner, NEW e \in Eui, DeleteMissing(<<r, o>>, e) PROVE TypeInv'
  <2> DEFINE s == sweep[<<r, o>>]
             m == [s EXCEPT !.page = @ \ {e}]
             y == [x EXCEPT !.swept = @ \cup {e}]
  <2>1. s \in Sweep /\ s.pc # "idle" /\ m \in Sweep
    <3>1. s \in Sweep
      BY <1>a
    <3>2. s.pc # "idle"
      BY <1>9 DEF DeleteMissing
    <3>3. m \in Sweep
      BY <3>1 DEF Sweep
    <3> QED BY <3>1, <3>2, <3>3
  <2>2. sweep' = [sweep EXCEPT ![<<r, o>>] =
          IF s.page = {e} THEN NextPage(<<r, o>>, s.offset # 0) ELSE m]
    <3>1. sweep' = [sweep EXCEPT ![<<r, o>>] =
            IF sweep[<<r, o>>].page = {e}
            THEN NextPage(<<r, o>>, sweep[<<r, o>>].offset # 0)
            ELSE [sweep[<<r, o>>] EXCEPT !.page = sweep[<<r, o>>].page \ {e}]]
      BY <1>9 DEF DeleteMissing
    <3> QED BY <3>1
  <2>3. /\ chirp' \in [Eui -> ChirpDevice \cup {None}]
        /\ keys' \in [Eui -> Key \cup {None}]
        /\ sess' \in [Eui -> Activation \cup {None}]
    BY <1>9, <1>a DEF DeleteMissing, Forget
  <2>4. run' = [run EXCEPT ![r] = y] /\ y \in Run /\ y.pc = x.pc
    BY <1>9, <1>a DEF DeleteMissing, Run
  <2>5. UNCHANGED <<dev, topic, proc, edits, crashes>>
    BY <1>9 DEF DeleteMissing
  <2> HIDE DEF m, y
  <2>6. (IF s.page = {e} THEN NextPage(<<r, o>>, s.offset # 0) ELSE m) \in Sweep
    BY <2>1, <1>d
  <2> QED BY <2>1, <2>2, <2>3, <2>4, <2>5, <2>6, SweepType
<1> QED BY <1>1, <1>2, <1>3, <1>4, <1>5, <1>6, <1>7, <1>8, <1>9 DEF RunStep

LEMMA EnvType ==
  ASSUME TypeInv,
         \/ \E d \in Dev : PutDevice(d) \/ DropDevice(d)
         \/ \E e \in Eui : Join(e) \/ Uplink(e)
         \/ Restart
  PROVE  TypeInv'
<1>a. /\ run \in [Runs -> Run] /\ dev \in [Dev -> Device \cup {None}]
      /\ chirp \in [Eui -> ChirpDevice \cup {None}]
      /\ keys \in [Eui -> Key \cup {None}]
      /\ sess \in [Eui -> Activation \cup {None}]
      /\ proc \in [Goroutine -> Worker] /\ topic \in Seq(Message)
      /\ sweep \in [Runs \X Owner -> Sweep]
      /\ edits \in 0..MaxEdits /\ crashes \in 0..MaxCrashes
  BY DEF TypeInv, TypeOK
\* What users and devices do, which disturbs the runs.
<1>b. ASSUME Edit, dev' \in [Dev -> Device \cup {None}],
             sess' \in [Eui -> Activation \cup {None}],
             topic' \in Seq(Message),
             topic # <<>> => topic' # <<>> /\ Head(topic') = Head(topic),
             UNCHANGED <<chirp, keys, proc, sweep, crashes>>
      PROVE  TypeInv'
  <2>1. run' \in [Runs -> Run] /\ \A r \in Runs : run'[r].pc = run[r].pc
    BY <1>a, <1>b, DisturbType DEF Edit
  <2>2. edits' \in 0..MaxEdits
    BY <1>a, <1>b, BoundAssumption DEF Edit
  <2>3. LocalsOK' /\ ConsumerOK'
    BY <1>b DEF TypeInv, LocalsOK, LocalOK, ConsumerOK
  <2>4. PhasesOK'
    BY <1>b, <2>1, GoroutineParts DEF TypeInv, PhasesOK
  <2> QED BY <1>a, <1>b, <2>1, <2>2, <2>3, <2>4 DEF TypeInv, TypeOK
<1>1. ASSUME NEW d \in Dev, PutDevice(d) PROVE TypeInv'
  <2>1. dev' \in [Dev -> Device \cup {None}]
    BY <1>1, <1>a DEF PutDevice
  <2>2. /\ topic' \in Seq(Message)
        /\ topic # <<>> => topic' # <<>> /\ Head(topic') = Head(topic)
    BY <1>1, <1>a, PutType DEF PutDevice
  <2> QED BY <1>1, <1>a, <1>b, <2>1, <2>2 DEF PutDevice, chirpstack
<1>2. ASSUME NEW d \in Dev, DropDevice(d) PROVE TypeInv'
  <2>1. [cmd |-> "DELETE", d |-> d, eui |-> dev[d].eui] \in Message
    BY <1>2, <1>a DEF DropDevice, Device, Message
  <2>2. /\ topic' \in Seq(Message)
        /\ topic # <<>> => topic' # <<>> /\ Head(topic') = Head(topic)
    BY <1>2, <2>1, <1>a, AppendProperties DEF DropDevice
  <2>3. dev' \in [Dev -> Device \cup {None}]
    BY <1>2, <1>a DEF DropDevice
  <2> QED BY <1>2, <1>a, <1>b, <2>2, <2>3 DEF DropDevice, chirpstack
<1>3. ASSUME NEW e \in Eui, Join(e) PROVE TypeInv'
  <2>1. sess' \in [Eui -> Activation \cup {None}]
    BY <1>3, <1>a DEF Join, Activation
  <2> QED BY <1>3, <1>a, <1>b, <2>1 DEF Join
<1>4. ASSUME NEW e \in Eui, Uplink(e) PROVE TypeInv'
  <2>1. sess[e] \in Activation
    BY <1>4, <1>a DEF Uplink
  <2>2. [sess[e] EXCEPT !.moved = TRUE] \in Activation
    BY <2>1 DEF Activation
  <2>3. sess' \in [Eui -> Activation \cup {None}]
    BY <1>4, <2>2, <1>a DEF Uplink
  <2> QED BY <1>4, <1>a, <1>b, <2>3 DEF Uplink
<1>5. ASSUME Restart PROVE TypeInv'
  <2>1. PICK k \in 1..(Len(topic) + 1) :
          /\ topic' = SubSeq(topic, k, Len(topic))
          /\ run' = BootRuns(k = Len(topic) + 1)
    BY <1>5 DEF Restart
  <2>2. topic' \in Seq(Message)
    <3>1. Len(topic) \in Nat /\ \A i \in k..Len(topic) : topic[i] \in Message
      BY <1>a, ElementOfSeq, LenProperties
    <3> QED BY <2>1, <3>1, SubSeqProperties
  <2>3. run' \in [Runs -> Run]
    BY <2>1, BootRunsType
  <2>4. /\ proc' \in [Goroutine -> Worker] /\ LocalsOK' /\ ConsumerOK' /\ PhasesOK'
        /\ sweep' \in [Runs \X Owner -> Sweep]
    BY <1>5, IdleType, NoRunType, GoroutineParts
       DEF Restart, LocalsOK, ConsumerOK, PhasesOK
  <2>5. crashes' \in 0..MaxCrashes
    BY <1>5, <1>a, BoundAssumption DEF Restart
  <2> QED BY <1>5, <2>2, <2>3, <2>4, <2>5, <1>a DEF Restart, chirpstack, TypeInv, TypeOK
<1> QED BY <1>1, <1>2, <1>3, <1>4, <1>5

LEMMA NextType == TypeInv /\ [Next]_vars => TypeInv'
<1> SUFFICES ASSUME TypeInv, [Next]_vars PROVE TypeInv'
  OBVIOUS
<1>1. CASE UNCHANGED vars
  BY <1>1 DEF vars, TypeInv, TypeOK, LocalsOK, LocalOK, ConsumerOK, PhasesOK
<1> QED BY <1>1, WorkType, ConsumeType, RunStepType, EnvType DEF Next

\* The stores and the connector's variables have their types, and goroutines work
\* only in the phase of their run (SyncDevice, DeleteOutdatedDevices).
THEOREM TypeCorrect == Spec => []TypeOK
<1>1. Init => TypeInv
  BY InitType
<1>2. TypeInv /\ [Next]_vars => TypeInv'
  BY NextType
<1>3. TypeInv => TypeOK
  BY DEF TypeInv
<1> QED BY <1>1, <1>2, <1>3, PTL DEF Spec

-----------------------------------------------------------------------------
(* What an undisturbed sync does.  While nobody disturbs run r and none of   *)
(* its calls fails, devices keep their EUIs and keys, those of ChirpStack   *)
(* that the platform has stay in their applications, and what the run's     *)
(* goroutines have read stays true.                                        *)

Good(r) == run[r].quiet /\ ~run[r].failed

PutMessage == [cmd : {"PUT"}, d : Dev]
\* Devices whose local id is stored in lower case.
Lowered(d) == dev[d] # None /\ dev[d].lower

\* Nobody else is at work, apart from the consumer of what SyncDevice writes.
Undisturbed(r) ==
  /\ \A s \in Runs \ {r} : run[s].pc \in {"off", "done"}
  /\ topic \in Seq(PutMessage)
  /\ \A i \in 1..Len(topic) : Lowered(topic[i].d)

\* No other device claims the EUI of d.
Sole(d) == \A x \in Dev \ {d} : dev[x] # None => dev[x].eui # dev[d].eui
\* An ABP device without competitors has its session.
Live(d) ==
  dev[d].act # None /\ Sole(d) =>
    sess[dev[d].eui] # None /\ sess[dev[d].eui].key = dev[d].act

\* The device is as in the copy, or has been marked since.
Agrees(p) ==
  /\ dev[p.d] # None
  /\ \/ dev[p.d] = p.copy
     \/ p.copy.lower /\ dev[p.d] = [p.copy EXCEPT !.dup = TRUE]
Foreign(r, e, o) ==
  e \in run[r].swept \/ (chirp[e] # None /\ chirp[e].app # o)

\* What goroutine g with variables p has read is still true.
CopyOK(r, g, p) ==
  p.pc \in Busy =>
    LET e == p.copy.eui
        o == OwnerOf[p.d]
    IN /\ Agrees(p)
       /\ g = Consumer \/ p.pc # "lower" => p.copy.lower
       /\ p.pc \in {"activation", "keys"} => "create" \notin p.todo
       /\ p.pc \in {"activation", "keys", "setKeys", "activate"} => InApp(e, o)
       /\ p.pc = "device" => "create" \in p.todo \/ InApp(e, o)
       /\ p.pc = "duplicate" => Foreign(r, e, o)
       /\ p.pc = "keys" /\ p.active # None /\ p.active.key = p.copy.act => Live(p.d)
       /\ p.pc \in {"device", "setKeys"} =>
            \/ "activate" \in p.todo \/ p.copy.act = None
            \/ "create" \notin p.todo /\ Live(p.d)
CopiesOK(r) == \A g \in Goroutine : CopyOK(r, g, proc[g])

Served(r, d) ==
  LET e == dev[d].eui
      o == OwnerOf[d]
  IN /\ dev[d].lower
     /\ (InApp(e, o) /\ Live(d)) \/ (dev[d].dup /\ Foreign(r, e, o))

\* What a sweep of the application of o is about to delete.
PageOK(r, o) ==
  LET s == sweep[<<r, o>>] IN
  /\ s.pc \in {"match", "delete"} => \A e \in s.page : InApp(e, o)
  /\ s.pc = "delete" => \A e \in s.page : ~Matched(e)

\* What the run has achieved when it is at a statement.
PhaseOK(r) ==
  /\ \A o \in Owner : PageOK(r, o)
  /\ run[r].pc = "syncing" => \A d \in Dev :
       dev[d] # None => Served(r, d) \/ proc[<<r, d>>].pc # "idle"
  /\ run[r].pc \in {"listUsers", "sweeping", "done"} => \A d \in Dev :
       dev[d] # None => Served(r, d)

\* A page holds every EUI: one page is all that a sweep sees.
Small == IsFiniteSet(Eui) /\ Cardinality(Eui) <= PageSize
\* What a sweep has not seen yet, or is about to delete, misses in the platform.
Clean(o) == \A e \in Eui : InApp(e, o) => Matched(e)
SweepOK(r, o) ==
  LET s == sweep[<<r, o>>] IN
  /\ s.pc = "idle" => Clean(o)
  /\ s.pc = "list" => s.offset = 0 \/ Clean(o)
  /\ s.pc \in {"match", "delete"} =>
       \A e \in Eui : InApp(e, o) /\ ~Matched(e) => e \in s.page
SweepsOK(r) ==
  Small /\ OneEach /\ run[r].pc \in {"sweeping", "done"} =>
    \A o \in Account : SweepOK(r, o)

RunInv(r) == Undisturbed(r) /\ CopiesOK(r) /\ PhaseOK(r) /\ SweepsOK(r)
SyncInv == \A r \in Runs : Good(r) => RunInv(r)

\* What every step that does not disturb run r leaves as it is.
KeepDev ==
  \A d \in Dev :
    /\ dev[d] = None <=> dev'[d] = None
    /\ dev[d] # None =>
         \/ dev'[d] = dev[d]
         \/ dev[d].lower /\ dev'[d] = [dev[d] EXCEPT !.dup = TRUE]
         \/ ~dev[d].lower /\ dev'[d] = [dev[d] EXCEPT !.lower = TRUE]
KeepChirp(r) ==
  /\ \A e \in Eui : chirp[e] # None =>
       \/ chirp'[e] # None /\ chirp'[e].app = chirp[e].app
       \/ chirp'[e] = None /\ ~Matched(e) /\ e \in run'[r].swept
  /\ \A e \in Eui : chirp[e] = None /\ chirp'[e] # None =>
       \E d \in Dev : dev[d] # None /\ dev[d].eui = e /\ chirp'[e].app = OwnerOf[d]
KeepSess ==
  \A e \in Eui :
    \/ sess'[e] = sess[e]
    \/ chirp'[e] = None
    \/ \E d \in Dev : /\ dev[d] # None /\ dev[d].eui = e /\ dev[d].act # None
                      /\ sess'[e] = [key |-> dev[d].act, moved |-> FALSE]
Keep(r) ==
  KeepDev /\ KeepChirp(r) /\ KeepSess /\ run[r].swept \subseteq run'[r].swept

LEMMA KeepDevFacts ==
  ASSUME TypeInv, KeepDev
  PROVE  /\ \A d \in Dev : dev[d] # None =>
              /\ dev'[d] # None /\ dev'[d].eui = dev[d].eui /\ dev'[d].act = dev[d].act
              /\ dev[d].lower => dev'[d].lower
              /\ dev[d].dup => dev'[d].dup
              /\ Sole(d)' <=> Sole(d)
         /\ \A d \in Dev : Lowered(d) => Lowered(d)'
         /\ \A e \in Eui : chirp'[e].app = chirp[e].app =>
              (Matched(e)' <=> Matched(e))
         /\ OneEach' <=> OneEach
<1>1. ASSUME NEW d \in Dev, dev[d] # None
      PROVE  /\ dev'[d] # None /\ dev'[d].eui = dev[d].eui /\ dev'[d].act = dev[d].act
             /\ dev[d].lower => dev'[d].lower
             /\ dev[d].dup => dev'[d].dup
  <2>1. dev[d] \in Device
    BY <1>1 DEF TypeInv, TypeOK
  <2> QED BY <1>1, <2>1 DEF KeepDev, Device
<1>2. \A d \in Dev : dev[d] = None <=> dev'[d] = None
  BY DEF KeepDev
<1>3. \A d \in Dev : dev[d] # None => (Sole(d)' <=> Sole(d))
  BY <1>1, <1>2 DEF Sole
<1>4. \A d \in Dev : Lowered(d) => Lowered(d)'
  BY <1>1 DEF Lowered
<1>5. \A e \in Eui : chirp'[e].app = chirp[e].app => (Matched(e)' <=> Matched(e))
  BY <1>1, <1>2 DEF Matched
<1>6. OneEach' <=> OneEach
  BY <1>1, <1>2 DEF OneEach
<1> QED BY <1>1, <1>3, <1>4, <1>5, <1>6

\* An activation of a device is one.
LEMMA ActivationFacts ==
  ASSUME NEW k \in Session
  PROVE  /\ [key |-> k, moved |-> FALSE] \in Activation
         /\ [key |-> k, moved |-> FALSE] # None
<1>1. [key |-> k, moved |-> FALSE] \in Activation
  BY DEF Activation
<1> QED BY <1>1, NoneAssumption

LEMMA KeepFacts ==
  ASSUME TypeInv, NEW r \in Runs, Keep(r)
  PROVE  /\ \A d \in Dev : dev[d] # None =>
              /\ InApp(dev[d].eui, OwnerOf[d]) => InApp(dev[d].eui, OwnerOf[d])'
              /\ InApp(dev[d].eui, OwnerOf[d]) /\ Live(d) => Live(d)'
              /\ Served(r, d) => Served(r, d)'
         /\ \A e \in Eui, o \in Owner : Foreign(r, e, o) => Foreign(r, e, o)'
         /\ \A e \in Eui : chirp[e] # None /\ Matched(e) => chirp'[e] # None /\ Matched(e)'
         /\ \A e \in Eui : chirp[e] # None /\ chirp'[e] # None => (Matched(e)' <=> Matched(e))
         /\ \A e \in Eui : chirp[e] = None /\ chirp'[e] # None => Matched(e)'
<1> USE DEF Keep
<1>1. ASSUME NEW e \in Eui, NEW o \in Owner, Foreign(r, e, o)
      PROVE  Foreign(r, e, o)'
  BY <1>1 DEF Foreign, KeepChirp
<1>2. ASSUME NEW e \in Eui, chirp[e] # None, chirp'[e] # None
      PROVE  Matched(e)' <=> Matched(e)
  BY <1>2, KeepDevFacts DEF KeepChirp
<1>3. ASSUME NEW e \in Eui, chirp[e] # None, Matched(e)
      PROVE  chirp'[e] # None /\ Matched(e)' /\ chirp'[e].app = chirp[e].app
  BY <1>2, <1>3 DEF KeepChirp
<1>4. ASSUME NEW e \in Eui, chirp[e] = None, chirp'[e] # None
      PROVE  Matched(e)'
  <2>1. PICK d \in Dev : dev[d] # None /\ dev[d].eui = e /\ chirp'[e].app = OwnerOf[d]
    BY <1>4 DEF KeepChirp
  <2>2. dev'[d] # None /\ dev'[d].eui = e
    BY <2>1, KeepDevFacts
  <2> QED BY <2>1, <2>2 DEF Matched
<1>5. ASSUME NEW d \in Dev, dev[d] # None
      PROVE  /\ InApp(dev[d].eui, OwnerOf[d]) => InApp(dev[d].eui, OwnerOf[d])'
             /\ InApp(dev[d].eui, OwnerOf[d]) /\ Live(d) => Live(d)'
             /\ Served(r, d) => Served(r, d)'
  <2> DEFINE e == dev[d].eui
             o == OwnerOf[d]
  <2>1. /\ dev[d] \in Device /\ e \in Eui /\ o \in Owner
        /\ dev'[d] # None /\ dev'[d].eui = e /\ dev'[d].act = dev[d].act
        /\ dev[d].lower => dev'[d].lower
        /\ dev[d].dup => dev'[d].dup
        /\ Sole(d)' <=> Sole(d)
    BY <1>5, KeepDevFacts DEF TypeInv, TypeOK, Device
  <2>2. InApp(e, o) => InApp(e, o)'
    <3>1. InApp(e, o) => chirp[e] # None /\ Matched(e)
      BY <1>5 DEF InApp, Matched
    <3> QED BY <3>1, <1>3, <2>1 DEF InApp
  <2>3. ASSUME InApp(e, o), Live(d), dev[d].act # None, Sole(d)
        PROVE  sess'[e] # None /\ sess'[e].key = dev[d].act
    <3>1. sess[e] # None /\ sess[e].key = dev[d].act
      BY <2>3 DEF Live
    <3>2. chirp'[e] # None
      BY <2>1, <2>2, <2>3 DEF InApp
    <3>3. CASE sess'[e] = sess[e]
      BY <3>1, <3>3
    <3>4. CASE sess'[e] # sess[e]
      <4>1. PICK x \in Dev : /\ dev[x] # None /\ dev[x].eui = e
                             /\ sess'[e] = [key |-> dev[x].act, moved |-> FALSE]
        BY <2>1, <3>2, <3>4 DEF KeepSess
      <4>2. x = d
        BY <2>3, <4>1 DEF Sole
      <4>3. dev[d].act \in Session
        BY <2>1, <2>3 DEF Device
      <4> QED BY <4>1, <4>2, <4>3, ActivationFacts
    <3> QED BY <3>3, <3>4
  <2>4. InApp(e, o) /\ Live(d) => Live(d)'
    BY <2>1, <2>3 DEF Live
  <2>5. Served(r, d) => Served(r, d)'
    BY <1>1, <2>1, <2>2, <2>4 DEF Served
  <2> QED BY <2>2, <2>4, <2>5
<1> QED BY <1>1, <1>2, <1>3, <1>4, <1>5

\* ... and with it what any goroutine holds stays true.
LEMMA CopyKept ==
  ASSUME TypeInv, NEW r \in Runs, Keep(r),
         NEW g \in Goroutine, NEW p \in Worker, LocalOK(g, p), CopyOK(r, g, p),
         p.copy.lower \/ dev'[p.d] = dev[p.d]
  PROVE  CopyOK(r, g, p)'
<1> SUFFICES ASSUME p.pc \in Busy PROVE CopyOK(r, g, p)'
  BY DEF CopyOK
<1> DEFINE d == p.d
           e == p.copy.eui
           o == OwnerOf[d]
<1>1. /\ d \in Dev /\ p.copy \in Device /\ dev[d] # None /\ dev[d] \in Device
      /\ Agrees(p)
  BY DEF LocalOK, CopyOK, Agrees, TypeInv, TypeOK
<1>2. e \in Eui /\ o \in Owner /\ dev[d].eui = e /\ dev[d].act = p.copy.act
  BY <1>1 DEF Agrees, Device
<1>3. p.copy.lower => dev[d].lower
  BY <1>1 DEF Agrees, Device
<1>4. Agrees(p)'
  <2>1. dev'[d] # None
    BY <1>1, KeepDevFacts DEF Keep
  <2>2. CASE dev'[d] = dev[d]
    BY <1>1, <2>1, <2>2 DEF Agrees
  <2>3. CASE dev[d].lower /\ dev'[d] = [dev[d] EXCEPT !.dup = TRUE]
    <3>1. CASE dev[d] = p.copy
      BY <2>1, <2>3, <3>1 DEF Agrees
    <3>2. CASE p.copy.lower /\ dev[d] = [p.copy EXCEPT !.dup = TRUE]
      <4>1. [dev[d] EXCEPT !.dup = TRUE] = [p.copy EXCEPT !.dup = TRUE]
        BY <1>1, <3>2 DEF Device
      <4> QED BY <2>1, <2>3, <3>2, <4>1 DEF Agrees
    <3> QED BY <1>1, <3>1, <3>2 DEF Agrees
  <2> QED BY <1>1, <1>3, <2>2, <2>3 DEF Keep, KeepDev
<1>5. /\ InApp(e, o) => InApp(e, o)'
      /\ InApp(e, o) /\ Live(d) => Live(d)'
      /\ Foreign(r, e, o) => Foreign(r, e, o)'
  <2>1. dev'[d].eui = e
    BY <1>1, <1>2, KeepDevFacts DEF Keep
  <2> QED BY <1>1, <1>2, <2>1, KeepFacts
<1>6. /\ g = Consumer \/ p.pc # "lower" => p.copy.lower
      /\ p.pc \in {"activation", "keys"} => "create" \notin p.todo
      /\ p.pc \in {"activation", "keys", "setKeys", "activate"} => InApp(e, o)
      /\ p.pc = "device" => "create" \in p.todo \/ InApp(e, o)
      /\ p.pc = "duplicate" => Foreign(r, e, o)
      /\ p.pc = "keys" /\ p.active # None /\ p.active.key = p.copy.act => Live(d)
      /\ p.pc \in {"device", "setKeys"} =>
           \/ "activate" \in p.todo \/ p.copy.act = None
           \/ "create" \notin p.todo /\ Live(d)
  BY DEF CopyOK
<1> HIDE DEF d, e, o
<1>7. /\ p.pc \in {"activation", "keys", "setKeys", "activate"} => InApp(e, o)'
      /\ p.pc = "device" => "create" \in p.todo \/ InApp(e, o)'
      /\ p.pc = "duplicate" => Foreign(r, e, o)'
      /\ p.pc = "keys" /\ p.active # None /\ p.active.key = p.copy.act => Live(d)'
      /\ p.pc \in {"device", "setKeys"} =>
           \/ "activate" \in p.todo \/ p.copy.act = None
           \/ "create" \notin p.todo /\ Live(d)'
  BY <1>5, <1>6
<1> QED BY <1>4, <1>6, <1>7 DEF CopyOK, d, e, o

\* A goroutine of a good run has not failed.
LEMMA ReturnFacts ==
  ASSUME TypeInv, NEW g \in Goroutine, NEW ok \in BOOLEAN, Return(g, ok),
         NEW r \in Runs, Good(r)'
  PROVE  /\ run'[r] = run[r] /\ \A s \in Runs : run'[s].pc = run[s].pc
         /\ proc'[g] = Idle /\ \A f \in Goroutine \ {g} : proc'[f] = proc[f]
         /\ g # Consumer /\ g[1] = r => ok
<1>1. proc'[g] = Idle /\ \A f \in Goroutine \ {g} : proc'[f] = proc[f]
  BY DEF Return, TypeInv, TypeOK
<1>2. CASE g = Consumer \/ ok
  BY <1>1, <1>2 DEF Return
<1>3. CASE ~(g = Consumer \/ ok)
  <2>1. PICK s \in Runs : s = g[1] /\ run' = [run EXCEPT ![s].failed = TRUE]
    BY <1>3, GoroutineParts DEF Return
  <2>2. run \in [Runs -> Run]
    BY DEF TypeInv, TypeOK
  <2>3. run'[s].failed /\ \A t \in Runs \ {s} : run'[t] = run[t]
    BY <2>1, <2>2 DEF Run
  <2>4. r # s
    BY <2>3 DEF Good
  <2>5. \A t \in Runs : run'[t].pc = run[t].pc
    BY <2>1, <2>2 DEF Run
  <2> QED BY <1>1, <2>1, <2>3, <2>4, <2>5
<1> QED BY <1>2, <1>3

\* The messages of a run that nobody disturbs, as q holds them.
AllPuts(q) == q \in Seq(PutMessage) /\ \A i \in 1..Len(q) : Lowered(q[i].d)

LEMMA PutsKept ==
  ASSUME TypeInv, KeepDev, NEW q, AllPuts(q)
  PROVE  /\ AllPuts(q)'
         /\ q # <<>> => AllPuts(Tail(q))' /\ Head(q) \in PutMessage /\ Lowered(Head(q).d)
         /\ \A d \in Dev : Lowered(d)' => AllPuts(Append(q, [cmd |-> "PUT", d |-> d]))'
<1>1. q \in Seq(PutMessage) /\ \A i \in 1..Len(q) : q[i].d \in Dev /\ Lowered(q[i].d)
  <2>1. q \in Seq(PutMessage) /\ \A i \in 1..Len(q) : Lowered(q[i].d)
    BY DEF AllPuts
  <2>2. \A i \in 1..Len(q) : q[i] \in PutMessage
    BY <2>1, ElementOfSeq
  <2>3. \A m \in PutMessage : m.d \in Dev
    BY DEF PutMessage
  <2> QED BY <2>1, <2>2, <2>3
<1>2. \A i \in 1..Len(q) : Lowered(q[i].d)'
  BY <1>1, KeepDevFacts
<1>3. ASSUME q # <<>>
      PROVE  AllPuts(Tail(q))' /\ Head(q) \in PutMessage /\ Lowered(Head(q).d)
  <2>1. /\ Tail(q) \in Seq(PutMessage) /\ Head(q) \in PutMessage
        /\ Len(Tail(q)) = Len(q) - 1 /\ Len(q) \in Nat \ {0} /\ Head(q) = q[1]
        /\ \A i \in 1..Len(Tail(q)) : Tail(q)[i] = q[i + 1]
    BY <1>1, <1>3, HeadTailProperties, LenProperties, EmptySeq
  <2>2. \A i \in 1..Len(Tail(q)) : i + 1 \in 1..Len(q) /\ Tail(q)[i] = q[i + 1]
    BY <2>1
  <2>3. \A i \in 1..Len(Tail(q)) : Lowered(Tail(q)[i].d)'
    BY <2>2, <1>2
  <2>4. 1 \in 1..Len(q)
    BY <2>1
  <2> QED BY <1>1, <2>1, <2>3, <2>4 DEF AllPuts
<1>4. ASSUME NEW d \in Dev, Lowered(d)'
      PROVE  AllPuts(Append(q, [cmd |-> "PUT", d |-> d]))'
  <2> DEFINE m == [cmd |-> "PUT", d |-> d]
             a == Append(q, m)
  <2>1. m \in PutMessage
    BY DEF PutMessage
  <2> HIDE DEF m
  <2>2. /\ a \in Seq(PutMessage) /\ Len(a) = Len(q) + 1 /\ Len(q) \in Nat
        /\ \A i \in 1..Len(q) : a[i] = q[i]
        /\ a[Len(q) + 1] = m
    BY <1>1, <2>1, AppendProperties, LenProperties
  <2> HIDE DEF a
  <2>3. ASSUME NEW i \in 1..Len(a) PROVE Lowered(a[i].d)'
    <3>1. CASE i \in 1..Len(q)
      <4>1. Lowered(q[i].d)'
        BY <1>2, <3>1
      <4>2. a[i] = q[i]
        BY <2>2, <3>1
      <4> QED BY <4>1, <4>2 DEF Lowered
    <3>2. CASE i = Len(q) + 1
      <4>1. a[i].d = d
        BY <2>2, <3>2 DEF m
      <4> QED BY <1>4, <4>1 DEF Lowered
    <3> QED BY <2>2, <3>1, <3>2
  <2>4. AllPuts(a)'
    BY <2>2, <2>3 DEF AllPuts
  <2> QED BY <2>4 DEF a, m, AllPuts
<1> QED BY <1>1, <1>2, <1>3, <1>4 DEF AllPuts

\* What is on the topic after a step of g that takes nothing but its own message
\* and puts nothing but one about a lowered device.
LEMMA TopicKept ==
  ASSUME TypeInv, KeepDev, NEW r \in Runs, Undisturbed(r),
         NEW g \in Goroutine, proc[g].pc # "idle",
         \/ topic' = topic \/ topic' = Handled(g, topic)
         \/ \E d \in Dev : /\ Lowered(d)'
                           /\ topic' = Put(d) \/ topic' = Handled(g, Put(d))
  PROVE  AllPuts(topic)'
<1>1. PICK q : q = topic
  OBVIOUS
<1>2. AllPuts(q) /\ (g = Consumer => q # <<>>)
  BY <1>1 DEF Undisturbed, AllPuts, TypeInv, ConsumerOK
<1>3. AllPuts(q)' /\ (q # <<>> => AllPuts(Tail(q))')
  BY <1>2, PutsKept
<1>4. ASSUME NEW d \in Dev, Lowered(d)', topic' = Put(d) \/ topic' = Handled(g, Put(d))
      PROVE  AllPuts(topic)'
  <2> DEFINE m == [cmd |-> "PUT", d |-> d]
             a == Append(q, m)
  <2>1. AllPuts(a)'
    BY <1>2, <1>4, PutsKept
  <2>2. topic' = a \/ (g = Consumer /\ topic' = Tail(a))
    BY <1>1, <1>4 DEF Put, Handled
  <2>3. CASE topic' = a
    BY <2>1, <2>3 DEF AllPuts
  <2>4. CASE g = Consumer /\ topic' = Tail(a)
    <3>1. a \in Seq(PutMessage) /\ a # <<>> /\ \A i \in 1..Len(a) : Lowered(a[i].d)'
      <4>1. q \in Seq(PutMessage) /\ m \in PutMessage
        BY <1>2 DEF AllPuts, PutMessage
      <4> QED BY <2>1, <4>1, AppendProperties DEF AllPuts
    <3> HIDE DEF a
    <3>2. /\ Tail(a) \in Seq(PutMessage) /\ Len(Tail(a)) = Len(a) - 1
          /\ Len(a) \in Nat \ {0}
          /\ \A i \in 1..Len(Tail(a)) : Tail(a)[i] = a[i + 1]
      BY <3>1, HeadTailProperties, LenProperties, EmptySeq
    <3>3. \A i \in 1..Len(Tail(a)) : i + 1 \in 1..Len(a) /\ Tail(a)[i] = a[i + 1]
      BY <3>2
    <3>4. \A i \in 1..Len(Tail(a)) : Lowered(Tail(a)[i].d)'
      BY <3>1, <3>3
    <3> QED BY <2>4, <3>2, <3>4 DEF AllPuts
  <2> QED BY <2>2, <2>3, <2>4
<1> QED BY <1>1, <1>2, <1>3, <1>4 DEF Handled, AllPuts

\* What a goroutine does in a run that nobody disturbs.
WorkFacts(r, g) ==
  /\ Keep(r) /\ run'[r] = run[r] /\ \A s \in Runs : run'[s].pc = run[s].pc
  /\ \A f \in Goroutine \ {g} : proc'[f] = proc[f]
  /\ CopyOK(r, g, proc[g])'
  /\ proc'[g].pc = "idle" /\ g # Consumer /\ g[1] = r => Served(r, g[2])'
  /\ AllPuts(topic)'
  /\ \A e \in Eui : chirp[e] # None => chirp'[e] # None
  /\ \A d \in Dev : dev[d] # None /\ ~dev[d].lower /\ dev'[d] # dev[d] => g = <<r, d>>

LEMMA IdleCopy == ASSUME NEW r \in Runs, NEW g PROVE CopyOK(r, g, Idle)'
BY IdleType DEF CopyOK, Busy

LEMMA SameKeeps ==
  ASSUME NEW r \in Runs, UNCHANGED <<dev, chirp, sess>>, run'[r].swept = run[r].swept
  PROVE  Keep(r)
BY DEF Keep, KeepDev, KeepChirp, KeepSess

\* A handler that leaves the platform's devices alone and returns.
LEMMA StopStep ==
  ASSUME TypeInv, NEW r \in Runs, RunInv(r), Good(r)',
         NEW g \in Goroutine, NEW p \in Worker, p = proc[g], p.pc # "idle",
         NEW ok \in BOOLEAN, Stop(g, ok), UNCHANGED dev,
         run'[r] = run[r] => Keep(r),
         \A e \in Eui : chirp[e] # None => chirp'[e] # None,
         ok => p.pc \in Busy /\ (Keep(r) /\ run'[r] = run[r] => Served(r, p.d)')
  PROVE  WorkFacts(r, g)
<1>1. /\ run'[r] = run[r] /\ \A s \in Runs : run'[s].pc = run[s].pc
      /\ proc'[g] = Idle /\ \A f \in Goroutine \ {g} : proc'[f] = proc[f]
      /\ g # Consumer /\ g[1] = r => ok
  BY ReturnFacts DEF Stop
<1>2. Keep(r)
  BY <1>1
<1>3. AllPuts(topic)'
  BY <1>2, TopicKept DEF Stop, RunInv, Keep
<1>4. g # Consumer /\ g[1] = r => Served(r, g[2])'
  <2>1. p.pc \in Busy /\ g # Consumer => p.d = g[2]
    BY DEF TypeInv, LocalsOK, LocalOK
  <2> QED BY <1>1, <1>2, <2>1 DEF Served, InApp, Live, Sole, Foreign
<1>5. CopyOK(r, g, proc[g])'
  BY <1>1, IdleCopy DEF CopyOK
<1> QED BY <1>1, <1>2, <1>3, <1>4, <1>5 DEF WorkFacts

\* ... or goes on with variables q.
LEMMA GoesOnStep ==
  ASSUME TypeInv, NEW r \in Runs, RunInv(r),
         NEW g \in Goroutine, NEW p \in Worker, p = proc[g], p.pc # "idle",
         NEW q \in Worker, proc' = [proc EXCEPT ![g] = q], q.pc \in Busy,
         UNCHANGED <<dev, run, topic>>, Keep(r), CopyOK(r, g, q)',
         \A e \in Eui : chirp[e] # None => chirp'[e] # None
  PROVE  WorkFacts(r, g)
<1>1. proc'[g] = q /\ \A f \in Goroutine \ {g} : proc'[f] = proc[f]
  BY DEF TypeInv, TypeOK
<1>2. AllPuts(topic)'
  BY TopicKept DEF RunInv, Keep
<1>3. CopyOK(r, g, proc[g])'
  BY <1>1 DEF CopyOK
<1>4. proc'[g].pc # "idle"
  BY <1>1 DEF Busy
<1> QED BY <1>1, <1>2, <1>3, <1>4 DEF WorkFacts

\* What UpdateDevice does with the copy, marked or with its local id in lower case.
LEMMA UpdateStep ==
  ASSUME TypeInv, NEW r \in Runs, RunInv(r), Good(r)',
         NEW g \in Goroutine, NEW p \in Worker, p = proc[g], p.pc \in Busy,
         NEW copy \in Device, NEW next \in {"get", "idle"},
         UpdateDevice(g, copy, next),
         UNCHANGED <<chirp, sess>>, copy.lower, copy.eui = p.copy.eui,
         \/ next = "get" /\ copy = [p.copy EXCEPT !.lower = TRUE] /\ ~p.copy.lower
         \/ /\ next = "idle" /\ copy = [p.copy EXCEPT !.dup = TRUE] /\ p.copy.lower
            /\ Foreign(r, p.copy.eui, OwnerOf[p.d])
  PROVE  WorkFacts(r, g)
<1> DEFINE d == p.d
           e == p.copy.eui
           o == OwnerOf[d]
<1>a. /\ LocalOK(g, p) /\ CopyOK(r, g, p) /\ Agrees(p) /\ p.pc # "idle"
      /\ proc \in [Goroutine -> Worker] /\ Undisturbed(r)
      /\ dev \in [Dev -> Device \cup {None}]
  BY DEF TypeInv, TypeOK, LocalsOK, RunInv, CopiesOK, CopyOK, Busy
<1>b. d \in Dev /\ p.copy \in Device /\ dev[d] # None /\ dev[d] \in Device
  BY <1>a DEF LocalOK, Agrees
<1>1. /\ dev' = [dev EXCEPT ![d] = copy]
      /\ \/ next = "idle" /\ (\E ok \in BOOLEAN : Return(g, ok)) /\ topic' = Handled(g, Put(d))
         \/ /\ next # "idle" /\ topic' = Put(d) /\ UNCHANGED run
            /\ proc' = [proc EXCEPT ![g].copy = copy, ![g].pc = next]
  BY <1>b DEF UpdateDevice
<1>2. dev'[d] = copy /\ \A x \in Dev \ {d} : dev'[x] = dev[x]
  BY <1>1, <1>a, <1>b
<1>3. copy # None
  BY NoneAssumption
<1>4. /\ \/ dev[d].lower /\ dev'[d] = [dev[d] EXCEPT !.dup = TRUE]
         \/ next = "get" /\ ~dev[d].lower /\ dev'[d] = [dev[d] EXCEPT !.lower = TRUE]
      /\ dev[d] = p.copy \/ next = "idle"
  <2>1. CASE dev[d] = p.copy
    BY <1>2, <2>1
  <2>2. CASE p.copy.lower /\ dev[d] = [p.copy EXCEPT !.dup = TRUE]
    <3>1. copy = [p.copy EXCEPT !.dup = TRUE] /\ next = "idle"
      BY <2>2
    <3>2. dev[d].lower /\ [dev[d] EXCEPT !.dup = TRUE] = [p.copy EXCEPT !.dup = TRUE]
      BY <2>2, <1>b DEF Device
    <3> QED BY <1>2, <3>1, <3>2
  <2> QED BY <1>a, <2>1, <2>2 DEF Agrees
<1>5. KeepDev
  BY <1>2, <1>3, <1>4, <1>b DEF KeepDev
<1>6. run'[r].swept = run[r].swept => Keep(r)
  BY <1>5 DEF Keep, KeepChirp, KeepSess
<1>7. Lowered(d)'
  BY <1>2, <1>3 DEF Lowered
<1>8. AllPuts(topic)'
  BY <1>a, <1>b, <1>1, <1>5, <1>7, TopicKept
<1>9. \A x \in Dev : dev[x] # None /\ ~dev[x].lower /\ dev'[x] # dev[x] => g = <<r, x>>
  <2> SUFFICES ASSUME next = "get", ~dev[d].lower PROVE g = <<r, d>>
    BY <1>2, <1>4
  <2>1. ~p.copy.lower /\ g # Consumer
    BY <1>a, <1>4 DEF CopyOK
  <2>2. g[1] = r
    BY <1>a, <2>1, GoroutineParts DEF Undisturbed, TypeInv, PhasesOK
  <2>3. g[2] = d
    BY <1>a, <2>1 DEF LocalOK
  <2> QED BY <2>1, <2>2, <2>3, GoroutineParts
<1>10. CASE next = "idle"
  <2>1. PICK ok \in BOOLEAN : Return(g, ok)
    BY <1>1, <1>10
  <2>2. /\ run'[r] = run[r] /\ \A s \in Runs : run'[s].pc = run[s].pc
        /\ proc'[g] = Idle /\ \A f \in Goroutine \ {g} : proc'[f] = proc[f]
    BY <2>1, ReturnFacts
  <2>3. Served(r, d)'
    <3>1. dev'[d].dup /\ dev'[d].lower /\ dev'[d].eui = e
      BY <1>2, <1>10, <1>b DEF Device
    <3>2. Foreign(r, e, o)'
      BY <1>10, <2>2 DEF Foreign
    <3> QED BY <3>1, <3>2 DEF Served
  <2>4. g # Consumer => d = g[2]
    BY <1>a DEF LocalOK
  <2>5. CopyOK(r, g, proc[g])'
    BY <2>2, IdleCopy DEF CopyOK
  <2>6. g # Consumer => Served(r, g[2])'
    BY <2>3, <2>4
  <2> QED BY <1>6, <1>8, <1>9, <2>2, <2>5, <2>6 DEF WorkFacts
<1>11. CASE next = "get"
  <2> DEFINE q == [p EXCEPT !.copy = copy, !.pc = "get"]
  <2>1. UNCHANGED run /\ proc'[g] = q /\ \A f \in Goroutine \ {g} : proc'[f] = proc[f]
    BY <1>1, <1>11, <1>a
  <2>2. q.pc = "get" /\ q.copy = copy /\ q.d = d
    BY DEF Worker
  <2> HIDE DEF q
  <2>3. Agrees(q)'
    BY <1>2, <1>3, <2>2 DEF Agrees
  <2>4. CopyOK(r, g, q)'
    BY <2>2, <2>3 DEF CopyOK
  <2>5. CopyOK(r, g, proc[g])'
    BY <2>1, <2>4 DEF CopyOK
  <2> QED BY <1>6, <1>8, <1>9, <2>1, <2>2, <2>5 DEF WorkFacts
<1> QED BY <1>10, <1>11

LEMMA WorkStep ==
  ASSUME TypeInv, NEW r \in Runs, RunInv(r), Good(r)',
         NEW g \in Goroutine, Work(g)
  PROVE  WorkFacts(r, g)
<1>p. PICK p \in Worker : p = proc[g]
  BY DEF TypeInv, TypeOK
<1> USE <1>p
<1> DEFINE d == p.d
           e == p.copy.eui
           o == OwnerOf[d]
<1>a. /\ LocalOK(g, p) /\ CopyOK(r, g, p) /\ proc \in [Goroutine -> Worker]
      /\ chirp \in [Eui -> ChirpDevice \cup {None}]
      /\ sess \in [Eui -> Activation \cup {None}]
  BY DEF TypeInv, TypeOK, LocalsOK, RunInv, CopiesOK
<1>b. p.pc \in Busy =>
        /\ d \in Dev /\ p.copy \in Device /\ dev[d] # None /\ dev[d] \in Device
        /\ e \in Eui /\ o \in Owner /\ dev[d].eui = e /\ dev[d].act = p.copy.act
        /\ p.copy.lower => dev[d].lower
        /\ p.copy.dup => dev[d].dup
        /\ Agrees(p) /\ p.pc # "idle"
  <2> SUFFICES ASSUME p.pc \in Busy
               PROVE  /\ d \in Dev /\ p.copy \in Device /\ dev[d] # None
                      /\ dev[d] \in Device
                      /\ e \in Eui /\ o \in Owner /\ dev[d].eui = e
                      /\ dev[d].act = p.copy.act
                      /\ p.copy.lower => dev[d].lower
                      /\ p.copy.dup => dev[d].dup
                      /\ Agrees(p) /\ p.pc # "idle"
    OBVIOUS
  <2>1. d \in Dev /\ p.copy \in Device /\ Agrees(p) /\ p.pc # "idle"
    BY <1>a DEF LocalOK, CopyOK, Busy
  <2>2. dev[d] # None /\ dev[d] \in Device
    BY <2>1 DEF Agrees, TypeInv, TypeOK
  <2> QED BY <2>1, <2>2 DEF Agrees, Device
\* A handler that goes on, and writes nothing.
<1>f. ASSUME NEW q \in Worker, proc' = [proc EXCEPT ![g] = q], p.pc \in Busy,
             q.pc \in Busy, q.d = d, q.copy = p.copy, CopyOK(r, g, q),
             UNCHANGED <<dev, chirp, sess, run, topic>>
      PROVE  WorkFacts(r, g)
  <2>1. Keep(r)
    BY <1>f, SameKeeps
  <2>2. LocalOK(g, q)
    <3>1. TypeInv'
      BY WorkType
    <3>2. proc'[g] = q
      BY <1>f, <1>a
    <3> QED BY <3>1, <3>2 DEF TypeInv, LocalsOK, LocalOK
  <2>3. CopyOK(r, g, q)'
    BY <1>f, <2>1, <2>2, CopyKept
  <2> QED BY <1>b, <1>f, <2>1, <2>3, GoesOnStep
\* A handler that has failed.
<1>g. ASSUME Stop(g, FALSE), p.pc # "idle", UNCHANGED <<dev, chirp, sess>>
      PROVE  WorkFacts(r, g)
  BY <1>g, SameKeeps, StopStep
<1>1. CASE LowerLocalId(g)
  <2>1. p.pc = "lower" /\ p.pc \in Busy
    BY <1>1 DEF LowerLocalId, At, Busy
  <2>2. CASE p.copy.lower
    <3> DEFINE q == [p EXCEPT !.pc = "get"]
    <3>1. /\ q \in Worker /\ q.pc = "get" /\ q.pc \in Busy /\ q.d = d
          /\ q.copy = p.copy
      BY DEF Worker, Busy
    <3>2. proc' = [proc EXCEPT ![g] = q] /\ UNCHANGED <<dev, chirp, sess, run, topic>>
      BY <1>1, <1>a, <2>2 DEF LowerLocalId, chirpstack
    <3> HIDE DEF q
    <3>3. CopyOK(r, g, q)
      BY <1>b, <2>1, <2>2, <3>1 DEF CopyOK, Agrees
    <3> QED BY <1>f, <2>1, <3>1, <3>2, <3>3
  <2>3. CASE ~p.copy.lower
    <3> DEFINE c == [p.copy EXCEPT !.lower = TRUE]
    <3>1. c \in Device /\ c.lower /\ c.eui = e
      BY <1>b, <2>1 DEF Device
    <3>2. UpdateDevice(g, c, "get") /\ UNCHANGED <<chirp, sess>>
      BY <1>1, <2>3 DEF LowerLocalId, chirpstack
    <3> QED BY <2>1, <2>3, <3>1, <3>2, UpdateStep
  <2> QED BY <2>2, <2>3
<1>2. CASE GetDevice(g)
  <2>0. CASE o \notin Account
    BY <1>2, <1>g, <2>0 DEF GetDevice, At, chirpstack
  <2> SUFFICES ASSUME o \in Account PROVE WorkFacts(r, g)
    BY <2>0
  <2>1. p.pc = "get" /\ p.pc \in Busy /\ p.copy.lower
    BY <1>2, <1>a DEF GetDevice, At, Busy, CopyOK
  <2>2. PICK q : /\ proc' = [proc EXCEPT ![g] = q] /\ q \in Worker
                 /\ q.d = d /\ q.copy = p.copy
                 /\ \/ /\ chirp[e] = None /\ q.pc = "device" /\ "create" \in q.todo
                       /\ p.copy.act # None => "activate" \in q.todo
                    \/ chirp[e] # None /\ chirp[e].app # o /\ q.pc = "duplicate"
                    \/ /\ chirp[e] # None /\ chirp[e].app = o /\ q.pc = "activation"
                       /\ "create" \notin q.todo
    <3> DEFINE new == {"create"} \cup (IF p.copy.key # None THEN {"createKeys"} ELSE {})
                                 \cup (IF p.copy.act # None THEN {"activate"} ELSE {})
               q1 == [p EXCEPT !.pc = "device", !.todo = new]
               q2 == [p EXCEPT !.pc = "duplicate"]
               t == IF chirp[e].name # p.copy.name THEN {"update"} ELSE {}
               q3 == [p EXCEPT !.pc = "activation", !.todo = t]
    <3>1. proc' = [proc EXCEPT ![g] =
            IF chirp[e] = None THEN q1
            ELSE IF chirp[e].app # o THEN q2 ELSE q3]
      BY <1>2 DEF GetDevice, E
    <3>2. new \in SUBSET Op /\ "create" \in new /\ (p.copy.act # None => "activate" \in new)
      BY DEF Op
    <3>3. t \in SUBSET Op /\ "create" \notin t
      BY DEF Op
    <3> HIDE DEF new, t
    <3>4. /\ q1 \in Worker /\ q1.d = d /\ q1.copy = p.copy /\ q1.pc = "device" /\ q1.todo = new
          /\ q2 \in Worker /\ q2.d = d /\ q2.copy = p.copy /\ q2.pc = "duplicate"
          /\ q3 \in Worker /\ q3.d = d /\ q3.copy = p.copy /\ q3.pc = "activation" /\ q3.todo = t
      BY <3>2, <3>3 DEF Worker
    <3> HIDE DEF q1, q2, q3
    <3> DEFINE q == IF chirp[e] = None THEN q1 ELSE IF chirp[e].app # o THEN q2 ELSE q3
    <3>5. proc' = [proc EXCEPT ![g] = q]
      BY <3>1
    <3> QED BY <3>2, <3>3, <3>4, <3>5
  <2>3. CopyOK(r, g, q)
    BY <1>b, <2>1, <2>2 DEF CopyOK, Agrees, InApp, Foreign
  <2>4. UNCHANGED <<dev, chirp, sess, run, topic>> /\ q.pc \in Busy
    BY <1>2, <2>2 DEF GetDevice, chirpstack, Busy
  <2> QED BY <1>f, <2>1, <2>2, <2>3, <2>4
<1>3. CASE MarkDuplicate(g)
  <2>1. p.pc = "duplicate" /\ p.pc \in Busy /\ p.copy.lower /\ Foreign(r, e, o)
    BY <1>3, <1>a DEF MarkDuplicate, At, Busy, CopyOK
  <2>2. UNCHANGED <<chirp, sess>>
    BY <1>3 DEF MarkDuplicate, chirpstack
  <2>3. CASE p.copy.dup
    <3>1. Stop(g, TRUE) /\ UNCHANGED dev
      BY <1>3, <2>3 DEF MarkDuplicate
    <3>2. Served(r, d)
      BY <1>b, <2>1, <2>3 DEF Served
    <3>3. run'[r] = run[r] => Served(r, d)'
      BY <2>2, <3>1, <3>2 DEF Served, InApp, Live, Sole, Foreign
    <3> QED BY <1>b, <2>1, <2>2, <3>1, <3>3, SameKeeps, StopStep
  <2>4. CASE ~p.copy.dup
    <3> DEFINE c == [p.copy EXCEPT !.dup = TRUE]
    <3>1. c \in Device /\ c.lower /\ c.eui = e
      BY <1>b, <2>1 DEF Device
    <3>2. UpdateDevice(g, c, "idle")
      BY <1>3, <2>4 DEF MarkDuplicate
    <3> QED BY <2>1, <2>2, <3>1, <3>2, UpdateStep
  <2> QED BY <2>3, <2>4
<1>4. CASE GetActivation(g)
  <2>1. /\ p.pc = "activation" /\ p.pc \in Busy /\ p.copy.lower
        /\ InApp(e, o) /\ "create" \notin p.todo
    BY <1>4, <1>a DEF GetActivation, At, Busy, CopyOK
  <2>2. UNCHANGED <<dev, chirp, sess>>
    BY <1>4 DEF GetActivation, chirpstack
  <2>3. CASE Stop(g, FALSE)
    BY <1>b, <1>g, <2>1, <2>2, <2>3
  <2>4. CASE ~Stop(g, FALSE)
    <3>0. PICK active \in {sess[e]} \cup {None} :
             /\ proc' = [proc EXCEPT ![g].pc = "keys", ![g].active = active,
                  ![g].todo = IF active = None /\ p.copy.key # None
                              THEN @ \cup {"createKeys"} ELSE @]
             /\ UNCHANGED <<run, topic>>
      BY <1>4, <2>4 DEF GetActivation, E
    <3> DEFINE t == IF active = None /\ p.copy.key # None
                    THEN p.todo \cup {"createKeys"} ELSE p.todo
               q == [p EXCEPT !.pc = "keys", !.active = active, !.todo = t]
    <3>1. proc' = [proc EXCEPT ![g] = q] /\ UNCHANGED <<run, topic>>
      BY <1>a, <3>0
    <3>2. t \in SUBSET Op /\ "create" \notin t
      BY <2>1 DEF Op, Worker
    <3> HIDE DEF t
    <3>3. active \in Activation \cup {None}
      BY <1>a, <1>b, <2>1
    <3>4. /\ q \in Worker /\ q.pc = "keys" /\ q.pc \in Busy /\ q.d = d
          /\ q.copy = p.copy /\ q.active = active /\ q.todo = t
      BY <3>2, <3>3 DEF Worker, Busy
    <3> HIDE DEF q
    <3>5. active # None /\ active.key = p.copy.act => Live(d)
      BY <1>b, <2>1 DEF Live
    <3>6. CopyOK(r, g, q)
      BY <1>b, <2>1, <3>2, <3>4, <3>5 DEF CopyOK, Agrees
    <3> QED BY <1>f, <2>1, <2>2, <3>1, <3>4, <3>6
  <2> QED BY <2>3, <2>4
<1>5. CASE GetKeys(g)
  <2>1. /\ p.pc = "keys" /\ p.pc \in Busy /\ p.copy.lower
        /\ InApp(e, o) /\ "create" \notin p.todo
        /\ p.active # None /\ p.active.key = p.copy.act => Live(d)
    BY <1>5, <1>a DEF GetKeys, At, Busy, CopyOK
  <2>2. UNCHANGED <<dev, chirp, sess>>
    BY <1>5 DEF GetKeys, chirpstack
  <2> DEFINE wanted == Wanted(p)
  <2>3. PICK k \in Differ(keys[E(g)], p.copy.key), a \in Differ(p.active, wanted) :
          IF Decided(p, k, a) \subseteq {"createKeys"} THEN Stop(g, TRUE)
          ELSE /\ proc' = [proc EXCEPT ![g].todo = Decided(p, k, a),
                                       ![g].pc = "device"]
               /\ UNCHANGED <<topic, run>>
    BY <1>5, KeysDecided
  <2> DEFINE todo == Decided(p, k, a)
  <2>4. /\ todo \in SUBSET Op /\ "create" \notin todo
        /\ p.copy.act # None /\ a => "activate" \in todo
    BY <2>1 DEF Op, Worker, Decided
  <2>5. "activate" \notin todo => p.copy.act = None \/ Live(d)
    <3> SUFFICES ASSUME "activate" \notin todo, p.copy.act # None PROVE Live(d)
      OBVIOUS
    <3>1. p.active = wanted
      <4>1. a # TRUE
        BY <2>4
      <4> QED BY <2>3, <4>1 DEF Differ
    <3>2. wanted # None /\ wanted.key = p.copy.act
      <4>1. p.copy.act \in Session
        BY <1>b, <2>1 DEF Device
      <4> QED BY <4>1, ActivationFacts DEF Wanted
    <3> QED BY <2>1, <3>1, <3>2
  <2>6. p.copy.act = None => Live(d)
    BY <1>b, <2>1 DEF Live
  <2>7. CASE todo \subseteq {"createKeys"} /\ Stop(g, TRUE)
    <3>1. Served(r, d)
      BY <1>b, <2>1, <2>5, <2>6, <2>7 DEF Served
    <3>2. run'[r] = run[r] => Served(r, d)'
      BY <2>2, <3>1 DEF Served, InApp, Live, Sole, Foreign
    <3> HIDE DEF todo
    <3> QED BY <1>b, <2>1, <2>2, <2>7, <3>2, SameKeeps, StopStep
  <2>8. CASE /\ proc' = [proc EXCEPT ![g].todo = todo, ![g].pc = "device"]
             /\ UNCHANGED <<topic, run>>
    <3> HIDE DEF todo
    <3> DEFINE q == [p EXCEPT !.todo = todo, !.pc = "device"]
    <3>1. proc' = [proc EXCEPT ![g] = q]
      BY <1>a, <2>8
    <3>2. /\ q \in Worker /\ q.pc = "device" /\ q.pc \in Busy /\ q.d = d
          /\ q.copy = p.copy /\ q.todo = todo
      BY <2>4 DEF Worker, Busy
    <3> HIDE DEF q
    <3>3. CopyOK(r, g, q)
      BY <1>b, <2>1, <2>4, <2>5, <3>2 DEF CopyOK, Agrees
    <3> QED BY <1>f, <2>1, <2>2, <2>8, <3>1, <3>2, <3>3
  <2> QED BY <2>3, <2>7, <2>8
<1>6. CASE WriteDevice(g)
  <2>1. /\ p.pc = "device" /\ p.pc \in Busy /\ p.copy.lower
        /\ "create" \in p.todo \/ InApp(e, o)
        /\ \/ "activate" \in p.todo \/ p.copy.act = None
           \/ "create" \notin p.todo /\ Live(d)
    BY <1>6, <1>a DEF WriteDevice, At, Busy, CopyOK
  <2>2. UNCHANGED <<dev, sess>>
    BY <1>6 DEF WriteDevice
  <2> DEFINE new == [app |-> o, name |-> p.copy.name]
             q == [p EXCEPT !.pc = "setKeys"]
  <2>3. new # None /\ new.app = o
    <3>1. new \in ChirpDevice
      BY <1>b, <2>1 DEF Device, ChirpDevice
    <3> QED BY <3>1, NoneAssumption
  <2>4. q \in Worker /\ q.pc = "setKeys" /\ q.pc \in Busy /\ q.d = d
        /\ q.copy = p.copy /\ q.todo = p.todo
    BY DEF Worker, Busy
  <2>5. Stop(g, FALSE) \/ (proc' = [proc EXCEPT ![g] = q] /\ UNCHANGED <<topic, run>>)
    BY <1>6, <1>a DEF WriteDevice, Continue
  <2>6. \/ chirp' = chirp /\ (Stop(g, FALSE) \/ InApp(e, o))
        \/ /\ chirp' = [chirp EXCEPT ![e] = new]
           /\ ("create" \in p.todo) = (chirp[e] = None)
    BY <1>6, <2>1 DEF WriteDevice, Continue, E
  <2> HIDE DEF q
  <2>7. CASE chirp' = chirp /\ Stop(g, FALSE)
    BY <1>b, <1>g, <2>1, <2>2, <2>7
  <2>8. CASE ~(chirp' = chirp /\ Stop(g, FALSE))
    <3>1. /\ InApp(e, o)'
          /\ chirp[e] # None => InApp(e, o)
          /\ \A f \in Eui : \/ chirp'[f] = chirp[f]
                            \/ f = e /\ chirp'[e] # None /\ chirp'[e].app = o
      <4>1. CASE chirp' = chirp /\ InApp(e, o)
        BY <4>1 DEF InApp
      <4>2. CASE /\ chirp' = [chirp EXCEPT ![e] = new]
                 /\ ("create" \in p.todo) = (chirp[e] = None)
        <5>1. chirp'[e] = new /\ \A f \in Eui \ {e} : chirp'[f] = chirp[f]
          BY <1>a, <1>b, <2>1, <4>2
        <5>2. chirp[e] # None => InApp(e, o)
          BY <2>1, <4>2
        <5> QED BY <2>3, <5>1, <5>2 DEF InApp
      <4> QED BY <2>6, <2>8, <4>1, <4>2
    <3>2. \A f \in Eui : chirp[f] # None =>
            chirp'[f] # None /\ chirp'[f].app = chirp[f].app
      BY <3>1 DEF InApp
    <3>3. KeepChirp(r)
      BY <1>b, <2>1, <3>1, <3>2 DEF KeepChirp
    <3>4. run'[r] = run[r] => Keep(r)
      BY <2>2, <3>3 DEF Keep, KeepDev, KeepSess
    <3>5. CASE Stop(g, FALSE)
      BY <1>b, <2>1, <2>2, <3>2, <3>4, <3>5, StopStep
    <3>6. CASE proc' = [proc EXCEPT ![g] = q] /\ UNCHANGED <<topic, run>>
      <4>1. Agrees(q)' /\ (Live(d) => Live(d)')
        BY <1>b, <2>1, <2>2, <2>4 DEF Agrees, Live, Sole
      <4>2. CopyOK(r, g, q)'
        BY <2>1, <2>4, <3>1, <4>1 DEF CopyOK
      <4> QED BY <1>b, <2>1, <2>2, <2>4, <3>2, <3>4, <3>6, <4>2, GoesOnStep
    <3> QED BY <2>5, <3>5, <3>6
  <2> QED BY <2>7, <2>8
<1>7. CASE WriteKeys(g)
  <2>1. /\ p.pc = "setKeys" /\ p.pc \in Busy /\ p.copy.lower /\ InApp(e, o)
        /\ "activate" \in p.todo \/ p.copy.act = None \/ Live(d)
    BY <1>7, <1>a DEF WriteKeys, At, Busy, CopyOK
  <2>2. UNCHANGED <<dev, chirp, sess>>
    BY <1>7 DEF WriteKeys
  <2> DEFINE q == [p EXCEPT !.pc = "activate"]
  <2>3. \/ Stop(g, FALSE)
        \/ "activate" \notin p.todo /\ Stop(g, TRUE)
        \/ /\ "activate" \in p.todo /\ proc' = [proc EXCEPT ![g] = q]
           /\ UNCHANGED <<topic, run>>
    BY <1>7, <1>a DEF WriteKeys, Continue
  <2>4. CASE "activate" \notin p.todo /\ Stop(g, TRUE)
    <3>1. Served(r, d)
      BY <1>b, <2>1, <2>4 DEF Served, Live
    <3>2. run'[r] = run[r] => Served(r, d)'
      BY <2>2, <3>1 DEF Served, InApp, Live, Sole, Foreign
    <3> QED BY <1>b, <2>1, <2>2, <2>4, <3>2, SameKeeps, StopStep
  <2>5. CASE proc' = [proc EXCEPT ![g] = q] /\ UNCHANGED <<topic, run>>
    <3>1. /\ q \in Worker /\ q.pc = "activate" /\ q.pc \in Busy /\ q.d = d
          /\ q.copy = p.copy
      BY DEF Worker, Busy
    <3> HIDE DEF q
    <3>2. CopyOK(r, g, q)
      BY <1>b, <2>1, <3>1 DEF CopyOK, Agrees
    <3> QED BY <1>f, <2>1, <2>2, <2>5, <3>1, <3>2
  <2> QED BY <1>b, <1>g, <2>1, <2>2, <2>3, <2>4, <2>5
<1>8. CASE Activate(g)
  <2>1. /\ p.pc = "activate" /\ p.pc \in Busy /\ p.copy.lower /\ InApp(e, o)
        /\ p.copy.act \in Session
    <3>1. p.pc = "activate" /\ p.pc \in Busy /\ p.copy.lower /\ InApp(e, o)
      BY <1>8, <1>a DEF Activate, At, Busy, CopyOK
    <3> QED BY <1>a, <1>b, <3>1 DEF LocalOK, Device
  <2> DEFINE new == [key |-> p.copy.act, moved |-> FALSE]
  <2>2. /\ sess' = [sess EXCEPT ![e] = new] /\ UNCHANGED <<dev, chirp>>
        /\ Stop(g, TRUE) \/ Stop(g, FALSE)
    BY <1>8, <2>1 DEF Activate, Continue, InApp, E
  <2>3. sess'[e] = new /\ \A f \in Eui \ {e} : sess'[f] = sess[f]
    BY <1>a, <1>b, <2>1, <2>2
  <2>4. KeepSess
    <3>1. dev[d] # None /\ dev[d].eui = e /\ dev[d].act # None /\ sess'[e] = [key |-> dev[d].act, moved |-> FALSE]
      BY <1>b, <2>1, <2>3
    <3> QED BY <1>b, <2>1, <2>3, <3>1 DEF KeepSess
  <2>5. run'[r] = run[r] => Keep(r)
    BY <2>2, <2>4 DEF Keep, KeepDev, KeepChirp
  <2>6. Served(r, d)'
    <3>1. sess'[e] # None /\ sess'[e].key = dev[d].act
      BY <1>b, <2>1, <2>3, ActivationFacts
    <3>2. Live(d)' /\ InApp(e, o)'
      BY <1>b, <2>1, <2>2, <3>1 DEF Live, InApp
    <3> QED BY <1>b, <2>1, <2>2, <3>2 DEF Served
  <2> QED BY <1>b, <2>1, <2>2, <2>5, <2>6, StopStep
<1>9. CASE CallError(g)
  BY <1>9, <1>g DEF CallError, chirpstack
<1> QED BY <1>1, <1>2, <1>3, <1>4, <1>5, <1>6, <1>7, <1>8, <1>9 DEF Work

\* While the run stays where it is and nothing is deleted in ChirpStack, it keeps
\* what it has achieved ...
LEMMA PhaseKept ==
  ASSUME TypeInv, NEW r \in Runs, PhaseOK(r), Keep(r), run'[r] = run[r],
         UNCHANGED sweep,
         \A e \in Eui : chirp[e] # None => chirp'[e] # None,
         \A d \in Dev : dev[d] # None /\ proc[<<r, d>>].pc # "idle" =>
           Served(r, d)' \/ proc'[<<r, d>>].pc # "idle"
  PROVE  PhaseOK(r)'
<1>1. ASSUME NEW o \in Owner PROVE PageOK(r, o)'
  <2> DEFINE s == sweep[<<r, o>>]
  <2>1. s.page \subseteq Eui /\ PageOK(r, o)
    BY DEF TypeInv, TypeOK, Sweep, PhaseOK
  <2>2. \A e \in Eui : InApp(e, o) => InApp(e, o)' /\ (Matched(e)' <=> Matched(e))
    BY KeepFacts DEF InApp, Keep, KeepChirp
  <2> QED BY <2>1, <2>2 DEF PageOK
<1>2. \A d \in Dev : dev'[d] # None => dev[d] # None
  BY DEF Keep, KeepDev
<1>3. \A d \in Dev : dev[d] # None /\ Served(r, d) => Served(r, d)'
  BY KeepFacts
<1> QED BY <1>1, <1>2, <1>3 DEF PhaseOK

\* ... and an application gets no device that misses in the platform.
LEMMA CleanKept ==
  ASSUME TypeInv, NEW r \in Runs, Keep(r), NEW o \in Owner
  PROVE  /\ \A e \in Eui : InApp(e, o)' /\ ~Matched(e)' => InApp(e, o) /\ ~Matched(e)
         /\ Clean(o) => Clean(o)'
<1>1. ASSUME NEW e \in Eui, InApp(e, o)', ~Matched(e)'
      PROVE  InApp(e, o) /\ ~Matched(e)
  <2>1. chirp'[e] # None /\ chirp[e] # None
    BY <1>1, KeepFacts DEF InApp
  <2> QED BY <1>1, <2>1, KeepFacts DEF InApp, Keep, KeepChirp
<1> QED BY <1>1 DEF Clean

LEMMA SweepsKept ==
  ASSUME TypeInv, NEW r \in Runs, SweepsOK(r), Keep(r), UNCHANGED sweep,
         run'[r].pc \in {"sweeping", "done"} => run[r].pc \in {"sweeping", "done"}
  PROVE  SweepsOK(r)'
<1>1. OneEach' <=> OneEach
  BY KeepDevFacts DEF Keep
<1> SUFFICES ASSUME Small, OneEach, run'[r].pc \in {"sweeping", "done"},
                    NEW o \in Account
             PROVE  SweepOK(r, o)'
  BY <1>1 DEF SweepsOK
<1>2. SweepOK(r, o)
  BY DEF SweepsOK
<1> QED BY <1>2, CleanKept DEF SweepOK

\* The copies of the goroutines that do not move.
LEMMA OthersKept ==
  ASSUME TypeInv, NEW r \in Runs, Undisturbed(r), Keep(r), CopiesOK(r),
         NEW f \in Goroutine, proc'[f] = proc[f],
         \A d \in Dev : dev[d] # None /\ ~dev[d].lower /\ dev'[d] # dev[d] =>
           f # <<r, d>>
  PROVE  CopyOK(r, f, proc[f])'
<1>1. PICK p \in Worker : p = proc[f]
  BY DEF TypeInv, TypeOK
<1>2. LocalOK(f, p) /\ CopyOK(r, f, p)
  BY <1>1 DEF TypeInv, LocalsOK, CopiesOK
<1>3. CASE p.pc \notin Busy
  BY <1>1, <1>3 DEF CopyOK
<1>4. CASE p.pc \in Busy
  <2>1. p.copy.lower \/ dev'[p.d] = dev[p.d]
    <3> SUFFICES ASSUME ~p.copy.lower PROVE dev'[p.d] = dev[p.d]
      OBVIOUS
    <3>1. p.d \in Dev /\ dev[p.d] = p.copy /\ dev[p.d] # None /\ f # Consumer
      BY <1>2, <1>4 DEF CopyOK, LocalOK, Agrees
    <3>2. f[1] = r
      BY <1>1, <1>4, <3>1, GoroutineParts DEF Undisturbed, TypeInv, PhasesOK, Busy
    <3>3. f = <<r, p.d>>
      BY <1>2, <1>4, <3>1, <3>2, GoroutineParts DEF LocalOK
    <3> QED BY <3>1, <3>3
  <2>2. CopyOK(r, f, p)'
    BY <1>2, <2>1, CopyKept
  <2> QED BY <1>1, <2>2 DEF CopyOK
<1> QED BY <1>3, <1>4

LEMMA WorkKeepsRun ==
  ASSUME TypeInv, SyncInv, NEW r \in Runs, Good(r)', NEW g \in Goroutine, Work(g)
  PROVE  RunInv(r)'
<1>0. UNCHANGED sweep
  BY DEF Work, LowerLocalId, GetDevice, MarkDuplicate, GetActivation, GetKeys,
         WriteDevice, WriteKeys, Activate, CallError, others
<1>1. run'[r] = run[r]
  <2>1. run' = run \/ \E ok \in BOOLEAN : Return(g, ok)
    BY DEF Work, LowerLocalId, GetDevice, MarkDuplicate, GetActivation, GetKeys,
           WriteDevice, WriteKeys, Activate, CallError, UpdateDevice, Continue, Stop
  <2> QED BY <2>1, ReturnFacts
<1>2. RunInv(r)
  BY <1>1 DEF SyncInv, Good
<1>3. WorkFacts(r, g)
  BY <1>2, WorkStep
<1>4. Undisturbed(r)'
  BY <1>2, <1>3 DEF RunInv, Undisturbed, WorkFacts, AllPuts
<1>5. CopiesOK(r)'
  <2>1. \A f \in Goroutine \ {g} : CopyOK(r, f, proc[f])'
    BY <1>2, <1>3, OthersKept DEF RunInv, WorkFacts
  <2> QED BY <1>3, <2>1 DEF CopiesOK, WorkFacts
<1>6. PhaseOK(r)'
  <2>1. ASSUME NEW d \in Dev, proc[<<r, d>>].pc # "idle"
        PROVE  Served(r, d)' \/ proc'[<<r, d>>].pc # "idle"
    <3>1. CASE g = <<r, d>>
      BY <2>1, <3>1, <1>3, GoroutineParts DEF WorkFacts, Served, InApp, Live, Sole, Foreign
    <3>2. CASE g # <<r, d>>
      BY <2>1, <3>2, <1>3, GoroutineParts DEF WorkFacts
    <3> QED BY <3>1, <3>2
  <2> QED BY <1>0, <1>1, <1>2, <1>3, <2>1, PhaseKept DEF RunInv, WorkFacts
<1>7. SweepsOK(r)'
  BY <1>0, <1>1, <1>2, <1>3, SweepsKept DEF RunInv, WorkFacts
<1> QED BY <1>4, <1>5, <1>6, <1>7 DEF RunInv

LEMMA ConsumeKeepsRun ==
  ASSUME TypeInv, SyncInv, NEW r \in Runs, Good(r)', Consume
  PROVE  RunInv(r)'
<1>a. /\ Consumer \in Goroutine /\ proc \in [Goroutine -> Worker]
      /\ dev \in [Dev -> Device \cup {None}]
  BY GoroutineParts DEF TypeInv, TypeOK
<1>1. run'[r] = run[r]
  <2>1. run' = run \/ Return(Consumer, TRUE)
    BY DEF Consume, HandlePut, HandleDelete, DeleteDevice, Stop
  <2> QED BY <2>1, <1>a, ReturnFacts
<1>2. RunInv(r)
  BY <1>1 DEF SyncInv, Good
<1>t. PICK q : q = topic
  OBVIOUS
<1>3. /\ AllPuts(q)
      /\ q # <<>> => Head(q) \in PutMessage /\ Head(q).cmd = "PUT" /\ Head(q).d \in Dev
  <2>1. AllPuts(q)
    BY <1>2, <1>t DEF RunInv, Undisturbed, AllPuts
  <2>2. q # <<>> => Head(q) \in PutMessage
    BY <2>1, HeadTailProperties DEF AllPuts
  <2> QED BY <2>1, <2>2 DEF PutMessage
<1>4. HandlePut
  BY <1>3, <1>t DEF Consume, HandleDelete, DeleteDevice, TypeInv, ConsumerOK, At
<1>5. /\ UNCHANGED <<dev, chirp, sess, run, sweep>>
      /\ proc[Consumer].pc = "idle" /\ q # <<>>
  BY <1>4, <1>t DEF HandlePut, At, chirpstack, others
<1> DEFINE d == Head(q).d
<1>6. \/ topic' = Tail(q) /\ UNCHANGED proc
      \/ /\ dev[d] # None /\ topic' = q
         /\ proc' = [proc EXCEPT ![Consumer] = Syncing(d)]
  BY <1>4, <1>t DEF HandlePut
<1>7. Keep(r)
  BY <1>5, SameKeeps
<1>8. \A f \in Goroutine \ {Consumer} : proc'[f] = proc[f]
  BY <1>6, <1>a
<1>9. Undisturbed(r)'
  <2>1. AllPuts(q)' /\ AllPuts(Tail(q))' /\ Lowered(d)
    BY <1>3, <1>5, <1>7, PutsKept DEF Keep
  <2>2. AllPuts(topic)'
    BY <1>6, <2>1 DEF AllPuts
  <2> QED BY <1>2, <1>5, <2>2 DEF RunInv, Undisturbed, AllPuts
<1>10. CopiesOK(r)'
  <2>1. CopyOK(r, Consumer, proc[Consumer])'
    <3>1. CASE UNCHANGED proc
      BY <1>5, <3>1, <1>a, IdleCopy DEF CopyOK, Busy
    <3>2. CASE dev[d] # None /\ proc' = [proc EXCEPT ![Consumer] = Syncing(d)]
      <4>1. PICK x \in Dev : x = d
        BY <1>3, <1>5
      <4>2. Lowered(x)
        BY <1>3, <1>5, <1>7, <4>1, PutsKept DEF Keep
      <4>3. /\ proc'[Consumer].pc = "lower" /\ proc'[Consumer].d = x
            /\ proc'[Consumer].copy = dev[x]
        BY <3>2, <4>1, <1>a DEF Syncing, Idle
      <4> QED BY <1>5, <4>2, <4>3 DEF CopyOK, Agrees, Lowered
    <3> QED BY <1>6, <3>1, <3>2
  <2>2. \A f \in Goroutine \ {Consumer} : CopyOK(r, f, proc[f])'
    BY <1>2, <1>5, <1>7, <1>8, OthersKept DEF RunInv
  <2> QED BY <2>1, <2>2 DEF CopiesOK
<1>11. PhaseOK(r)' /\ SweepsOK(r)'
  BY <1>1, <1>2, <1>5, <1>7, <1>8, PhaseKept, SweepsKept, GoroutineParts DEF RunInv
<1> QED BY <1>9, <1>10, <1>11 DEF RunInv

\* A run starts only when everything is calm, and disturbs the others.
LEMMA CalmStart ==
  ASSUME TypeInv', NEW r \in Runs, topic' = <<>>,
         \A g \in Goroutine : proc'[g].pc = "idle",
         \A s \in Runs \ {r} : run'[s].pc \in {"off", "done"},
         run'[r].pc = "list"
  PROVE  RunInv(r)'
<1>1. Undisturbed(r)'
  BY EmptySeq DEF Undisturbed
<1>2. CopiesOK(r)'
  BY DEF CopiesOK, CopyOK, Busy
<1>3. \A o \in Owner : sweep'[<<r, o>>].pc = "idle"
  BY DEF TypeInv, PhasesOK
<1>4. PhaseOK(r)' /\ SweepsOK(r)'
  BY <1>3 DEF PhaseOK, PageOK, SweepsOK
<1> QED BY <1>1, <1>2, <1>4 DEF RunInv

LEMMA StartKeepsRun ==
  ASSUME TypeInv, TypeInv', NEW r \in Runs, Good(r)', NEW s \in Runs, StartRun(s)
  PROVE  RunInv(r)'
<1>a. run \in [Runs -> Run]
  BY DEF TypeInv, TypeOK
<1> DEFINE q == Calm /\ \A t \in Runs \ {s} : run[t].pc \in {"off", "done"}
           y == [NoRun EXCEPT !.pc = "list", !.quiet = q]
<1>1. /\ run'[s] = y
      /\ \A t \in Runs \ {s} : run'[t] = [run[t] EXCEPT !.quiet = FALSE]
      /\ UNCHANGED <<proc, topic>>
  BY <1>a DEF StartRun, Disturb
<1>2. ASSUME NEW t \in Runs \ {s}
      PROVE  run'[t].quiet = FALSE /\ run'[t].pc = run[t].pc
  <2>1. run'[t] = [run[t] EXCEPT !.quiet = FALSE] /\ run[t] \in Run
    BY <1>1, <1>a
  <2> QED BY <2>1 DEF Run
<1>3. r = s
  BY <1>2 DEF Good
<1>4. y.quiet = q /\ y.pc = "list"
  BY DEF NoRun
<1> HIDE DEF y
<1>5. q
  BY <1>1, <1>3, <1>4 DEF Good
<1>6. topic' = <<>> /\ \A g \in Goroutine : proc'[g].pc = "idle"
  BY <1>1, <1>5 DEF Calm, At
<1> QED BY <1>1, <1>2, <1>3, <1>4, <1>5, <1>6, CalmStart

\* Pages hold devices of their application; the first one holds them all when no
\* more EUIs exist than fit.
LEMMA PageFacts ==
  ASSUME TypeInv, NEW o \in Owner
  PROVE  /\ \A n : \A e \in Page(o, n) : e \in Eui /\ InApp(e, o)
         /\ Small => \A e \in Eui : InApp(e, o) => e \in Page(o, 0)
<1>1. \A n : \A e \in Page(o, n) : e \in Eui /\ InApp(e, o)
  BY DEF Page, InOrder
<1>2. ASSUME Small, NEW e \in Eui, InApp(e, o)
      PROVE  e \in Page(o, 0)
  <2> DEFINE S == {f \in InOrder(o) : f < e}
  <2>1. S \subseteq Eui /\ e \notin S
    BY DEF InOrder
  <2> HIDE DEF S
  <2>2. /\ IsFiniteSet(S) /\ Cardinality(S) <= Cardinality(Eui)
        /\ Cardinality(S) # Cardinality(Eui)
    BY <1>2, <2>1, FS_Subset DEF Small
  <2>3. Cardinality(S) \in Nat /\ Cardinality(Eui) \in Nat
    BY <1>2, <2>2, FS_CardinalityType DEF Small
  <2>4. Cardinality(S) \in 0..(0 + PageSize - 1)
    BY <1>2, <2>2, <2>3, BoundAssumption DEF Small
  <2>5. Rank(o, e) = Cardinality(S)
    BY DEF Rank, S
  <2> QED BY <1>2, <2>4, <2>5 DEF Page, InOrder
<1> QED BY <1>1, <1>2

\* A step of the run itself that writes nothing.
LEMMA RunOnlyKeeps ==
  ASSUME TypeInv, NEW r \in Runs, RunInv(r), Keep(r), UNCHANGED <<dev, topic, proc>>,
         \A s \in Runs \ {r} : run'[s] = run[s]
  PROVE  Undisturbed(r)' /\ CopiesOK(r)'
<1>1. Undisturbed(r)'
  BY DEF RunInv, Undisturbed, Lowered
<1>2. CopiesOK(r)'
  BY OthersKept DEF RunInv, CopiesOK
<1> QED BY <1>1, <1>2

\* ... of the sweep of the application of o, when all devices are served.
LEMMA SweepKeepsRun ==
  ASSUME TypeInv, NEW r \in Runs, RunInv(r), Keep(r),
         UNCHANGED <<dev, topic, proc>>,
         run[r].pc = "sweeping", run'[r].pc = "sweeping",
         \A s \in Runs \ {r} : run'[s] = run[s],
         NEW o \in Owner, \A w \in Owner \ {o} : sweep'[<<r, w>>] = sweep[<<r, w>>],
         \A e \in Eui : chirp[e] # None /\ chirp[e].app # o => chirp'[e] # None,
         PageOK(r, o)', Small /\ OneEach /\ o \in Account => SweepOK(r, o)'
  PROVE  RunInv(r)'
<1>1. Undisturbed(r)' /\ CopiesOK(r)'
  BY RunOnlyKeeps
<1>2. ASSUME NEW w \in Owner \ {o} PROVE PageOK(r, w)'
  <2> DEFINE s == sweep[<<r, w>>]
  <2>1. s.page \subseteq Eui /\ PageOK(r, w)
    BY DEF TypeInv, TypeOK, Sweep, PhaseOK, RunInv
  <2>2. \A e \in Eui : InApp(e, w) => InApp(e, w)' /\ (Matched(e)' <=> Matched(e))
    BY KeepFacts DEF InApp, Keep, KeepChirp
  <2> QED BY <2>1, <2>2 DEF PageOK
<1>3. \A d \in Dev : dev'[d] # None => Served(r, d)'
  <2>1. \A d \in Dev : dev[d] # None => Served(r, d)
    BY DEF RunInv, PhaseOK
  <2> QED BY <2>1, KeepFacts
<1>4. PhaseOK(r)'
  BY <1>2, <1>3 DEF PhaseOK
<1>5. ASSUME Small, OneEach, NEW w \in Account \ {o} PROVE SweepOK(r, w)'
  <2>1. SweepOK(r, w)
    BY <1>5 DEF RunInv, SweepsOK
  <2> QED BY <2>1, CleanKept DEF SweepOK
<1>6. SweepsOK(r)'
  <2>1. OneEach' <=> OneEach
    BY KeepDevFacts DEF Keep
  <2> QED BY <1>5, <2>1 DEF SweepsOK
<1> QED BY <1>1, <1>4, <1>6 DEF RunInv

LEMMA RunStepKeepsRun ==
  ASSUME TypeInv, TypeInv', SyncInv, NEW r \in Runs, Good(r)', RunStep(r)
  PROVE  RunInv(r)'
<1> DEFINE x == run[r]
<1>a. /\ run \in [Runs -> Run] /\ x \in Run /\ proc \in [Goroutine -> Worker]
      /\ sweep \in [Runs \X Owner -> Sweep] /\ dev \in [Dev -> Device \cup {None}]
      /\ chirp \in [Eui -> ChirpDevice \cup {None}]
      /\ sess \in [Eui -> Activation \cup {None}]
  BY DEF TypeInv, TypeOK
<1>n. ~run'[r].failed
  BY DEF Good
\* The run was good.
<1>b. /\ \A s \in Runs \ {r} : run'[s] = run[s]
      /\ run'[r].quiet = x.quiet /\ (x.failed => run'[r].failed)
  <2>1. CASE ListDevices(r)
    BY <2>1, <1>a DEF ListDevices, Run
  <2>2. CASE WaitSynced(r) \/ WaitSwept(r)
    BY <2>2, <1>a DEF WaitSynced, WaitSwept, Run
  <2>3. CASE ListOwners(r)
    BY <2>3, <1>a DEF ListOwners, Run
  <2>4. ASSUME NEW o \in Owner, ListPage(<<r, o>>) \/ Match(<<r, o>>)
        PROVE  run' = run
    BY <2>4 DEF ListPage, Match
  <2>5. ASSUME NEW o \in Owner, SweepFails(<<r, o>>)
        PROVE  FALSE
    <3>1. run' = [run EXCEPT ![r].failed = TRUE]
      BY <2>5 DEF SweepFails
    <3> QED BY <3>1, <1>a, <1>n DEF Run
  <2>6. ASSUME NEW o \in Owner, NEW e \in Eui, DeleteMissing(<<r, o>>, e)
        PROVE  run' = [run EXCEPT ![r].swept = @ \cup {e}]
    BY <2>6 DEF DeleteMissing
  <2>7. ASSUME NEW e \in Eui, run' = [run EXCEPT ![r].swept = @ \cup {e}]
        PROVE  /\ \A s \in Runs \ {r} : run'[s] = run[s]
               /\ run'[r].quiet = x.quiet /\ (x.failed => run'[r].failed)
    BY <2>7, <1>a DEF Run
  <2> QED BY <2>1, <2>2, <2>3, <2>4, <2>5, <2>6, <2>7 DEF RunStep
<1>c. RunInv(r)
  BY <1>b DEF SyncInv, Good
<1>1. CASE ListDevices(r)
  <2>0. x.pc = "list" /\ UNCHANGED <<dev, chirp, sess, topic, sweep>>
    BY <1>1 DEF ListDevices, chirpstack, others
  <2>1. /\ run' = [run EXCEPT ![r].pc = "syncing"]
        /\ proc' = [g \in Goroutine |->
             IF g # Consumer /\ g[1] = r /\ dev[g[2]] # None
             THEN Syncing(g[2]) ELSE proc[g]]
    <3>1. ASSUME NEW b \in BOOLEAN,
                 run' = [run EXCEPT ![r].pc = "listUsers", ![r].failed = TRUE,
                                    ![r].err = @ \/ b]
          PROVE  FALSE
      BY <3>1, <1>a, <1>n DEF Run
    <3> QED BY <1>1, <3>1 DEF ListDevices
  <2>2. run'[r].pc = "syncing" /\ run'[r].swept = x.swept
    BY <2>1, <1>a DEF Run
  <2>3. Keep(r)
    BY <2>0, <2>2, SameKeeps
  <2>4. Undisturbed(r)'
    BY <2>0, <1>b, <1>c DEF RunInv, Undisturbed, Lowered
  <2>5. ASSUME NEW g \in Goroutine, g # Consumer, g[1] = r, dev[g[2]] # None
        PROVE  CopyOK(r, g, proc[g])' /\ proc'[g].pc = "lower"
    <3>1. PICK d \in Dev : d = g[2]
      BY <2>5, GoroutineParts
    <3>2. proc'[g] = Syncing(d)
      BY <2>1, <2>5, <3>1
    <3>3. proc'[g].pc = "lower" /\ proc'[g].d = d /\ proc'[g].copy = dev[d]
      BY <3>2 DEF Syncing, Idle
    <3> QED BY <2>0, <2>5, <3>1, <3>3 DEF CopyOK, Agrees
  <2>6. ASSUME NEW g \in Goroutine, ~(g # Consumer /\ g[1] = r /\ dev[g[2]] # None)
        PROVE  CopyOK(r, g, proc[g])'
    <3>1. proc'[g] = proc[g]
      BY <2>1, <2>6
    <3> QED BY <2>0, <2>3, <3>1, <1>c, OthersKept DEF RunInv
  <2>7. PhaseOK(r)'
    <3>1. \A d \in Dev : dev'[d] # None => proc'[<<r, d>>].pc # "idle"
      BY <2>0, <2>5, GoroutineParts
    <3>2. \A o \in Owner : PageOK(r, o)'
      <4>1. \A o \in Owner : sweep'[<<r, o>>].pc = "idle"
        BY <2>2 DEF TypeInv, PhasesOK
      <4> QED BY <4>1 DEF PageOK
    <3> QED BY <2>2, <3>1, <3>2 DEF PhaseOK
  <2>8. SweepsOK(r)'
    BY <2>2 DEF SweepsOK
  <2> QED BY <2>4, <2>5, <2>6, <2>7, <2>8 DEF RunInv, CopiesOK
\* A step to the next phase.
<1>d. ASSUME UNCHANGED <<dev, chirp, sess, topic, proc>>,
             NEW pc \in {"listUsers", "sweeping", "done"}, run'[r] = [x EXCEPT !.pc = pc],
             \A d \in Dev : dev[d] # None => Served(r, d),
             \A o \in Owner : PageOK(r, o)', SweepsOK(r)'
      PROVE  RunInv(r)'
  <2>1. run'[r].pc = pc /\ run'[r].swept = x.swept
    BY <1>a, <1>d DEF Run
  <2>2. Keep(r)
    BY <1>d, <2>1, SameKeeps
  <2>3. Undisturbed(r)' /\ CopiesOK(r)'
    BY <1>b, <1>c, <1>d, <2>2, RunOnlyKeeps
  <2>4. \A d \in Dev : dev'[d] # None => Served(r, d)'
    BY <1>d, <2>2, KeepFacts
  <2>5. PhaseOK(r)'
    BY <1>d, <2>1, <2>4 DEF PhaseOK
  <2> QED BY <1>d, <2>3, <2>5 DEF RunInv
<1>2. CASE WaitSynced(r)
  <2>1. /\ x.pc = "syncing" /\ UNCHANGED <<dev, chirp, sess, topic, proc, sweep>>
        /\ \A d \in Dev : proc[<<r, d>>].pc = "idle"
    BY <1>2 DEF WaitSynced, chirpstack, others, At
  <2>2. run'[r] = [x EXCEPT !.pc = "listUsers"] /\ run'[r].pc = "listUsers"
    BY <1>2, <1>a DEF WaitSynced, Run
  <2>3. \A d \in Dev : dev[d] # None => Served(r, d)
    BY <1>c, <2>1 DEF RunInv, PhaseOK
  <2>4. \A o \in Owner : PageOK(r, o)'
    <3>1. \A o \in Owner : sweep'[<<r, o>>].pc = "idle"
      BY <2>2 DEF TypeInv, PhasesOK
    <3> QED BY <3>1 DEF PageOK
  <2>5. SweepsOK(r)'
    BY <2>2 DEF SweepsOK
  <2> QED BY <1>d, <2>1, <2>2, <2>3, <2>4, <2>5
<1>3. CASE ListOwners(r)
  <2>1. /\ run' = [run EXCEPT ![r].pc = "sweeping"]
        /\ sweep' = [y \in Runs \X Owner |->
             IF y[1] = r /\ y[2] \in Account
             THEN [NoSweep EXCEPT !.pc = "list"] ELSE sweep[y]]
    <3>1. ~(run' = [run EXCEPT ![r].pc = "done", ![r].failed = TRUE, ![r].err = TRUE])
      BY <1>a, <1>n DEF Run
    <3> QED BY <1>3, <3>1 DEF ListOwners
  <2>2. run'[r] = [x EXCEPT !.pc = "sweeping"] /\ run'[r].pc = "sweeping"
    BY <2>1, <1>a DEF Run
  <2>3. /\ \A o \in Account : sweep'[<<r, o>>].pc = "list" /\ sweep'[<<r, o>>].offset = 0
        /\ \A o \in Owner \ Account : sweep'[<<r, o>>].pc = "idle"
    <3>1. /\ \A o \in Account : sweep'[<<r, o>>] = [NoSweep EXCEPT !.pc = "list"]
          /\ \A o \in Owner \ Account : sweep'[<<r, o>>] = sweep[<<r, o>>]
      BY <2>1
    <3>2. \A o \in Owner : sweep[<<r, o>>].pc = "idle"
      BY <1>3 DEF ListOwners, TypeInv, PhasesOK
    <3> QED BY <3>1, <3>2 DEF NoSweep
  <2>4. (\A o \in Owner : PageOK(r, o)') /\ SweepsOK(r)'
    BY <2>3 DEF PageOK, SweepsOK, SweepOK
  <2>5. x.pc = "listUsers" /\ UNCHANGED <<dev, chirp, sess, topic, proc>>
    BY <1>3 DEF ListOwners, chirpstack
  <2>6. \A d \in Dev : dev[d] # None => Served(r, d)
    BY <1>c, <2>5 DEF RunInv, PhaseOK
  <2> QED BY <1>d, <2>2, <2>4, <2>5, <2>6
<1>4. CASE WaitSwept(r)
  <2>1. x.pc = "sweeping" /\ UNCHANGED <<dev, chirp, sess, topic, proc, sweep>>
    BY <1>4 DEF WaitSwept, chirpstack, others
  <2>2. run'[r] = [x EXCEPT !.pc = "done"] /\ run'[r].pc = "done" /\ run'[r].swept = x.swept
    BY <1>4, <1>a DEF WaitSwept, Run
  <2>3. \A d \in Dev : dev[d] # None => Served(r, d)
    BY <1>c, <2>1 DEF RunInv, PhaseOK
  <2>4. \A o \in Owner : PageOK(r, o)'
    <3>1. \A o \in Owner : sweep'[<<r, o>>].pc = "idle"
      BY <2>2 DEF TypeInv, PhasesOK
    <3> QED BY <3>1 DEF PageOK
  <2>5. SweepsOK(r)'
    BY <1>c, <2>1, <2>2, SameKeeps, SweepsKept DEF RunInv
  <2> QED BY <1>d, <2>1, <2>2, <2>3, <2>4, <2>5
\* A step of the sweep of an application.
<1>e. ASSUME NEW o \in Owner, sweep[<<r, o>>].pc # "idle"
      PROVE  x.pc = "sweeping" /\ \A d \in Dev : dev[d] # None => Served(r, d)
  BY <1>c, <1>e DEF TypeInv, PhasesOK, RunInv, PhaseOK
<1>f. ASSUME NEW o \in Owner, sweep[<<r, o>>].pc # "idle",
             UNCHANGED <<dev, chirp, sess, topic, proc, run>>,
             NEW n, sweep' = [sweep EXCEPT ![<<r, o>>] = n],
             n.pc \in {"match", "delete"} => \A e \in n.page : InApp(e, o),
             n.pc = "delete" => \A e \in n.page : ~Matched(e),
             Small /\ OneEach /\ o \in Account =>
               /\ n.pc = "idle" => Clean(o)
               /\ n.pc = "list" => n.offset = 0 \/ Clean(o)
               /\ n.pc \in {"match", "delete"} =>
                    \A e \in Eui : InApp(e, o) /\ ~Matched(e) => e \in n.page
      PROVE  RunInv(r)'
  <2>1. Keep(r) /\ x.pc = "sweeping"
    BY <1>e, <1>f, SameKeeps
  <2>2. /\ sweep'[<<r, o>>] = n
        /\ \A w \in Owner \ {o} : sweep'[<<r, w>>] = sweep[<<r, w>>]
    BY <1>a, <1>f
  <2>3. PageOK(r, o)'
    BY <1>f, <2>2 DEF PageOK, InApp, Matched
  <2>4. Small /\ OneEach /\ o \in Account => SweepOK(r, o)'
    <3>1. \A e \in Eui : /\ InApp(e, o)' <=> InApp(e, o)
                         /\ Matched(e)' <=> Matched(e)
      BY <1>f DEF InApp, Matched
    <3>2. Clean(o)' <=> Clean(o)
      BY <3>1 DEF Clean
    <3> QED BY <1>f, <2>2, <3>1, <3>2 DEF SweepOK
  <2> QED BY <1>c, <1>f, <2>1, <2>2, <2>3, <2>4, SweepKeepsRun
<1>5. ASSUME NEW o \in Owner, ListPage(<<r, o>>) PROVE RunInv(r)'
  <2> DEFINE s == sweep[<<r, o>>]
             page == Page(o, s.offset)
             m == [pc |-> "match", offset |-> s.offset + PageSize, page |-> page]
             n == IF page = {} THEN NoSweep ELSE m
  <2>1. s.pc = "list" /\ UNCHANGED <<dev, chirp, sess, topic, proc, run>>
    BY <1>5 DEF ListPage, chirpstack
  <2>2. sweep' = [sweep EXCEPT ![<<r, o>>] = n]
    BY <1>5, <1>a DEF ListPage
  <2>3. \A e \in page : InApp(e, o)
    BY PageFacts
  <2>4. Small /\ OneEach /\ o \in Account =>
          \A e \in Eui : InApp(e, o) /\ ~Matched(e) => e \in page
    <3>1. Small /\ OneEach /\ o \in Account => SweepOK(r, o)
      BY <1>c, <1>e, <2>1 DEF RunInv, SweepsOK
    <3>2. Small /\ OneEach /\ o \in Account => s.offset = 0 \/ Clean(o)
      BY <2>1, <3>1 DEF SweepOK
    <3> QED BY <3>2, PageFacts DEF Clean
  <2> HIDE DEF page
  <2>5. (n.pc = "idle" /\ page = {}) \/ (n.pc = "match" /\ n.page = page)
    <3>1. CASE page = {}
      BY <3>1, NoRunType
    <3>2. CASE page # {}
      BY <3>2
    <3> QED BY <3>1, <3>2
  <2> HIDE DEF n
  <2> QED BY <1>f, <2>1, <2>2, <2>3, <2>4, <2>5 DEF Clean
<1>6. ASSUME NEW o \in Owner, Match(<<r, o>>) PROVE RunInv(r)'
  <2> DEFINE s == sweep[<<r, o>>]
             platform == Platform(o, s.page)
             missing == s.page \ {dev[d].eui : d \in platform}
             full == Cardinality(s.page) = PageSize
             skip == Cardinality(platform) = Cardinality(s.page) \/ missing = {}
             m == [s EXCEPT !.pc = "delete", !.page = missing,
                            !.offset = IF full THEN @ ELSE 0]
             n == IF skip THEN NextPage(<<r, o>>, full) ELSE m
  <2>1. /\ s.pc = "match" /\ UNCHANGED <<dev, chirp, sess, topic, proc, run>>
        /\ s \in Sweep
    BY <1>6, <1>a DEF Match, chirpstack
  <2>2. sweep' = [sweep EXCEPT ![<<r, o>>] = n]
    <3>1. <<r, o>>[2] = o /\ <<r, o>> \in Runs \X Owner
      OBVIOUS
    <3> QED BY <1>6, <1>a, <3>1, Zenon DEF Match
  <2>3. \A e \in s.page : InApp(e, o)
    BY <1>c, <2>1 DEF RunInv, PhaseOK, PageOK
  <2>4. s.page \subseteq Eui
    BY <2>1 DEF Sweep
  \* All devices' local ids are in lower case by now.
  <2>5. \A e \in s.page : Matched(e) <=> e \notin missing
    <3>1. \A d \in Dev : dev[d] # None => dev[d].lower
      BY <1>e, <2>1 DEF Served
    <3> QED BY <2>3, <2>4, <3>1 DEF InApp, Matched, Platform
  <2>6. Small /\ OneEach /\ o \in Account =>
          \A e \in Eui : InApp(e, o) /\ ~Matched(e) => e \in s.page
    BY <1>c, <1>e, <2>1 DEF RunInv, SweepsOK, SweepOK
  \* As many devices as EUIs are one for each of them.
  <2>7. Small /\ OneEach /\ skip => missing = {}
    <3> SUFFICES ASSUME Small, OneEach, Cardinality(platform) = Cardinality(s.page)
                 PROVE  missing = {}
      OBVIOUS
    <3> DEFINE f == [d \in platform |-> dev[d].eui]
    <3>1. IsFiniteSet(s.page)
      BY <2>4, FS_Subset DEF Small
    <3>2. f \in Injection(platform, s.page)
      BY DEF OneEach, Platform, Injection, IsInjective
    <3>3. f \in Surjection(platform, s.page)
      BY <3>1, <3>2, FS_Injection
    <3>4. \A e \in s.page : \E d \in platform : f[d] = e
      BY <3>3 DEF Surjection
    <3>5. \A e \in s.page : \E d \in platform : dev[d].eui = e
      BY <3>4
    <3> HIDE DEF platform
    <3> QED BY <3>5
  <2>8. missing \subseteq s.page
    OBVIOUS
  <2> HIDE DEF missing, skip
  <2>9. \/ skip /\ n.pc \in {"idle", "list"}
        \/ n.pc = "delete" /\ n.page = missing
    BY <2>1, <2>8, NoRunType DEF NextPage, Sweep
  <2> HIDE DEF n
  <2>10. Small /\ OneEach /\ o \in Account /\ skip => Clean(o)
    BY <2>5, <2>6, <2>7 DEF Clean
  <2>11. /\ n.pc \in {"match", "delete"} => \A e \in n.page : InApp(e, o)
         /\ n.pc = "delete" => \A e \in n.page : ~Matched(e)
         /\ Small /\ OneEach /\ o \in Account =>
              /\ n.pc = "idle" => Clean(o)
              /\ n.pc = "list" => n.offset = 0 \/ Clean(o)
              /\ n.pc \in {"match", "delete"} =>
                   \A e \in Eui : InApp(e, o) /\ ~Matched(e) => e \in n.page
    BY <2>3, <2>4, <2>5, <2>6, <2>8, <2>9, <2>10
  <2> QED BY <1>f, <2>1, <2>2, <2>11
<1>7. ASSUME NEW o \in Owner, NEW e \in Eui, DeleteMissing(<<r, o>>, e)
      PROVE  RunInv(r)'
  <2> DEFINE s == sweep[<<r, o>>]
             m == [s EXCEPT !.page = @ \ {e}]
             n == IF s.page = {e} THEN NextPage(<<r, o>>, s.offset # 0) ELSE m
  <2>1. /\ s.pc = "delete" /\ e \in s.page /\ UNCHANGED <<dev, topic, proc>>
        /\ s \in Sweep
    BY <1>7, <1>a DEF DeleteMissing
  <2>2. sweep' = [sweep EXCEPT ![<<r, o>>] = n]
    BY <1>7, <1>a DEF DeleteMissing
  <2>3. \/ n.pc = "delete" /\ n.page = s.page \ {e}
        \/ s.page = {e} /\ n.pc \in {"idle", "list"}
    <3>1. CASE s.page = {e}
      BY <2>1, <3>1, NoRunType DEF NextPage, Sweep
    <3>2. CASE s.page # {e}
      <4>1. n = m
        BY <3>2
      <4> QED BY <2>1, <4>1 DEF Sweep
    <3> QED BY <3>1, <3>2
  <2> HIDE DEF n
  <2>4. /\ sweep'[<<r, o>>] = n
        /\ \A w \in Owner \ {o} : sweep'[<<r, w>>] = sweep[<<r, w>>]
    BY <1>a, <2>2
  <2>5. /\ chirp' = [chirp EXCEPT ![e] = None]
        /\ sess' = [sess EXCEPT ![e] = None]
        /\ run' = [run EXCEPT ![r].swept = @ \cup {e}]
    BY <1>7 DEF DeleteMissing, Forget
  <2>6. /\ chirp'[e] = None
        /\ \A f \in Eui \ {e} : chirp'[f] = chirp[f] /\ sess'[f] = sess[f]
    BY <1>a, <2>5
  <2>7. run'[r].swept = x.swept \cup {e} /\ run'[r].pc = x.pc
    BY <1>a, <2>5 DEF Run
  <2>8. /\ \A f \in s.page : InApp(f, o) /\ ~Matched(f)
        /\ s.page \subseteq Eui
        /\ Small /\ OneEach /\ o \in Account =>
             \A f \in Eui : InApp(f, o) /\ ~Matched(f) => f \in s.page
    <3>1. PageOK(r, o) /\ (Small /\ OneEach /\ o \in Account => SweepOK(r, o))
      BY <1>c, <1>e, <2>1 DEF RunInv, PhaseOK, SweepsOK
    <3> QED BY <2>1, <3>1 DEF PageOK, SweepOK, Sweep
  <2>9. Keep(r)
    <3>1. KeepDev /\ KeepSess
      BY <2>1, <2>6 DEF KeepDev, KeepSess
    <3>2. KeepChirp(r)
      BY <2>1, <2>6, <2>7, <2>8 DEF KeepChirp
    <3> QED BY <2>7, <3>1, <3>2 DEF Keep
  <2>10. \A f \in Eui : f # e => (InApp(f, o)' <=> InApp(f, o)) /\ (Matched(f)' <=> Matched(f))
    BY <2>1, <2>6 DEF InApp, Matched
  <2>11. ~InApp(e, o)'
    BY <2>6 DEF InApp
  <2>12. PageOK(r, o)'
    BY <2>3, <2>4, <2>8, <2>10 DEF PageOK
  <2>13. Small /\ OneEach /\ o \in Account => SweepOK(r, o)'
    BY <2>3, <2>4, <2>8, <2>10, <2>11 DEF SweepOK, Clean
  <2>14. \A f \in Eui : chirp[f] # None /\ chirp[f].app # o => chirp'[f] # None
    BY <2>1, <2>6, <2>8 DEF InApp
  <2> QED BY <1>b, <1>c, <1>e, <2>1, <2>4, <2>7, <2>9, <2>12, <2>13, <2>14, SweepKeepsRun
<1>8. ASSUME NEW o \in Owner, SweepFails(<<r, o>>) PROVE FALSE
  <2>1. run' = [run EXCEPT ![r].failed = TRUE]
    BY <1>8 DEF SweepFails
  <2> QED BY <2>1, <1>a, <1>n DEF Run
<1> QED BY <1>1, <1>2, <1>3, <1>4, <1>5, <1>6, <1>7, <1>8 DEF RunStep

\* What users and devices do disturbs every run; a restart begins a new one.
LEMMA EnvKeepsRun ==
  ASSUME TypeInv, TypeInv', NEW r \in Runs, Good(r)',
         \/ \E d \in Dev : PutDevice(d) \/ DropDevice(d)
         \/ \E e \in Eui : Join(e) \/ Uplink(e)
         \/ Restart
  PROVE  RunInv(r)'
<1>1. run' # Disturb(run)
  BY DisturbType DEF TypeInv, TypeOK, Good
<1>2. Restart
  BY <1>1 DEF PutDevice, DropDevice, Join, Uplink, Edit
<1>3. PICK k \in 1..(Len(topic) + 1) :
        /\ topic' = SubSeq(topic, k, Len(topic))
        /\ run' = BootRuns(k = Len(topic) + 1)
  BY <1>2 DEF Restart
<1> DEFINE q == k = Len(topic) + 1
           y == [NoRun EXCEPT !.pc = "list", !.quiet = q]
<1>4. \A s \in Runs : run'[s] = IF s = Boot THEN y ELSE NoRun
  BY <1>3 DEF BootRuns
<1>5. y.quiet = q /\ y.pc = "list"
  BY DEF NoRun
<1> HIDE DEF y
<1>6. r = Boot /\ q
  BY <1>4, <1>5, NoRunType DEF Good
<1>7. topic' = <<>>
  <2>1. topic \in Seq(Message) /\ Len(topic) \in Nat
    BY LenProperties DEF TypeInv, TypeOK
  <2> QED BY <1>3, <1>6, <2>1, SubSeqEmpty
<1>8. /\ \A s \in Runs \ {r} : run'[s].pc = "off"
      /\ run'[r].pc = "list"
  BY <1>4, <1>5, <1>6, NoRunType
<1>9. \A g \in Goroutine : proc'[g].pc = "idle"
  BY <1>2, IdleType DEF Restart
<1> QED BY <1>7, <1>8, <1>9, CalmStart

LEMMA InitSync == Init => SyncInv
<1> SUFFICES ASSUME Init, NEW r \in Runs, Good(r) PROVE RunInv(r)
  BY DEF SyncInv
<1> DEFINE y == [NoRun EXCEPT !.pc = "list", !.quiet = TRUE]
<1>1. \A s \in Runs : run[s] = IF s = Boot THEN y ELSE NoRun
  BY DEF Init, BootRuns
<1>2. y.pc = "list"
  BY DEF NoRun
<1> HIDE DEF y
<1>3. r = Boot
  BY <1>1, NoRunType DEF Good
<1>4. /\ \A s \in Runs \ {r} : run[s].pc = "off"
      /\ run[r].pc = "list"
  BY <1>1, <1>2, <1>3, NoRunType
<1>5. /\ \A g \in Goroutine : proc[g].pc = "idle"
      /\ \A o \in Owner : sweep[<<r, o>>].pc = "idle"
  BY IdleType, NoRunType DEF Init
<1>6. Undisturbed(r)
  <2>1. topic = <<>>
    BY DEF Init
  <2> QED BY <1>4, <2>1, EmptySeq DEF Undisturbed
<1>7. CopiesOK(r)
  BY <1>5 DEF CopiesOK, CopyOK, Busy
<1>8. PhaseOK(r) /\ SweepsOK(r)
  BY <1>4, <1>5 DEF PhaseOK, PageOK, SweepsOK
<1> QED BY <1>6, <1>7, <1>8 DEF RunInv

LEMMA NextSync == TypeInv /\ SyncInv /\ [Next]_vars => SyncInv'
<1> SUFFICES ASSUME TypeInv, SyncInv, [Next]_vars, NEW r \in Runs, Good(r)'
             PROVE  RunInv(r)'
  BY DEF SyncInv
<1>a. TypeInv'
  BY NextType
<1>1. ASSUME NEW s \in Runs, RunStep(s) PROVE RunInv(r)'
  <2>1. CASE s = r
    BY <1>a, <1>1, <2>1, RunStepKeepsRun
  <2>2. CASE s # r
    <3>1. run'[r] = run[r]
      BY <1>1, <2>2 DEF RunStep, ListDevices, WaitSynced, ListOwners, WaitSwept,
         ListPage, Match, SweepFails, DeleteMissing, TypeInv, TypeOK
    <3>2. run[s].pc \in {"off", "done"}
      BY <2>2, <3>1 DEF SyncInv, Good, RunInv, Undisturbed
    <3>3. \A o \in Owner : sweep[<<s, o>>].pc = "idle"
      BY <3>2 DEF TypeInv, PhasesOK
    <3> QED BY <1>1, <3>2, <3>3 DEF RunStep, ListDevices, WaitSynced, ListOwners,
            WaitSwept, ListPage, Match, SweepFails, DeleteMissing
  <2> QED BY <2>1, <2>2
<1>2. CASE UNCHANGED vars
  <2>1. UNCHANGED <<dev, chirp, sess, topic, proc, run, sweep>>
    BY <1>2 DEF vars
  <2>2. RunInv(r)
    BY <2>1 DEF SyncInv, Good
  <2>3. Keep(r)
    BY <2>1, SameKeeps
  <2>4. Undisturbed(r)' /\ CopiesOK(r)'
    BY <2>1, <2>2, <2>3, RunOnlyKeeps
  <2>5. PhaseOK(r)' /\ SweepsOK(r)'
    BY <2>1, <2>2, <2>3, PhaseKept, SweepsKept DEF RunInv
  <2> QED BY <2>4, <2>5 DEF RunInv
<1> QED BY <1>a, <1>1, <1>2, WorkKeepsRun, ConsumeKeepsRun, StartKeepsRun, EnvKeepsRun
        DEF Next

\* After an undisturbed sync without failures every device is in its owner's
\* application, or marked because its EUI is or was another's, and the only claim
\* to an ABP device's EUI has its session (SyncDevice, SyncAllDevices).
THEOREM SyncCorrect == Spec => [](SyncCreatesDevices /\ SyncActivates)
<1>1. Init => TypeInv /\ SyncInv
  BY InitType, InitSync
<1>2. TypeInv /\ SyncInv /\ [Next]_vars => (TypeInv /\ SyncInv)'
  BY NextType, NextSync
<1>3. TypeInv /\ SyncInv => SyncCreatesDevices /\ SyncActivates
  <2> SUFFICES ASSUME SyncInv, NEW r \in Runs, Completed(r), NEW d \in Dev,
                      dev[d] # None
               PROVE  LET e == dev[d].eui
                          o == OwnerOf[d]
                      IN /\ \/ InApp(e, o)
                            \/ dev[d].dup /\ (chirp[e] # None \/ e \in run[r].swept)
                         /\ /\ dev[d].act # None /\ InApp(e, o)
                            /\ e \notin run[r].swept
                            /\ \A x \in Dev \ {d} : dev[x] # None => dev[x].eui # e
                            => sess[e] # None /\ sess[e].key = dev[d].act
    BY DEF SyncCreatesDevices, SyncActivates
  <2>1. PhaseOK(r) /\ run[r].pc = "done"
    BY DEF SyncInv, Completed, Good, RunInv
  <2>2. Served(r, d)
    BY <2>1 DEF PhaseOK
  <2> QED BY <2>2 DEF Served, Foreign, Live, Sole, InApp
<1> QED BY <1>1, <1>2, <1>3, PTL DEF Spec

\* In particular an ABP device with the only claim to its EUI has its session, with
\* the keys that the platform has, whatever came before (SyncDevice).
THEOREM SyncActivatesCorrect == Spec => []SyncActivates
BY SyncCorrect, PTL

\* ... and no device in the application of an owner with an email misses in the
\* platform, if a page of ChirpStack's lists holds all devices there can be
\* (DeleteOutdatedDevices).
THEOREM SyncRemovesCorrect == Spec => [](Small => SyncRemovesDevices)
<1>1. Init => TypeInv /\ SyncInv
  BY InitType, InitSync
<1>2. TypeInv /\ SyncInv /\ [Next]_vars => (TypeInv /\ SyncInv)'
  BY NextType, NextSync
<1>3. TypeInv /\ SyncInv => (Small => SyncRemovesDevices)
  <2> SUFFICES ASSUME TypeInv, SyncInv, Small, NEW r \in Runs, Completed(r),
                      OneEach,
                      NEW e \in Eui, chirp[e] # None, chirp[e].app \in Account
               PROVE  Matched(e)
    BY DEF SyncRemovesDevices
  <2>1. SweepsOK(r) /\ run[r].pc = "done"
    BY DEF SyncInv, Completed, Good, RunInv
  <2>2. PICK o \in Account : o = chirp[e].app
    OBVIOUS
  <2>3. sweep[<<r, o>>].pc = "idle"
    BY <2>1 DEF TypeInv, PhasesOK
  <2>4. Clean(o)
    BY <2>1, <2>3 DEF SweepsOK, SweepOK
  <2> QED BY <2>2, <2>4 DEF Clean, InApp
<1> QED BY <1>1, <1>2, <1>3, PTL DEF Spec

\* A sync that nobody disturbs and in which no call fails deletes no device that
\* the platform has (DeleteOutdatedDevices).
THEOREM FaultlessSyncKeepsCorrect == Spec => FaultlessSyncKeeps
<1> DEFINE Kept == \A r \in Runs, e \in Eui :
             run[r].quiet /\ ~run[r].failed /\ SweepDeletes(r, e) => ~Matched(e)
<1>1. Init => TypeInv /\ SyncInv
  BY InitType, InitSync
<1>2. TypeInv /\ SyncInv /\ [Next]_vars => (TypeInv /\ SyncInv)'
  BY NextType, NextSync
<1>3. TypeInv /\ SyncInv /\ [Next]_vars => Kept
  <2> SUFFICES ASSUME TypeInv, SyncInv, [Next]_vars, NEW r \in Runs, NEW e \in Eui,
                      Good(r), SweepDeletes(r, e)
               PROVE  ~Matched(e)
    BY DEF Good
  <2>1. PICK o \in Owner : /\ sweep[<<r, o>>].pc = "delete"
                           /\ sweep'[<<r, o>>] # sweep[<<r, o>>]
    BY DEF SweepDeletes
  <2>2. chirp' # chirp /\ sweep' # sweep /\ chirp'[e] # chirp[e]
    BY <2>1 DEF SweepDeletes
  <2>3. PhaseOK(r) /\ run[r].pc = "sweeping"
    BY <2>1 DEF SyncInv, RunInv, TypeInv, PhasesOK
  <2>4. /\ ~Restart
        /\ \A d \in Dev : ~PutDevice(d) /\ ~DropDevice(d)
        /\ \A f \in Eui : ~Join(f) /\ ~Uplink(f)
    BY <2>2 DEF Restart, PutDevice, DropDevice, Join, Uplink, chirpstack
  <2>5. ~Consume /\ \A g \in Goroutine : ~Work(g)
    BY <2>2 DEF Consume, HandlePut, HandleDelete, DeleteDevice, Work, LowerLocalId,
       GetDevice, MarkDuplicate, GetActivation, GetKeys, WriteDevice, WriteKeys,
       Activate, CallError, others
  <2>6. \A s \in Runs : ~StartRun(s)
    BY <2>2 DEF StartRun, chirpstack
  <2>7. PICK s \in Runs : RunStep(s)
    BY <2>2, <2>4, <2>5, <2>6 DEF Next, vars
  <2>8. PICK w \in Owner, f \in Eui : DeleteMissing(<<s, w>>, f)
    BY <2>2, <2>7 DEF RunStep, ListDevices, WaitSynced, ListOwners, WaitSwept,
       ListPage, Match, SweepFails, chirpstack
  <2>9. s = r /\ w = o
    BY <2>1, <2>8 DEF DeleteMissing, TypeInv, TypeOK
  <2>10. f = e /\ e \in sweep[<<r, o>>].page
    BY <2>2, <2>8, <2>9 DEF DeleteMissing, Forget, TypeInv, TypeOK
  <2> QED BY <2>1, <2>3, <2>10 DEF PhaseOK, PageOK
<1>4. Spec => [][Kept]_vars
  BY <1>1, <1>2, <1>3, PTL DEF Spec
<1> QED BY <1>4 DEF FaultlessSyncKeeps
================================================================================
