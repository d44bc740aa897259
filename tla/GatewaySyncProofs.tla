--------------------------- MODULE GatewaySyncProofs ---------------------------
(***************************************************************************)
(* Theorems about GatewaySync: its types, and what an undisturbed sync in   *)
(* which nothing fails does to hubs and gateways.                          *)
(***************************************************************************)
EXTENDS GatewaySync, SequenceTheorems, TLAPS

USE HubAssumption

Busy == {"get", "duplicate", "link", "setHub", "write"}

\* What a goroutine that runs SyncGateway has in its variables.
LocalOK(g, p) ==
  /\ p.pc \in Busy => /\ p.h \in Hub /\ p.copy \in HubRecord /\ p.copy.eui \in Eui
                      /\ g # Consumer => p.h = g[2]
  /\ p.pc \in {"link", "setHub", "write"} => p.new \in Gateway
LocalsOK == \A g \in Goroutine : LocalOK(g, proc[g])
\* The consumer leaves the message it handles on the topic.
ConsumerOK == proc[Consumer].pc # "idle" => topic # <<>>
RequestsOK ==
  \A c \in Cert : cert[c].pc # "idle" => cert[c].h \in Hub /\ cert[c].copy \in HubRecord
TypeInv == TypeOK /\ LocalsOK /\ ConsumerOK /\ RequestsOK

-----------------------------------------------------------------------------
(* Types.                                                                  *)

LEMMA IdleType ==
  /\ Idle \in Worker /\ Idle.pc = "idle"
  /\ \A g : LocalOK(g, Idle)
BY DEF Idle, Worker, LocalOK, Busy

LEMMA NoRunType ==
  NoRun \in Run /\ NoRun.pc = "off" /\ ~NoRun.quiet /\ NoRun.doomed = {}
BY DEF NoRun, Run

LEMMA BootRunsType ==
  ASSUME NEW q \in BOOLEAN
  PROVE  BootRuns(q) \in [Runs -> Run]
BY NoRunType DEF BootRuns, Run

LEMMA NoRequestType == NoRequest \in Request /\ NoRequest.pc = "idle"
BY DEF NoRequest, Request

LEMMA DisturbType ==
  ASSUME run \in [Runs -> Run]
  PROVE  Disturb(run) \in [Runs -> Run]
BY DEF Disturb, Run

LEMMA GoroutineParts ==
  /\ Consumer \in Goroutine
  /\ \A r \in Runs, h \in Hub : <<r, h>> \in Goroutine /\ <<r, h>> # Consumer
  /\ \A g \in Goroutine : g # Consumer =>
       g[1] \in Runs /\ g[2] \in Hub /\ g = <<g[1], g[2]>>
BY DEF Goroutine

LEMMA InitType == Init => TypeInv
<1> SUFFICES ASSUME Init PROVE TypeInv
  OBVIOUS
<1>1. BootRuns(TRUE) \in [Runs -> Run]
  BY BootRunsType
<1>2. topic \in Seq(Message)
  BY EmptySeq DEF Init
<1>3. proc \in [Goroutine -> Worker] /\ cert \in [Cert -> Request]
  BY IdleType, NoRequestType DEF Init
<1>4. /\ hub \in [Hub -> HubRecord \cup {None}]
      /\ gw \in [Eui -> Gateway \cup {None}]
      /\ mail \in Emails /\ Distinct(mail)
      /\ heard \in [Eui -> SUBSET Device] /\ issued \subseteq Hub
  BY DEF Init
<1>6. edits \in 0..MaxEdits /\ crashes \in 0..MaxCrashes
  BY BoundAssumption DEF Init
<1>7. run \in [Runs -> Run]
  BY <1>1 DEF Init
<1>8. TypeOK
  BY <1>2, <1>3, <1>4, <1>6, <1>7 DEF TypeOK
<1>5. LocalsOK /\ ConsumerOK /\ RequestsOK
  BY IdleType, NoRequestType, GoroutineParts
     DEF Init, LocalsOK, ConsumerOK, RequestsOK
<1> QED BY <1>5, <1>8 DEF TypeInv

LEMMA PutType ==
  ASSUME topic \in Seq(Message), NEW h \in Hub
  PROVE  Put(h) \in Seq(Message) /\ Put(h) # <<>>
<1>1. [cmd |-> "PUT", h |-> h] \in Message
  BY DEF Message
<1> QED BY <1>1, AppendProperties DEF Put

\* A handler that returns leaves the types alone.
LEMMA ReturnType ==
  ASSUME TypeInv, NEW g \in Goroutine, NEW ok \in BOOLEAN, Return(g, ok)
  PROVE  /\ proc' \in [Goroutine -> Worker] /\ LocalsOK'
         /\ proc'[Consumer].pc # "idle" => proc[Consumer].pc # "idle" /\ g # Consumer
         /\ run' \in [Runs -> Run]
<1>1. proc' \in [Goroutine -> Worker]
  BY IdleType DEF Return, TypeInv, TypeOK
<1>2. \A f \in Goroutine : proc'[f] = IF f = g THEN Idle ELSE proc[f]
  BY DEF Return, TypeInv, TypeOK
<1>3. LocalsOK'
  BY <1>2, IdleType DEF LocalsOK, TypeInv, LocalOK
<1>4. proc'[Consumer].pc # "idle" => proc[Consumer].pc # "idle" /\ g # Consumer
  BY <1>2, IdleType, GoroutineParts
<1>5. run' \in [Runs -> Run]
  <2>1. run \in [Runs -> Run]
    BY DEF TypeInv, TypeOK
  <2>2. CASE g = Consumer \/ ok
    BY <2>1, <2>2 DEF Return
  <2>3. CASE ~(g = Consumer \/ ok)
    <3>1. PICK r \in Runs : run' = [run EXCEPT ![r].failed = TRUE]
      BY <2>3, GoroutineParts DEF Return
    <3>2. [run[r] EXCEPT !.failed = TRUE] \in Run
      BY <2>1 DEF Run
    <3> QED BY <2>1, <3>1, <3>2
  <2> QED BY <2>2, <2>3
<1> QED BY <1>1, <1>3, <1>4, <1>5

\* The topic after a handler has returned.
LEMMA HandledType ==
  ASSUME TypeInv, NEW g \in Goroutine, proc[g].pc # "idle",
         NEW q \in Seq(Message), q # <<>>
  PROVE  /\ Handled(g, q) \in Seq(Message)
         /\ g # Consumer => Handled(g, q) # <<>>
BY HeadTailProperties DEF Handled

LEMMA StopType ==
  ASSUME TypeInv, NEW g \in Goroutine, proc[g].pc # "idle",
         NEW ok \in BOOLEAN, Stop(g, ok)
  PROVE  /\ proc' \in [Goroutine -> Worker] /\ LocalsOK' /\ ConsumerOK'
         /\ run' \in [Runs -> Run] /\ topic' \in Seq(Message)
<1>1. /\ proc' \in [Goroutine -> Worker] /\ LocalsOK' /\ run' \in [Runs -> Run]
      /\ proc'[Consumer].pc # "idle" => proc[Consumer].pc # "idle" /\ g # Consumer
  BY ReturnType DEF Stop
<1>2. topic \in Seq(Message)
  BY DEF TypeInv, TypeOK
<1>3. CASE g = Consumer
  <2>1. topic # <<>> /\ topic' = Tail(topic)
    BY <1>3 DEF TypeInv, ConsumerOK, Stop, Handled
  <2> QED BY <1>1, <1>2, <1>3, <2>1, HeadTailProperties DEF ConsumerOK
<1>4. CASE g # Consumer
  <2>1. topic' = topic
    BY <1>4 DEF Stop, Handled
  <2> QED BY <1>1, <1>2, <2>1 DEF ConsumerOK, TypeInv
<1> QED BY <1>3, <1>4

\* The same where it has put a message on the topic before.
LEMMA PutReturnType ==
  ASSUME TypeInv, NEW g \in Goroutine, proc[g].pc # "idle", NEW h \in Hub,
         NEW ok \in BOOLEAN, Return(g, ok), topic' = Handled(g, Put(h))
  PROVE  /\ proc' \in [Goroutine -> Worker] /\ LocalsOK' /\ ConsumerOK'
         /\ run' \in [Runs -> Run] /\ topic' \in Seq(Message)
<1>1. Put(h) \in Seq(Message) /\ Put(h) # <<>>
  BY PutType DEF TypeInv, TypeOK
<1>2. topic' \in Seq(Message) /\ (g # Consumer => topic' # <<>>)
  BY <1>1, HandledType
<1>3. /\ proc' \in [Goroutine -> Worker] /\ LocalsOK' /\ run' \in [Runs -> Run]
      /\ proc'[Consumer].pc # "idle" => g # Consumer
  BY ReturnType
<1> QED BY <1>2, <1>3 DEF ConsumerOK

\* A busy handler that goes on with other variables.
LEMMA GoesOnType ==
  ASSUME TypeInv, NEW g \in Goroutine, NEW p \in Worker, LocalOK(g, p),
         proc' = [proc EXCEPT ![g] = p],
         proc[g].pc # "idle" \/ topic # <<>>, topic' = topic
  PROVE  proc' \in [Goroutine -> Worker] /\ LocalsOK' /\ ConsumerOK'
<1>1. proc' \in [Goroutine -> Worker]
  BY DEF TypeInv, TypeOK
<1>2. \A f \in Goroutine : proc'[f] = IF f = g THEN p ELSE proc[f]
  BY DEF TypeInv, TypeOK
<1>3. LocalsOK'
  BY <1>2 DEF LocalsOK, TypeInv, LocalOK
<1>4. ConsumerOK'
  BY <1>2, GoroutineParts DEF ConsumerOK, TypeInv
<1> QED BY <1>1, <1>3, <1>4

LEMMA PreparedType ==
  ASSUME NEW old \in Gateway \cup {None}, NEW copy \in HubRecord, NEW o \in Email
  PROVE  Prepared(old, copy, o) \in Gateway /\ Prepared(old, copy, o).tenant = o
<1>1. copy.age.val # None => Secs(copy.age.val) \in Nat
  <2>1. copy.age.val \in Nat \cup {None}
    BY DEF HubRecord
  <2> QED BY <2>1 DEF Secs
<1>2. copy.name \in Hub \X Name /\ copy.loc.val \in Place \cup {None}
  BY DEF HubRecord
<1>3. old # None => old.loc \in Place \cup {None} /\ old.secs \in Nat
  BY DEF Gateway
<1> HIDE DEF HubRecord
<1> QED BY <1>1, <1>2, <1>3 DEF Prepared, Gateway

\* The hub that Link makes of its copy.
Linked(old, new, copy, links) == [FilledHub(old, new, copy) EXCEPT !.links = links]

LEMMA FilledType ==
  ASSUME NEW old \in Gateway, NEW new \in Gateway, NEW copy \in HubRecord,
         NEW links \in SUBSET Device
  PROVE  /\ Linked(old, new, copy, links) \in HubRecord
         /\ Linked(old, new, copy, links).eui = copy.eui
         /\ Linked(old, new, copy, links).dup = copy.dup
<1>1. Filled(new.loc) \in [val : Place \cup {None}, web : BOOLEAN]
  BY DEF Filled, Gateway
<1>2. Filled(MsOf(old.secs)) \in [val : Nat \cup {None}, web : BOOLEAN]
  BY DEF Filled, MsOf, Gateway
<1> QED BY <1>1, <1>2 DEF Linked, FilledHub, HubRecord

\* The types hold after a step that leaves requests and counters alone.
LEMMA TypeParts ==
  ASSUME TypeInv, UNCHANGED <<mail, heard, cert, issued, edits, crashes>>,
         hub' \in [Hub -> HubRecord \cup {None}],
         gw' \in [Eui -> Gateway \cup {None}],
         proc' \in [Goroutine -> Worker], LocalsOK', ConsumerOK',
         run' \in [Runs -> Run], topic' \in Seq(Message)
  PROVE  TypeInv'
BY DEF TypeInv, TypeOK, RequestsOK

LEMMA WorkType ==
  ASSUME TypeInv, NEW g \in Goroutine, Work(g)
  PROVE  TypeInv'
<1> DEFINE p == proc[g]
<1>a. /\ hub \in [Hub -> HubRecord \cup {None}]
      /\ gw \in [Eui -> Gateway \cup {None}]
      /\ run \in [Runs -> Run] /\ topic \in Seq(Message)
      /\ p \in Worker /\ LocalOK(g, p)
  BY DEF TypeInv, TypeOK, LocalsOK
<1>b. p.pc \in Busy =>
        /\ p.h \in Hub /\ p.copy \in HubRecord /\ p.copy.eui \in Eui
        /\ p.old \in Gateway \cup {None} /\ Tenant(p.h) \in Email \cup {None}
  BY <1>a DEF LocalOK, Worker, Tenant, TypeInv, TypeOK, Emails
<1>1. CASE GetGateway(g)
  <2>1. /\ p.pc \in Busy /\ p.pc # "idle" /\ gw[p.copy.eui] \in Gateway \cup {None}
        /\ UNCHANGED <<hub, gw, heard, mail, cert, issued, edits, crashes>>
    BY <1>1, <1>a, <1>b DEF GetGateway, Busy
  <2>2. CASE Stop(g, TRUE)
    BY <2>1, <2>2, <1>a, StopType, TypeParts
  <2>3. ASSUME NEW q \in Worker, LocalOK(g, q), proc' = [proc EXCEPT ![g] = q],
               UNCHANGED <<topic, run>>
        PROVE  TypeInv'
    <3>1. proc' \in [Goroutine -> Worker] /\ LocalsOK' /\ ConsumerOK'
      BY <2>1, <2>3, GoesOnType
    <3> QED BY <2>1, <2>3, <3>1, <1>a, TypeParts
  <2>4. CASE proc' = [proc EXCEPT ![g].pc = "duplicate"] /\ UNCHANGED <<topic, run>>
    <3> DEFINE q == [p EXCEPT !.pc = "duplicate"]
    <3>1. proc' = [proc EXCEPT ![g] = q]
      BY <2>4 DEF TypeInv, TypeOK
    <3>2. q \in Worker /\ LocalOK(g, q)
      BY <2>1, <1>a, <1>b DEF LocalOK, Worker, Busy
    <3> QED BY <2>3, <2>4, <3>1, <3>2
  <2> DEFINE new == Prepared(gw[p.copy.eui], p.copy, Tenant(p.h))
  <2>5. CASE /\ Tenant(p.h) # None /\ UNCHANGED <<topic, run>>
             /\ proc' = [proc EXCEPT ![g].pc = "link", ![g].old = gw[p.copy.eui],
                                     ![g].new = new]
    <3> DEFINE q == [p EXCEPT !.pc = "link", !.old = gw[p.copy.eui], !.new = new]
    <3>1. proc' = [proc EXCEPT ![g] = q]
      BY <2>5 DEF TypeInv, TypeOK
    <3>2. new \in Gateway
      BY <2>1, <2>5, <1>b, PreparedType
    <3> HIDE DEF new
    <3>3. q \in Worker /\ LocalOK(g, q)
      BY <2>1, <3>2, <1>a, <1>b DEF LocalOK, Worker, Busy
    <3> QED BY <2>3, <2>5, <3>1, <3>3
  <2> QED BY <1>1, <2>2, <2>4, <2>5 DEF GetGateway
<1>2. CASE MarkDuplicate(g)
  <2>1. p.pc = "duplicate" /\ p.pc \in Busy /\ p.pc # "idle"
    BY <1>2 DEF MarkDuplicate, Busy
  <2>2. UNCHANGED <<gw, heard, mail, cert, issued, edits, crashes>>
    BY <1>2 DEF MarkDuplicate
  <2>3. CASE UNCHANGED hub /\ \E ok \in BOOLEAN : Stop(g, ok)
    BY <2>1, <2>2, <2>3, <1>a, StopType, TypeParts
  <2>4. CASE /\ hub' = [hub EXCEPT ![p.h] = [p.copy EXCEPT !.dup = TRUE]]
             /\ \E ok \in BOOLEAN : Return(g, ok)
             /\ topic' = Handled(g, Put(p.h))
    <3>1. [p.copy EXCEPT !.dup = TRUE] \in HubRecord
      BY <2>1, <1>b DEF HubRecord
    <3>2. hub' \in [Hub -> HubRecord \cup {None}]
      BY <2>4, <3>1, <1>a
    <3> QED BY <2>1, <2>2, <2>4, <3>2, <1>a, <1>b, PutReturnType, TypeParts
  <2> QED BY <1>2, <2>3, <2>4 DEF MarkDuplicate
<1>3. CASE Link(g)
  <2>1. p.pc \in Busy /\ p.pc # "idle" /\ topic' = topic
    BY <1>3 DEF Link, stores, Busy
  <2>2. p.new \in Gateway
    BY <1>3, <1>a DEF Link, LocalOK
  <2>3. proc' \in [Goroutine -> Worker] /\ LocalsOK' /\ ConsumerOK'
    <3>1. CASE proc' = [proc EXCEPT ![g].pc = "write"]
      <4> DEFINE q == [p EXCEPT !.pc = "write"]
      <4>1. proc' = [proc EXCEPT ![g] = q]
        BY <3>1 DEF TypeInv, TypeOK
      <4>2. q \in Worker /\ LocalOK(g, q)
        BY <2>1, <2>2, <1>a, <1>b DEF LocalOK, Worker, Busy
      <4> QED BY <2>1, <4>1, <4>2, GoesOnType
    <3>2. ASSUME p.old # None, NEW links \in SUBSET Device, NEW pc \in {"write", "setHub"},
                 proc' = [proc EXCEPT
                            ![g].copy = Linked(p.old, p.new, p.copy, links),
                            ![g].pc = pc]
          PROVE  proc' \in [Goroutine -> Worker] /\ LocalsOK' /\ ConsumerOK'
      <4> DEFINE f == Linked(p.old, p.new, p.copy, links)
                 q == [p EXCEPT !.copy = f, !.pc = pc]
      <4>1. proc' = [proc EXCEPT ![g] = q]
        BY <3>2 DEF TypeInv, TypeOK
      <4>2. f \in HubRecord /\ f.eui = p.copy.eui
        <5>1. p.old \in Gateway /\ p.copy \in HubRecord
          BY <2>1, <3>2, <1>b
        <5> QED BY <2>2, <5>1, FilledType
      <4> HIDE DEF f
      <4>3. q \in Worker /\ LocalOK(g, q)
        BY <2>1, <2>2, <4>2, <1>a, <1>b DEF LocalOK, Worker, Busy
      <4> QED BY <2>1, <4>1, <4>3, GoesOnType
    <3>3. \A e \in Eui : Scanned(e) \subseteq SUBSET Device
      BY DEF Scanned, TypeInv, TypeOK
    <3> QED BY <1>3, <2>1, <1>b, <3>1, <3>2, <3>3 DEF Link, Linked
  <2> QED BY <1>3, <1>a, <2>3, TypeParts DEF Link, stores
<1>4. CASE SetHub(g)
  <2>1. p.pc = "setHub" /\ p.pc \in Busy /\ p.pc # "idle"
    BY <1>4 DEF SetHub, Busy
  <2>2. UNCHANGED <<gw, heard, mail, cert, issued, edits, crashes>>
    BY <1>4 DEF SetHub
  <2>3. CASE UNCHANGED hub /\ \E ok \in BOOLEAN : Stop(g, ok)
    BY <2>1, <2>2, <2>3, <1>a, StopType, TypeParts
  <2>4. CASE /\ hub' = [hub EXCEPT ![p.h] = p.copy]
             /\ \/ Return(g, FALSE) /\ topic' = Handled(g, Put(p.h))
                \/ /\ proc' = [proc EXCEPT ![g].pc = "write"]
                   /\ topic' = Put(p.h) /\ UNCHANGED run
    <3>1. hub' \in [Hub -> HubRecord \cup {None}]
      BY <2>1, <2>4, <1>a, <1>b
    <3>2. CASE Return(g, FALSE) /\ topic' = Handled(g, Put(p.h))
      BY <2>1, <2>2, <3>1, <3>2, <1>a, <1>b, PutReturnType, TypeParts
    <3>3. CASE /\ proc' = [proc EXCEPT ![g].pc = "write"]
               /\ topic' = Put(p.h) /\ UNCHANGED run
      <4>1. topic' \in Seq(Message) /\ topic' # <<>>
        BY <2>1, <3>3, <1>a, <1>b, PutType
      <4>2. proc' = [proc EXCEPT ![g] = [p EXCEPT !.pc = "write"]]
        BY <3>3 DEF TypeInv, TypeOK
      <4>3. /\ [p EXCEPT !.pc = "write"] \in Worker
            /\ LocalOK(g, [p EXCEPT !.pc = "write"])
        BY <2>1, <1>a, <1>b DEF LocalOK, Worker, Busy
      <4>4. \A x \in Goroutine :
              proc'[x] = IF x = g THEN [p EXCEPT !.pc = "write"] ELSE proc[x]
        BY <4>2 DEF TypeInv, TypeOK
      <4>5. proc' \in [Goroutine -> Worker]
        BY <4>2, <4>3 DEF TypeInv, TypeOK
      <4>6. LocalsOK'
        BY <4>3, <4>4 DEF LocalsOK, TypeInv, LocalOK
      <4>7. ConsumerOK'
        BY <4>1 DEF ConsumerOK
      <4> QED BY <2>2, <3>1, <3>3, <4>1, <4>5, <4>6, <4>7, <1>a, TypeParts
    <3> QED BY <2>4, <3>2, <3>3
  <2> QED BY <1>4, <2>3, <2>4 DEF SetHub
<1>5. CASE CreateGateway(g)
  <2>1. p.pc = "write" /\ p.pc \in Busy /\ p.pc # "idle" /\ p.new \in Gateway
    BY <1>5, <1>a DEF CreateGateway, Busy, LocalOK
  <2>2. UNCHANGED <<hub, heard, mail, cert, issued, edits, crashes>>
    BY <1>5 DEF CreateGateway
  <2>3. gw' \in [Eui -> Gateway \cup {None}]
    BY <1>5, <2>1, <1>a DEF CreateGateway
  <2>4. \E ok \in BOOLEAN : Stop(g, ok)
    BY <1>5 DEF CreateGateway
  <2> QED BY <2>1, <2>2, <2>3, <2>4, <1>a, StopType, TypeParts
<1>6. CASE UpdateGateway(g)
  <2>1. p.pc = "write" /\ p.pc \in Busy /\ p.pc # "idle" /\ p.new \in Gateway
    BY <1>6, <1>a DEF UpdateGateway, Busy, LocalOK
  <2>2. UNCHANGED <<hub, heard, mail, cert, issued, edits, crashes>>
    BY <1>6 DEF UpdateGateway
  <2>3. gw' \in [Eui -> Gateway \cup {None}]
    <3>1. ASSUME gw[p.copy.eui] # None, NEW t \in {gw[p.copy.eui].tenant, p.new.tenant}
          PROVE  [p.new EXCEPT !.tenant = t] \in Gateway
      BY <2>1, <3>1, <1>a, <1>b DEF Gateway
    <3>2. \/ UNCHANGED gw
          \/ /\ gw[p.copy.eui] # None
             /\ \E t \in {gw[p.copy.eui].tenant, p.new.tenant} :
                  gw' = [gw EXCEPT ![p.copy.eui] = [p.new EXCEPT !.tenant = t]]
      BY <1>6 DEF UpdateGateway
    <3>3. gw \in [Eui -> Gateway \cup {None}]
      BY <1>a
    <3> QED BY <3>1, <3>2, <3>3
  <2>4. \E ok \in BOOLEAN : Stop(g, ok)
    BY <1>6 DEF UpdateGateway
  <2> QED BY <2>1, <2>2, <2>3, <2>4, <1>a, StopType, TypeParts
<1>7. CASE CallError(g)
  BY <1>7, <1>a, StopType, TypeParts DEF CallError
<1> QED BY <1>1, <1>2, <1>3, <1>4, <1>5, <1>6, <1>7 DEF Work

LEMMA ConsumeType ==
  ASSUME TypeInv, Consume
  PROVE  TypeInv'
<1>a. /\ hub \in [Hub -> HubRecord \cup {None}]
      /\ gw \in [Eui -> Gateway \cup {None}]
      /\ run \in [Runs -> Run] /\ topic \in Seq(Message)
      /\ proc[Consumer] \in Worker /\ Consumer \in Goroutine
      /\ proc \in [Goroutine -> Worker]
  BY GoroutineParts DEF TypeInv, TypeOK
\* A message that needs no work leaves the topic.
<1>b. ASSUME proc[Consumer].pc = "idle", topic # <<>>, topic' = Tail(topic),
             UNCHANGED <<hub, gw, heard, mail, proc, run, cert, issued, edits, crashes>>
      PROVE  TypeInv'
  <2>1. topic' \in Seq(Message)
    BY <1>a, <1>b, HeadTailProperties
  <2>2. LocalsOK' /\ ConsumerOK'
    BY <1>b DEF TypeInv, LocalsOK, LocalOK, ConsumerOK
  <2> QED BY <1>a, <1>b, <2>1, <2>2, TypeParts
<1>1. CASE HandlePut
  <2>1. CASE UNCHANGED proc /\ topic' = Tail(topic)
    BY <1>1, <1>b, <2>1 DEF HandlePut
  <2>2. CASE /\ Syncable(Head(topic).h) /\ UNCHANGED topic
             /\ proc' = [proc EXCEPT ![Consumer] = Syncing(Head(topic).h)]
    <3>1. topic # <<>> /\ Head(topic) \in Message
      BY <1>1, <1>a, HeadTailProperties DEF HandlePut
    <3> DEFINE h == Head(topic).h
    <3>2. h \in Hub /\ hub[h] \in HubRecord /\ hub[h].eui \in Eui
      BY <2>2, <3>1, <1>a DEF Message, Syncable, HubRecord
    <3>3. Syncing(h) \in Worker /\ LocalOK(Consumer, Syncing(h))
      BY <3>2 DEF Syncing, Idle, Worker, LocalOK, Busy
    <3>4. proc' \in [Goroutine -> Worker] /\ LocalsOK' /\ ConsumerOK'
      BY <2>2, <3>1, <3>3, <1>a, GoesOnType
    <3> QED BY <1>1, <2>2, <3>4, <1>a, TypeParts DEF HandlePut
  <2> QED BY <1>1, <2>1, <2>2 DEF HandlePut
<1>2. CASE HandleDelete
  <2>1. CASE UNCHANGED proc /\ topic' = Tail(topic)
    BY <1>2, <1>b, <2>1 DEF HandleDelete
  <2>2. CASE /\ UNCHANGED topic
             /\ proc' = [proc EXCEPT ![Consumer].pc = "delete",
                                     ![Consumer].h = Head(topic).h]
    <3> DEFINE q == [proc[Consumer] EXCEPT !.pc = "delete", !.h = Head(topic).h]
    <3>1. topic # <<>> /\ Head(topic) \in Message
      BY <1>2, <1>a, HeadTailProperties DEF HandleDelete
    <3>2. proc' = [proc EXCEPT ![Consumer] = q]
      BY <2>2, <1>a
    <3>3. q \in Worker /\ LocalOK(Consumer, q)
      BY <3>1, <1>a DEF Worker, Message, LocalOK, Busy
    <3>4. proc' \in [Goroutine -> Worker] /\ LocalsOK' /\ ConsumerOK'
      BY <2>2, <3>1, <3>2, <3>3, <1>a, GoesOnType
    <3> QED BY <1>2, <2>2, <3>4, <1>a, TypeParts DEF HandleDelete
  <2> QED BY <1>2, <2>1, <2>2 DEF HandleDelete
<1>3. CASE DeleteGateway
  <2>1. gw' \in [Eui -> Gateway \cup {None}]
    BY <1>3, <1>a DEF DeleteGateway
  <2> QED BY <1>3, <2>1, <1>a, StopType, TypeParts DEF DeleteGateway
<1> QED BY <1>1, <1>2, <1>3 DEF Consume

\* A step of a run that leaves the goroutines alone.
LEMMA RunOnlyType ==
  ASSUME TypeInv, NEW r \in Runs, NEW x \in Run, run' = [run EXCEPT ![r] = x],
         gw' \in [Eui -> Gateway \cup {None}],
         UNCHANGED <<hub, heard, topic, mail, proc, cert, issued, edits, crashes>>
  PROVE  TypeInv'
<1>1. LocalsOK' /\ ConsumerOK' /\ run' \in [Runs -> Run]
  BY DEF TypeInv, TypeOK, LocalsOK, LocalOK, ConsumerOK
<1> QED BY <1>1, TypeParts DEF TypeInv, TypeOK

LEMMA RunStepType ==
  ASSUME TypeInv, NEW r \in Runs, StartRun(r) \/ RunStep(r)
  PROVE  TypeInv'
<1> DEFINE x == run[r]
<1>a. /\ run \in [Runs -> Run] /\ x \in Run
      /\ gw \in [Eui -> Gateway \cup {None}]
      /\ hub \in [Hub -> HubRecord \cup {None}]
      /\ proc \in [Goroutine -> Worker] /\ topic \in Seq(Message)
  BY DEF TypeInv, TypeOK
<1>b. ASSUME NEW failed \in BOOLEAN, run' = Finished(r, failed),
             UNCHANGED <<stores, mail, proc, cert, issued, edits, crashes>>
      PROVE  TypeInv'
  <2> DEFINE y == [x EXCEPT !.pc = "done", !.known = {}, !.doomed = {},
                            !.err = @ \/ failed, !.failed = @ \/ failed]
  <2>1. run' = [run EXCEPT ![r] = y]
    BY <1>a, <1>b DEF Finished
  <2>2. y \in Run
    BY <1>a DEF Run
  <2> QED BY <1>a, <1>b, <2>1, <2>2, RunOnlyType DEF stores
<1>1. CASE StartRun(r)
  <2> DEFINE q == Calm /\ \A s \in Runs \ {r} : run[s].pc \in {"off", "done"}
             y == [NoRun EXCEPT !.pc = "list", !.quiet = q]
  <2>1. y \in Run
    BY NoRunType DEF Run
  <2>2. run' \in [Runs -> Run]
    BY <1>1, <1>a, <2>1, DisturbType DEF StartRun
  <2>3. LocalsOK' /\ ConsumerOK'
    BY <1>1 DEF StartRun, stores, TypeInv, LocalsOK, LocalOK, ConsumerOK
  <2> QED BY <1>1, <1>a, <2>2, <2>3, TypeParts DEF StartRun, stores
<1>2. CASE ListHubs(r)
  <2>1. CASE /\ run' = [run EXCEPT ![r].pc = "syncing"]
             /\ proc' = [g \in Goroutine |->
                           IF g # Consumer /\ g[1] = r /\ Syncable(g[2])
                           THEN Syncing(g[2]) ELSE proc[g]]
    <3>1. ASSUME NEW g \in Goroutine, g # Consumer, Syncable(g[2])
          PROVE  Syncing(g[2]) \in Worker /\ LocalOK(g, Syncing(g[2]))
      <4>1. g[2] \in Hub /\ hub[g[2]] \in HubRecord /\ hub[g[2]].eui \in Eui
        BY <3>1, <1>a, GoroutineParts DEF Syncable, HubRecord
      <4> QED BY <4>1 DEF Syncing, Idle, Worker, LocalOK, Busy
    <3>2. proc' \in [Goroutine -> Worker]
      BY <2>1, <3>1, <1>a
    <3>3. LocalsOK'
      BY <2>1, <3>1 DEF LocalsOK, TypeInv, LocalOK
    <3>4. proc'[Consumer] = proc[Consumer] /\ topic' = topic
      BY <1>2, <2>1, GoroutineParts DEF ListHubs, stores
    <3>5. run' = [run EXCEPT ![r] = [x EXCEPT !.pc = "syncing"]]
      BY <2>1, <1>a
    <3>6. run' \in [Runs -> Run]
      BY <3>5, <1>a DEF Run
    <3>7. ConsumerOK'
      BY <3>4 DEF ConsumerOK, TypeInv
    <3> QED BY <1>2, <3>2, <3>3, <3>6, <3>7, <1>a, TypeParts DEF ListHubs, stores
  <2>2. CASE /\ run' = [run EXCEPT ![r].pc = "listHubs", ![r].err = TRUE,
                                   ![r].failed = TRUE]
             /\ UNCHANGED proc
    <3> DEFINE y == [x EXCEPT !.pc = "listHubs", !.err = TRUE, !.failed = TRUE]
    <3>1. run' = [run EXCEPT ![r] = y] /\ y \in Run
      BY <2>2, <1>a DEF Run
    <3> QED BY <1>2, <2>2, <3>1, <1>a, RunOnlyType DEF ListHubs, stores
  <2> QED BY <1>2, <2>1, <2>2 DEF ListHubs
<1>3. CASE WaitSynced(r)
  <2>1. /\ run' = [run EXCEPT ![r] = [x EXCEPT !.pc = "listHubs"]]
        /\ [x EXCEPT !.pc = "listHubs"] \in Run
    BY <1>3, <1>a DEF WaitSynced, Run
  <2> QED BY <1>3, <2>1, <1>a, RunOnlyType DEF WaitSynced, stores
<1>4. CASE ListHubsAgain(r)
  <2> DEFINE known == {<<hub[h].eui, OwnerOf[h]>> : h \in {y \in Hub : Syncable(y)}}
             y == [x EXCEPT !.pc = "listGateways", !.known = known]
  <2>1. CASE run' = [run EXCEPT ![r].pc = "listGateways", ![r].known = known]
    <3>1. \A h \in Hub : Syncable(h) => hub[h].eui \in Eui /\ OwnerOf[h] \in Owner
      BY <1>a DEF Syncable, HubRecord
    <3>2. known \subseteq Eui \X Owner
      BY <3>1
    <3> HIDE DEF known
    <3>3. run' = [run EXCEPT ![r] = y] /\ y \in Run
      BY <2>1, <3>2, <1>a DEF Run
    <3> QED BY <1>4, <3>3, <1>a, RunOnlyType DEF ListHubsAgain, stores
  <2> QED BY <1>4, <1>b, <2>1 DEF ListHubsAgain
<1>5. CASE ListGateways(r)
  <2> DEFINE listed == {e \in Eui : gw[e] # None}
             lost == {e \in listed : \A o \in Owner :
                        <<e, o>> \in run[r].known => mail[o] # gw[e].tenant}
             checked == {e \in listed : \E o \in Owner : <<e, o>> \in run[r].known}
  <2>1. ASSUME NEW u \in SUBSET checked,
               run' = [run EXCEPT ![r].pc = "deleting", ![r].doomed = lost \cup u,
                                  ![r].failed = @ \/ u # {}]
        PROVE  TypeInv'
    <3> DEFINE y == [x EXCEPT !.pc = "deleting", !.doomed = lost \cup u,
                              !.failed = @ \/ u # {}]
    <3>1. lost \cup u \in SUBSET Eui
      OBVIOUS
    <3> HIDE DEF lost, checked
    <3>2. run' = [run EXCEPT ![r] = y] /\ y \in Run
      BY <2>1, <3>1, <1>a DEF Run
    <3> QED BY <1>5, <3>2, <1>a, RunOnlyType DEF ListGateways, stores
  <2>2. \/ \E u \in SUBSET checked :
             run' = [run EXCEPT ![r].pc = "deleting", ![r].doomed = lost \cup u,
                                ![r].failed = @ \/ u # {}]
        \/ run' = Finished(r, TRUE)
    BY <1>5 DEF ListGateways
  <2> HIDE DEF lost, checked
  <2> QED BY <1>5, <1>b, <2>1, <2>2 DEF ListGateways
<1>6. ASSUME NEW e \in Eui, DeleteOutdated(r, e) PROVE TypeInv'
  <2>1. CASE /\ gw' = [gw EXCEPT ![e] = None]
             /\ run' = [run EXCEPT ![r].doomed = @ \ {e}, ![r].swept = @ \cup {e}]
    <3> DEFINE y == [x EXCEPT !.doomed = @ \ {e}, !.swept = @ \cup {e}]
    <3>1. run' = [run EXCEPT ![r] = y] /\ y \in Run
      BY <2>1, <1>a DEF Run
    <3> QED BY <1>6, <2>1, <3>1, <1>a, RunOnlyType DEF DeleteOutdated
  <2>2. CASE /\ run' = [run EXCEPT ![r].doomed = @ \ {e}, ![r].failed = TRUE]
             /\ UNCHANGED gw
    <3> DEFINE y == [x EXCEPT !.doomed = @ \ {e}, !.failed = TRUE]
    <3>1. run' = [run EXCEPT ![r] = y] /\ y \in Run
      BY <2>2, <1>a DEF Run
    <3> QED BY <1>6, <2>2, <3>1, <1>a, RunOnlyType DEF DeleteOutdated
  <2> QED BY <1>6, <2>1, <2>2 DEF DeleteOutdated
<1>7. CASE WaitDeleted(r)
  BY <1>7, <1>b DEF WaitDeleted
<1> QED BY <1>1, <1>2, <1>3, <1>4, <1>5, <1>6, <1>7 DEF RunStep

LEMMA EnvType ==
  ASSUME TypeInv,
         \/ \E c \in Cert : \/ GetCert(c) \/ AnnotateCert(c) \/ CertError(c)
                            \/ \E h \in Hub : RequestCert(c, h)
         \/ \E h \in Hub : PutHub(h) \/ DropHub(h)
         \/ \E o \in Owner : SetMail(o)
         \/ \E e \in Eui, d \in Device : Hear(e, d)
         \/ Restart
  PROVE  TypeInv'
<1>a. /\ run \in [Runs -> Run] /\ cert \in [Cert -> Request]
      /\ gw \in [Eui -> Gateway \cup {None}]
      /\ hub \in [Hub -> HubRecord \cup {None}] /\ heard \in [Eui -> SUBSET Device]
      /\ proc \in [Goroutine -> Worker] /\ topic \in Seq(Message)
      /\ issued \subseteq Hub /\ edits \in 0..MaxEdits /\ crashes \in 0..MaxCrashes
  BY DEF TypeInv, TypeOK
<1>b. UNCHANGED proc => LocalsOK'
  BY DEF TypeInv, LocalsOK, LocalOK
<1>c. UNCHANGED proc /\ (topic' = topic \/ topic' # <<>>) => ConsumerOK'
  BY DEF TypeInv, ConsumerOK
<1>d. Edit => edits' \in 0..MaxEdits
  BY <1>a, BoundAssumption DEF Edit
\* A step of one certificate request.
<1>e. ASSUME NEW c \in Cert, NEW x \in Request, cert' = [cert EXCEPT ![c] = x],
             x.pc # "idle" => x.h \in Hub /\ x.copy \in HubRecord
      PROVE  cert' \in [Cert -> Request] /\ RequestsOK'
  BY <1>a, <1>e DEF RequestsOK, TypeInv
<1>1. ASSUME NEW c \in Cert, NEW h \in Hub, RequestCert(c, h) PROVE TypeInv'
  <2> DEFINE x == [pc |-> "gateway", h |-> h, copy |-> hub[h]]
  <2>1. hub[h] \in HubRecord /\ Edit
    BY <1>1, <1>a DEF RequestCert, Syncable, Edit
  <2>2. x \in Request
    BY <2>1 DEF Request
  <2>3. cert' \in [Cert -> Request] /\ RequestsOK'
    BY <1>1, <2>1, <2>2, <1>e DEF RequestCert
  <2>4. run' \in [Runs -> Run]
    BY <1>1, <1>a, DisturbType DEF RequestCert
  <2> QED BY <1>1, <2>1, <2>3, <2>4, <1>a, <1>b, <1>c, <1>d
          DEF RequestCert, stores, TypeInv, TypeOK
<1>2. ASSUME NEW c \in Cert, GetCert(c) PROVE TypeInv'
  <2>1. /\ cert[c] \in Request /\ cert[c].pc # "idle"
        /\ cert[c].h \in Hub /\ cert[c].copy \in HubRecord
    BY <1>2, <1>a DEF GetCert, TypeInv, RequestsOK
  <2>2. cert' \in [Cert -> Request] /\ RequestsOK'
    <3>1. CASE cert' = [cert EXCEPT ![c] = NoRequest]
      BY <3>1, <1>e, NoRequestType
    <3>2. CASE cert' = [cert EXCEPT ![c].pc = "setHub",
                                    ![c].copy = [@ EXCEPT !.exp = TRUE]]
      <4> DEFINE f == [cert[c].copy EXCEPT !.exp = TRUE]
                 x == [cert[c] EXCEPT !.pc = "setHub", !.copy = f]
      <4>1. cert' = [cert EXCEPT ![c] = x]
        BY <3>2, <1>a
      <4>2. f \in HubRecord
        BY <2>1 DEF HubRecord
      <4> HIDE DEF f
      <4>3. x \in Request /\ x.h \in Hub /\ x.copy \in HubRecord
        BY <2>1, <4>2 DEF Request
      <4> QED BY <4>1, <4>3, <1>e
    <3> QED BY <1>2, <3>1, <3>2 DEF GetCert
  <2> QED BY <1>2, <2>2, <1>a, <1>b, <1>c DEF GetCert, stores, TypeInv, TypeOK
<1>3. ASSUME NEW c \in Cert, AnnotateCert(c) PROVE TypeInv'
  <2>1. /\ cert[c].h \in Hub /\ cert[c].copy \in HubRecord
    BY <1>3 DEF AnnotateCert, TypeInv, RequestsOK
  <2>2. cert' \in [Cert -> Request] /\ RequestsOK'
    BY <1>3, <1>e, NoRequestType DEF AnnotateCert
  <2>3. hub' \in [Hub -> HubRecord \cup {None}] /\ issued' \subseteq Hub
    BY <1>3, <2>1, <1>a DEF AnnotateCert
  <2>4. topic' \in Seq(Message) /\ (topic' = topic \/ topic' # <<>>)
    BY <1>3, <2>1, <1>a, PutType DEF AnnotateCert
  <2> QED BY <1>3, <2>2, <2>3, <2>4, <1>a, <1>b, <1>c DEF AnnotateCert, TypeInv, TypeOK
<1>4. ASSUME NEW c \in Cert, CertError(c) PROVE TypeInv'
  <2>1. cert' \in [Cert -> Request] /\ RequestsOK'
    BY <1>4, <1>e, NoRequestType DEF CertError
  <2> QED BY <1>4, <2>1, <1>a, <1>b, <1>c DEF CertError, stores, TypeInv, TypeOK
<1>5. ASSUME NEW h \in Hub, PutHub(h) PROVE TypeInv'
  <2>1. PICK e \in Eui \cup {None}, n \in {h} \X Name, p \in Place \cup {None},
             ms \in Ms \cup {None} :
          hub' = [hub EXCEPT ![h] =
            IF hub[h] = None
            THEN [eui |-> e, name |-> n, loc |-> Typed(p), age |-> Typed(ms),
                  dup |-> FALSE, exp |-> FALSE, links |-> {}]
            ELSE [hub[h] EXCEPT !.eui = e, !.name = n, !.loc = Typed(p),
                                !.age = Typed(ms)]]
    BY <1>5 DEF PutHub
  <2> DEFINE a == [eui |-> e, name |-> n, loc |-> Typed(p), age |-> Typed(ms),
                   dup |-> FALSE, exp |-> FALSE, links |-> {}]
             b == [hub[h] EXCEPT !.eui = e, !.name = n, !.loc = Typed(p),
                                 !.age = Typed(ms)]
  <2>2. /\ Typed(p) \in [val : Place \cup {None}, web : BOOLEAN]
        /\ Typed(ms) \in [val : Nat \cup {None}, web : BOOLEAN]
        /\ n \in Hub \X Name
    BY BoundAssumption DEF Typed
  <2>3. a \in HubRecord
    BY <2>2 DEF HubRecord
  <2>4. hub[h] # None => b \in HubRecord
    <3> SUFFICES ASSUME hub[h] # None PROVE b \in HubRecord
      OBVIOUS
    <3>1. hub[h] \in HubRecord
      BY <1>a
    <3> QED BY <2>2, <3>1 DEF HubRecord
  <2>7. hub' \in [Hub -> HubRecord \cup {None}]
    <3> HIDE DEF a, b
    <3>1. hub' = [hub EXCEPT ![h] = IF hub[h] = None THEN a ELSE b]
      BY <2>1 DEF a, b
    <3> QED BY <2>3, <2>4, <3>1, <1>a
  <2>5. topic' \in Seq(Message) /\ topic' # <<>>
    BY <1>5, <1>a, PutType DEF PutHub
  <2>6. run' \in [Runs -> Run]
    BY <1>5, <1>a, DisturbType DEF PutHub
  <2> QED BY <1>5, <2>5, <2>6, <2>7, <1>a, <1>b, <1>c, <1>d
          DEF PutHub, TypeInv, TypeOK, RequestsOK
<1>6. ASSUME NEW h \in Hub, DropHub(h) PROVE TypeInv'
  <2>1. hub[h] \in HubRecord
    BY <1>6, <1>a DEF DropHub
  <2>2. [cmd |-> "DELETE", h |-> h, eui |-> hub[h].eui] \in Message
    BY <2>1 DEF HubRecord, Message
  <2>3. topic' \in Seq(Message) /\ topic' # <<>>
    BY <1>6, <2>2, <1>a, AppendProperties DEF DropHub
  <2>4. run' \in [Runs -> Run]
    BY <1>6, <1>a, DisturbType DEF DropHub
  <2>5. hub' \in [Hub -> HubRecord \cup {None}] /\ issued' \subseteq Hub
    BY <1>6, <1>a DEF DropHub
  <2> QED BY <1>6, <2>3, <2>4, <2>5, <1>a, <1>b, <1>c, <1>d
          DEF DropHub, TypeInv, TypeOK, RequestsOK
<1>7. ASSUME NEW e \in Eui, NEW d \in Device, Hear(e, d) PROVE TypeInv'
  <2>1. heard' \in [Eui -> SUBSET Device]
    BY <1>7, <1>a DEF Hear
  <2> QED BY <1>7, <2>1, <1>a, <1>b, <1>c, <1>d DEF Hear, TypeInv, TypeOK, RequestsOK
<1>8. ASSUME Restart PROVE TypeInv'
  <2>1. PICK k \in 1..(Len(topic) + 1) :
          /\ topic' = SubSeq(topic, k, Len(topic))
          /\ run' = BootRuns(k = Len(topic) + 1)
    BY <1>8 DEF Restart
  <2>2. topic' \in Seq(Message)
    <3>1. Len(topic) \in Nat /\ \A i \in k..Len(topic) : topic[i] \in Message
      BY <1>a, ElementOfSeq, LenProperties
    <3> QED BY <2>1, <3>1, SubSeqProperties
  <2>3. run' \in [Runs -> Run]
    BY <2>1, BootRunsType
  <2>4. /\ proc' \in [Goroutine -> Worker] /\ LocalsOK' /\ ConsumerOK'
        /\ cert' \in [Cert -> Request] /\ RequestsOK'
    BY <1>8, IdleType, NoRequestType, GoroutineParts
       DEF Restart, LocalsOK, ConsumerOK, RequestsOK
  <2>5. crashes' \in 0..MaxCrashes
    BY <1>8, <1>a, BoundAssumption DEF Restart
  <2> QED BY <1>8, <2>2, <2>3, <2>4, <2>5, <1>a DEF Restart, TypeInv, TypeOK
<1>9. ASSUME NEW o \in Owner, SetMail(o) PROVE TypeInv'
  <2>1. mail' \in Emails /\ Distinct(mail)'
    BY <1>9 DEF SetMail, TypeInv, TypeOK, Emails
  <2>2. run' \in [Runs -> Run]
    BY <1>9, <1>a, DisturbType DEF SetMail
  <2> QED BY <1>9, <2>1, <2>2, <1>a, <1>b, <1>c, <1>d
          DEF SetMail, stores, TypeInv, TypeOK, RequestsOK
<1> QED BY <1>1, <1>2, <1>3, <1>4, <1>5, <1>6, <1>7, <1>8, <1>9

LEMMA NextType == TypeInv /\ [Next]_vars => TypeInv'
<1> SUFFICES ASSUME TypeInv, [Next]_vars PROVE TypeInv'
  OBVIOUS
<1>1. CASE UNCHANGED vars
  BY <1>1 DEF vars, stores, TypeInv, TypeOK, LocalsOK, LocalOK, ConsumerOK, RequestsOK
<1> QED BY <1>1, WorkType, ConsumeType, RunStepType, EnvType DEF Next

\* The stores and the connector's variables have their types, and a goroutine
\* that works has a hub with an EUI (SyncGateway, HandleHubCommand).
THEOREM TypeCorrect == Spec => []TypeOK
<1>1. Init => TypeInv
  BY InitType
<1>2. TypeInv /\ [Next]_vars => TypeInv'
  BY NextType
<1>3. TypeInv => TypeOK
  BY DEF TypeInv
<1> QED BY <1>1, <1>2, <1>3, PTL DEF Spec

-----------------------------------------------------------------------------
(* What an undisturbed sync does.  While nobody disturbs run r and none of   *)
(* its calls fails, the EUIs of the hubs stay, gateways that have a hub      *)
(* stay with their tenants, and what its goroutines have read stays true.   *)

Good(r) == run[r].quiet /\ ~run[r].failed

PutMessage == [cmd : {"PUT"}, h : Hub]

\* Nobody else is at work, apart from the consumer of what SyncGateway writes.
Undisturbed(r) ==
  /\ \A s \in Runs \ {r} : run[s].pc \in {"off", "done"}
  /\ topic \in Seq(PutMessage)
  /\ proc[Consumer].pc # "delete"
  /\ \A c \in Cert : cert[c].pc = "idle"

\* What a goroutine with variables p has read is still true.
CopyOK(r, p) ==
  p.pc \in Busy =>
    /\ hub[p.h] # None /\ hub[p.h].eui = p.copy.eui
    /\ p.pc \in {"link", "setHub", "write"} /\ p.old # None
         => HasGateway(p.copy.eui, p.h)
    /\ p.pc \in {"link", "setHub", "write"} =>
         Tenant(p.h) # None /\ p.new.tenant = Tenant(p.h)
    /\ p.pc = "setHub" => p.old # None
    /\ p.pc = "duplicate" => gw[p.copy.eui] # None \/ p.copy.eui \in run[r].swept
    /\ p.copy.dup => hub[p.h].dup \/ HasGateway(p.copy.eui, p.h)
CopiesOK(r) == \A g \in Goroutine : CopyOK(r, proc[g])

Served(r, h) ==
  LET e == hub[h].eui IN
  Tenant(h) # None => HasGateway(e, h) \/ (hub[h].dup /\ (gw[e] # None \/ e \in run[r].swept))

\* What the run has achieved when it is at a statement.
PhaseOK(r) ==
  /\ \A e \in run[r].doomed : gw[e] # None /\ ~Matched(e)
  /\ run[r].pc = "syncing" =>
       \A h \in Hub : Syncable(h) => Served(r, h) \/ proc[<<r, h>>].pc # "idle"
  /\ run[r].pc \in {"listHubs", "listGateways", "deleting", "done"} =>
       \A h \in Hub : Syncable(h) => Served(r, h)
  /\ run[r].pc = "listGateways" =>
       run[r].known = {<<hub[h].eui, OwnerOf[h]>> : h \in {x \in Hub : Syncable(x)}}
  /\ run[r].pc = "deleting" =>
       \A e \in Eui : gw[e] # None /\ e \notin run[r].doomed => Matched(e)
  /\ run[r].pc = "done" => \A e \in Eui : gw[e] # None => Matched(e)

RunInv(r) == Undisturbed(r) /\ CopiesOK(r) /\ PhaseOK(r)
SyncInv == \A r \in Runs : Good(r) => RunInv(r)

\* What every step that does not disturb run r leaves as it is.
Keep(r) ==
  /\ \A h \in Hub : hub[h] = None <=> hub'[h] = None
  /\ \A h \in Hub : hub[h] # None => hub'[h].eui = hub[h].eui
  /\ \A h \in Hub : hub[h] # None /\ hub[h].dup =>
       hub'[h].dup \/ HasGateway(hub[h].eui, h)
  /\ \A e \in Eui : gw[e] # None =>
       \/ gw'[e] # None /\ gw'[e].tenant = gw[e].tenant
       \/ gw'[e] = None /\ e \in run[r].doomed /\ e \in run'[r].swept
  /\ \A e \in Eui : gw[e] = None /\ gw'[e] # None =>
       \E h \in Hub : Syncable(h) /\ hub[h].eui = e /\ gw'[e].tenant = Tenant(h)
  /\ mail' = mail /\ run[r].swept \subseteq run'[r].swept

LEMMA KeepFacts ==
  ASSUME TypeInv, NEW r \in Runs, PhaseOK(r), Keep(r)
  PROVE  /\ \A h \in Hub : Syncable(h)' <=> Syncable(h)
         /\ \A h \in Hub, e \in Eui :
              Syncable(h) /\ hub[h].eui = e /\ HasGateway(e, h) => HasGateway(e, h)'
         /\ \A e \in Eui : gw[e] # None /\ Matched(e) => gw'[e] # None /\ Matched(e)'
         /\ \A e \in Eui : gw[e] # None /\ gw'[e] # None /\ Matched(e)' => Matched(e)
         /\ \A e \in Eui : gw[e] = None /\ gw'[e] # None => Matched(e)'
         /\ \A h \in Hub : Syncable(h) /\ Served(r, h) => Served(r, h)'
<1>0. \A h \in Hub : Tenant(h)' = Tenant(h)
  BY DEF Keep, Tenant
<1>1. \A h \in Hub : Syncable(h)' <=> Syncable(h)
  BY DEF Keep, Syncable
<1>2. \A e \in Eui : e \in run[r].doomed => ~Matched(e)
  BY DEF PhaseOK
<1>3. ASSUME NEW e \in Eui, gw[e] # None, Matched(e)
      PROVE  gw'[e] # None /\ gw'[e].tenant = gw[e].tenant /\ Matched(e)'
  <2>1. gw'[e] # None /\ gw'[e].tenant = gw[e].tenant
    BY <1>2, <1>3 DEF Keep
  <2>2. PICK h \in Hub : Syncable(h) /\ hub[h].eui = e /\ Tenant(h) = gw[e].tenant
    BY <1>3 DEF Matched
  <2>3. Syncable(h)' /\ hub'[h].eui = e
    BY <1>1, <2>2 DEF Keep, Syncable
  <2> QED BY <1>0, <2>1, <2>2, <2>3 DEF Matched
<1>4. ASSUME NEW h \in Hub, NEW e \in Eui,
             Syncable(h), hub[h].eui = e, HasGateway(e, h)
      PROVE  HasGateway(e, h)'
  <2>1. gw[e] # None /\ Matched(e)
    BY <1>4 DEF HasGateway, Matched
  <2> QED BY <1>0, <1>3, <1>4, <2>1 DEF HasGateway
<1>5. ASSUME NEW e \in Eui, gw[e] # None, gw'[e] # None, Matched(e)'
      PROVE  Matched(e)
  <2>1. gw'[e].tenant = gw[e].tenant
    BY <1>5 DEF Keep
  <2>2. PICK h \in Hub : Syncable(h)' /\ hub'[h].eui = e /\ Tenant(h) = gw'[e].tenant
    BY <1>0, <1>5 DEF Matched
  <2>3. Syncable(h) /\ hub[h].eui = e
    BY <1>1, <2>2 DEF Keep, Syncable
  <2> QED BY <2>1, <2>2, <2>3 DEF Matched
<1>6. ASSUME NEW e \in Eui, gw[e] = None, gw'[e] # None
      PROVE  Matched(e)'
  <2>1. PICK h \in Hub : Syncable(h) /\ hub[h].eui = e /\ gw'[e].tenant = Tenant(h)
    BY <1>6 DEF Keep
  <2>2. Syncable(h)' /\ hub'[h].eui = e
    BY <1>1, <2>1 DEF Keep, Syncable
  <2> QED BY <1>0, <2>1, <2>2 DEF Matched
<1>7. ASSUME NEW h \in Hub, Syncable(h), Served(r, h)
      PROVE  Served(r, h)'
  <2> DEFINE e == hub[h].eui
  <2>1. e \in Eui /\ hub'[h].eui = e /\ hub[h] # None
    BY <1>7 DEF Syncable, Keep, TypeInv, TypeOK, HubRecord
  <2>2. CASE Tenant(h) = None
    BY <1>0, <2>2 DEF Served
  <2>3. CASE HasGateway(e, h)
    BY <1>4, <1>7, <2>1, <2>3 DEF Served
  <2>4. CASE Tenant(h) # None /\ ~HasGateway(e, h)
    <3>1. hub[h].dup /\ (gw[e] # None \/ e \in run[r].swept)
      BY <1>7, <2>4 DEF Served
    <3>2. hub'[h].dup
      BY <2>1, <2>4, <3>1 DEF Keep
    <3>3. gw'[e] # None \/ e \in run'[r].swept
      BY <2>1, <3>1 DEF Keep
    <3> QED BY <2>1, <3>2, <3>3 DEF Served
  <2> QED BY <2>2, <2>3, <2>4
<1> QED BY <1>1, <1>3, <1>4, <1>5, <1>6, <1>7

\* ... and with it what any goroutine holds stays true.
LEMMA CopyKept ==
  ASSUME TypeInv, NEW r \in Runs, PhaseOK(r), Keep(r),
         NEW g \in Goroutine, NEW p \in Worker, LocalOK(g, p), CopyOK(r, p)
  PROVE  CopyOK(r, p)'
<1> SUFFICES ASSUME p.pc \in Busy PROVE CopyOK(r, p)'
  BY DEF CopyOK
<1> DEFINE h == p.h
           e == p.copy.eui
<1>1. h \in Hub /\ e \in Eui /\ hub[h] # None /\ hub[h].eui = e /\ Syncable(h)
  BY DEF LocalOK, CopyOK, Syncable
<1>2. hub'[h] # None /\ hub'[h].eui = e
  BY <1>1 DEF Keep
<1>3. HasGateway(e, h) => HasGateway(e, h)'
  BY <1>1, KeepFacts
<1>4. gw[e] # None \/ e \in run[r].swept => gw'[e] # None \/ e \in run'[r].swept
  BY <1>1 DEF Keep
<1>5. hub[h].dup => hub'[h].dup \/ HasGateway(e, h)
  BY <1>1 DEF Keep
<1>6. Tenant(h)' = Tenant(h)
  BY DEF Keep, Tenant
<1> QED BY <1>1, <1>2, <1>3, <1>4, <1>5, <1>6 DEF CopyOK

\* A goroutine of a good run has not failed.
LEMMA ReturnFacts ==
  ASSUME TypeInv, NEW g \in Goroutine, NEW ok \in BOOLEAN, Return(g, ok),
         NEW r \in Runs, Good(r)'
  PROVE  /\ run'[r] = run[r] /\ \A s \in Runs : run'[s].pc = run[s].pc
         /\ proc'[g] = Idle /\ \A f \in Goroutine \ {g} : proc'[f] = proc[f]
         /\ g # Consumer /\ g[1] = r => ok
<1>1. proc'[g] = Idle /\ \A f \in Goroutine \ {g} : proc'[f] = proc[f]
  BY DEF Return, TypeInv, TypeOK
<1>2. CASE g = Consumer \/ ok
  BY <1>1, <1>2 DEF Return
<1>3. CASE ~(g = Consumer \/ ok)
  <2>1. PICK s \in Runs : s = g[1] /\ run' = [run EXCEPT ![s].failed = TRUE]
    BY <1>3, GoroutineParts DEF Return
  <2>2. run \in [Runs -> Run]
    BY DEF TypeInv, TypeOK
  <2>3. run'[s].failed /\ \A t \in Runs \ {s} : run'[t] = run[t]
    BY <2>1, <2>2 DEF Run
  <2>4. r # s
    BY <2>3 DEF Good
  <2>5. \A t \in Runs : run'[t].pc = run[t].pc
    BY <2>1, <2>2 DEF Run
  <2> QED BY <1>1, <2>1, <2>3, <2>4, <2>5
<1> QED BY <1>2, <1>3

\* The messages of a run that nobody disturbs.
LEMMA PutFacts ==
  /\ \A q \in Seq(PutMessage), h \in Hub :
       /\ Append(q, [cmd |-> "PUT", h |-> h]) \in Seq(PutMessage)
       /\ Append(q, [cmd |-> "PUT", h |-> h]) # <<>>
  /\ \A q \in Seq(PutMessage) : q # <<>> =>
       Head(q) \in PutMessage /\ Tail(q) \in Seq(PutMessage)
<1>1. ASSUME NEW q \in Seq(PutMessage), NEW h \in Hub
      PROVE  /\ Append(q, [cmd |-> "PUT", h |-> h]) \in Seq(PutMessage)
             /\ Append(q, [cmd |-> "PUT", h |-> h]) # <<>>
  <2>1. [cmd |-> "PUT", h |-> h] \in PutMessage
    BY DEF PutMessage
  <2> QED BY <2>1, AppendProperties
<1> QED BY <1>1, HeadTailProperties

LEMMA HandledFacts ==
  ASSUME TypeInv, NEW r \in Runs, Undisturbed(r),
         NEW g \in Goroutine, proc[g].pc # "idle"
  PROVE  /\ Handled(g, topic) \in Seq(PutMessage)
         /\ \A h \in Hub : Put(h) \in Seq(PutMessage)
                           /\ Handled(g, Put(h)) \in Seq(PutMessage)
<1>1. topic \in Seq(PutMessage) /\ (g = Consumer => topic # <<>>)
  BY DEF Undisturbed, TypeInv, ConsumerOK
<1> QED BY <1>1, PutFacts DEF Handled, Put

\* What a goroutine does in a run that nobody disturbs.
WorkFacts(r, g) ==
  /\ Keep(r) /\ run'[r] = run[r] /\ \A s \in Runs : run'[s].pc = run[s].pc
  /\ \A f \in Goroutine \ {g} : proc'[f] = proc[f]
  /\ proc'[g].pc # "delete" /\ CopyOK(r, proc[g])'
  /\ proc'[g].pc = "idle" /\ g # Consumer /\ g[1] = r => Served(r, g[2])'
  /\ topic' \in Seq(PutMessage) /\ UNCHANGED cert
  /\ \A e \in Eui : gw[e] # None => gw'[e] # None

LEMMA IdleCopy == ASSUME NEW r \in Runs PROVE CopyOK(r, Idle)'
BY IdleType DEF CopyOK, Busy

\* A step of g that changes neither store keeps the run's facts.
LEMMA SameKeeps ==
  ASSUME NEW r \in Runs, UNCHANGED <<hub, gw, mail>>, run'[r].swept = run[r].swept
  PROVE  Keep(r)
BY DEF Keep

LEMMA WorkStep ==
  ASSUME TypeInv, NEW r \in Runs, RunInv(r), Good(r)',
         NEW g \in Goroutine, Work(g)
  PROVE  WorkFacts(r, g)
<1>p. PICK p \in Worker : p = proc[g]
  BY DEF TypeInv, TypeOK
<1> USE <1>p
<1> DEFINE h == p.h
           e == p.copy.eui
<1>a. /\ p \in Worker /\ LocalOK(g, p) /\ CopyOK(r, p)
      /\ hub \in [Hub -> HubRecord \cup {None}]
      /\ gw \in [Eui -> Gateway \cup {None}] /\ proc \in [Goroutine -> Worker]
      /\ PhaseOK(r) /\ Undisturbed(r) /\ topic \in Seq(PutMessage)
  BY DEF TypeInv, TypeOK, LocalsOK, RunInv, CopiesOK, Undisturbed
<1>b. p.pc \in Busy =>
        /\ h \in Hub /\ e \in Eui /\ p.copy \in HubRecord
        /\ hub[h] # None /\ hub[h].eui = e /\ Syncable(h)
        /\ g # Consumer => h = g[2]
        /\ p.old \in Gateway \cup {None} /\ gw[e] \in Gateway \cup {None}
  BY <1>a DEF LocalOK, CopyOK, Syncable, Worker
<1>c. TypeInv'
  BY WorkType
<1>d. proc'[g] \in Worker /\ LocalOK(g, proc'[g])
  BY <1>c DEF TypeInv, TypeOK, LocalsOK, LocalOK
\* A handler that returns and leaves hubs and gateways alone.
<1>e. ASSUME NEW ok \in BOOLEAN, Stop(g, ok), p.pc # "idle", UNCHANGED <<hub, gw, mail, cert>>,
             ok => p.pc \in Busy /\ Served(r, h)
      PROVE  WorkFacts(r, g)
  <2>1. /\ run'[r] = run[r] /\ \A s \in Runs : run'[s].pc = run[s].pc
        /\ proc'[g] = Idle /\ \A f \in Goroutine \ {g} : proc'[f] = proc[f]
        /\ g # Consumer /\ g[1] = r => ok
    BY <1>e, ReturnFacts DEF Stop
  <2>2. Keep(r)
    BY <1>e, <2>1, SameKeeps
  <2>3. topic' \in Seq(PutMessage)
    BY <1>a, <1>e, HandledFacts DEF Stop
  <2>4. ok => Served(r, h)'
    BY <1>a, <1>b, <1>e, <2>2, KeepFacts
  <2> QED BY <1>b, <1>e, <2>1, <2>2, <2>3, <2>4, IdleType, IdleCopy DEF WorkFacts, Served, CopyOK
\* A handler that goes on and leaves both stores and the topic alone.
<1>f. ASSUME NEW q \in Worker, proc' = [proc EXCEPT ![g] = q], q.pc \in Busy,
             CopyOK(r, q), UNCHANGED <<hub, gw, mail, run, topic, cert>>
      PROVE  WorkFacts(r, g)
  <2>1. proc'[g] = q /\ \A f \in Goroutine \ {g} : proc'[f] = proc[f]
    BY <1>a, <1>f
  <2>2. Keep(r)
    BY <1>f, SameKeeps
  <2>3. CopyOK(r, q)'
    BY <1>a, <1>d, <1>f, <2>1, <2>2, CopyKept
  <2> QED BY <1>a, <1>f, <2>1, <2>2, <2>3 DEF WorkFacts, CopyOK, Busy
<1>1. CASE GetGateway(g)
  <2>1. p.pc = "get" /\ p.pc \in Busy /\ UNCHANGED <<hub, gw, mail, cert>>
    BY <1>1 DEF GetGateway, Busy
  <2>2. CASE Tenant(h) = None /\ Stop(g, TRUE)
    BY <1>e, <2>1, <2>2 DEF Served
  <2>3. CASE /\ gw[e] # None /\ UNCHANGED <<topic, run>>
             /\ proc' = [proc EXCEPT ![g].pc = "duplicate"]
    <3> DEFINE q == [p EXCEPT !.pc = "duplicate"]
    <3>1. proc' = [proc EXCEPT ![g] = q]
      BY <2>3, <1>a
    <3>2. q \in Worker /\ q.pc = "duplicate" /\ q.h = h /\ q.copy = p.copy
      BY <1>a DEF Worker
    <3> HIDE DEF q
    <3>3. CopyOK(r, q) /\ q.pc \in Busy
      BY <2>1, <2>3, <3>2, <1>a, <1>b DEF CopyOK, Busy
    <3> QED BY <1>f, <2>1, <2>3, <3>1, <3>2, <3>3
  <2> DEFINE new == Prepared(gw[e], p.copy, Tenant(h))
  <2>4. CASE /\ Tenant(h) # None /\ (gw[e] # None => gw[e].tenant = Tenant(h))
             /\ UNCHANGED <<topic, run>>
             /\ proc' = [proc EXCEPT ![g].pc = "link", ![g].old = gw[e],
                                     ![g].new = new]
    <3> DEFINE q == [p EXCEPT !.pc = "link", !.old = gw[e], !.new = new]
    <3>1. proc' = [proc EXCEPT ![g] = q]
      BY <2>4, <1>a
    <3>2. new \in Gateway /\ new.tenant = Tenant(h)
      <4>1. Tenant(h) \in Email
        BY <2>1, <2>4, <1>b DEF Tenant, TypeInv, TypeOK, Emails
      <4> QED BY <2>1, <1>b, <4>1, PreparedType
    <3> HIDE DEF new
    <3>3. /\ q \in Worker /\ q.pc = "link" /\ q.h = h /\ q.copy = p.copy
          /\ q.old = gw[e] /\ q.new = new
      BY <2>1, <3>2, <1>a, <1>b DEF Worker
    <3> HIDE DEF q
    <3>4. CopyOK(r, q) /\ q.pc \in Busy
      BY <2>1, <2>4, <3>2, <3>3, <1>a, <1>b DEF CopyOK, Busy, HasGateway
    <3> QED BY <1>f, <2>1, <2>4, <3>1, <3>3, <3>4
  <2> QED BY <1>1, <2>2, <2>3, <2>4 DEF GetGateway
<1>2. CASE MarkDuplicate(g)
  <2>1. p.pc = "duplicate" /\ p.pc \in Busy /\ p.pc # "idle"
    BY <1>2 DEF MarkDuplicate, Busy
  <2>2. /\ gw[e] # None \/ e \in run[r].swept
        /\ p.copy.dup => hub[h].dup \/ HasGateway(e, h)
    BY <2>1, <1>a DEF CopyOK
  <2>3. CASE p.copy.dup /\ Stop(g, TRUE) /\ UNCHANGED hub
    <3>1. Served(r, h)
      BY <2>1, <2>2, <2>3, <1>b DEF Served
    <3> QED BY <1>2, <1>e, <2>1, <2>3, <3>1 DEF MarkDuplicate
  <2>4. CASE /\ hub' = [hub EXCEPT ![h] = [p.copy EXCEPT !.dup = TRUE]]
             /\ \E ok \in BOOLEAN : Return(g, ok)
             /\ topic' = Handled(g, Put(h))
    <3> DEFINE new == [p.copy EXCEPT !.dup = TRUE]
    <3>1. new \in HubRecord /\ new.eui = e /\ new.dup
      BY <2>1, <1>b DEF HubRecord
    <3> HIDE DEF new
    <3>2. hub'[h] = new /\ \A x \in Hub \ {h} : hub'[x] = hub[x]
      BY <2>1, <2>4, <1>a, <1>b DEF new
    <3>3. PICK ok \in BOOLEAN : Return(g, ok)
      BY <2>4
    <3>4. /\ run'[r] = run[r] /\ \A s \in Runs : run'[s].pc = run[s].pc
          /\ proc'[g] = Idle /\ \A f \in Goroutine \ {g} : proc'[f] = proc[f]
      BY <3>3, ReturnFacts
    <3>5. UNCHANGED <<gw, mail, cert>>
      BY <1>2 DEF MarkDuplicate
    <3>6. Keep(r)
      BY <2>1, <3>1, <3>2, <3>4, <3>5, <1>b, NoneAssumption DEF Keep
    <3>7. Served(r, h)'
      BY <2>2, <3>1, <3>2, <3>4, <3>5 DEF Served
    <3>8. topic' \in Seq(PutMessage)
      BY <2>1, <2>4, <1>a, <1>b, HandledFacts
    <3> QED BY <2>1, <3>4, <3>5, <3>6, <3>7, <3>8, <1>b, IdleType, IdleCopy DEF WorkFacts, Served, CopyOK
  <2> QED BY <1>2, <1>b, <2>1, <2>3, <2>4 DEF MarkDuplicate
<1>3. CASE Link(g)
  <2>1. p.pc = "link" /\ p.pc \in Busy
    BY <1>3 DEF Link, Busy
  <2>2. /\ p.old # None => HasGateway(e, h)
        /\ Tenant(h) # None /\ p.new.tenant = Tenant(h)
        /\ p.copy.dup => hub[h].dup \/ HasGateway(e, h)
    BY <2>1, <1>a DEF CopyOK
  <2>3. p.new \in Gateway /\ UNCHANGED <<hub, gw, mail, run, topic, cert>>
    BY <1>3, <1>a DEF Link, LocalOK, stores
  <2>4. CASE p.old = None /\ proc' = [proc EXCEPT ![g].pc = "write"]
    <3> DEFINE q == [p EXCEPT !.pc = "write"]
    <3>1. proc' = [proc EXCEPT ![g] = q]
      BY <2>4, <1>a
    <3>2. /\ q \in Worker /\ q.pc = "write" /\ q.h = h /\ q.copy = p.copy
          /\ q.old = None /\ q.new = p.new
      BY <2>4, <1>a DEF Worker
    <3> HIDE DEF q
    <3>3. CopyOK(r, q) /\ q.pc \in Busy
      BY <2>1, <2>2, <3>2, <1>a, <1>b DEF CopyOK, Busy
    <3> QED BY <1>f, <2>3, <3>1, <3>2, <3>3
  <2>5. ASSUME p.old # None, NEW links \in SUBSET Device, NEW pc \in {"write", "setHub"},
               proc' = [proc EXCEPT ![g].copy = Linked(p.old, p.new, p.copy, links),
                                    ![g].pc = pc]
        PROVE  WorkFacts(r, g)
    <3> DEFINE f == Linked(p.old, p.new, p.copy, links)
               q == [p EXCEPT !.copy = f, !.pc = pc]
    <3>1. proc' = [proc EXCEPT ![g] = q]
      BY <2>5, <1>a
    <3>2. f \in HubRecord /\ f.eui = e /\ f.dup = p.copy.dup
      BY <2>1, <2>3, <2>5, <1>b, FilledType
    <3> HIDE DEF f
    <3>3. /\ q \in Worker /\ q.pc = pc /\ q.h = h /\ q.copy = f /\ q.old = p.old
          /\ q.new = p.new
      BY <3>2, <1>a DEF Worker
    <3> HIDE DEF q
    <3>4. CopyOK(r, q) /\ q.pc \in Busy
      BY <2>1, <2>2, <2>5, <3>2, <3>3, <1>a, <1>b DEF CopyOK, Busy
    <3> QED BY <1>f, <2>3, <3>1, <3>3, <3>4
  <2>6. \A x \in Eui : Scanned(x) \subseteq SUBSET Device
    BY DEF Scanned, TypeInv, TypeOK
  <2> QED BY <1>3, <2>1, <1>b, <2>4, <2>5, <2>6 DEF Link, Linked
<1>4. CASE SetHub(g)
  <2>1. p.pc = "setHub" /\ p.pc \in Busy /\ p.pc # "idle"
    BY <1>4 DEF SetHub, Busy
  <2>2. /\ p.old # None /\ HasGateway(e, h)
        /\ Tenant(h) # None /\ p.new.tenant = Tenant(h)
    BY <2>1, <1>a DEF CopyOK, Busy
  <2>3. /\ hub' = [hub EXCEPT ![h] = p.copy] /\ UNCHANGED <<gw, mail, cert>>
        /\ \/ Return(g, FALSE) /\ topic' = Handled(g, Put(h))
           \/ /\ proc' = [proc EXCEPT ![g].pc = "write"]
              /\ topic' = Put(h) /\ UNCHANGED run
    BY <1>4, <2>1, <1>b DEF SetHub
  <2>4. hub'[h] = p.copy /\ \A x \in Hub \ {h} : hub'[x] = hub[x]
    BY <2>1, <2>3, <1>a, <1>b
  <2>5. run'[r] = run[r] => Keep(r)
    BY <2>1, <2>2, <2>3, <2>4, <1>b, NoneAssumption DEF Keep
  <2>6. CASE Return(g, FALSE) /\ topic' = Handled(g, Put(h))
    <3>1. /\ run'[r] = run[r] /\ \A s \in Runs : run'[s].pc = run[s].pc
          /\ proc'[g] = Idle /\ \A f \in Goroutine \ {g} : proc'[f] = proc[f]
          /\ ~(g # Consumer /\ g[1] = r)
      BY <2>6, ReturnFacts
    <3>2. topic' \in Seq(PutMessage)
      BY <2>1, <2>6, <1>a, <1>b, HandledFacts
    <3> QED BY <2>3, <2>5, <3>1, <3>2, IdleType, IdleCopy DEF WorkFacts, Served, CopyOK
  <2>7. CASE /\ proc' = [proc EXCEPT ![g].pc = "write"]
             /\ topic' = Put(h) /\ UNCHANGED run
    <3> DEFINE q == [p EXCEPT !.pc = "write"]
    <3>1. proc'[g] = q /\ \A f \in Goroutine \ {g} : proc'[f] = proc[f]
      BY <2>7, <1>a
    <3>2. /\ q \in Worker /\ q.pc = "write" /\ q.h = h /\ q.copy = p.copy
          /\ q.old = p.old /\ q.new = p.new
      BY <1>a DEF Worker
    <3> HIDE DEF q
    <3>3. CopyOK(r, q)
      BY <2>1, <2>2, <3>2, <1>a, <1>b DEF CopyOK, Busy
    <3>4. Keep(r)
      BY <2>5, <2>7
    <3>5. CopyOK(r, q)'
      BY <1>a, <1>d, <3>1, <3>2, <3>3, <3>4, CopyKept
    <3>6. topic' \in Seq(PutMessage)
      BY <2>1, <2>7, <1>a, <1>b, HandledFacts
    <3> QED BY <2>3, <2>7, <3>1, <3>2, <3>4, <3>5, <3>6 DEF WorkFacts, Served, CopyOK
  <2> QED BY <2>3, <2>6, <2>7
<1>5. CASE CreateGateway(g)
  <2>1. /\ p.pc = "write" /\ p.pc \in Busy /\ p.pc # "idle"
        /\ p.new \in Gateway /\ p.new.tenant = Tenant(h)
    BY <1>5, <1>a DEF CreateGateway, Busy, LocalOK, CopyOK
  <2>2. CASE UNCHANGED gw /\ Stop(g, FALSE)
    BY <1>5, <1>e, <2>1, <2>2 DEF CreateGateway
  <2>3. CASE /\ gw[e] = None /\ gw' = [gw EXCEPT ![e] = p.new]
             /\ \E ok \in BOOLEAN : Stop(g, ok)
    <3>1. gw'[e] = p.new /\ \A x \in Eui \ {e} : gw'[x] = gw[x]
      BY <2>1, <2>3, <1>a, <1>b
    <3>2. /\ run'[r] = run[r] /\ \A s \in Runs : run'[s].pc = run[s].pc
          /\ proc'[g] = Idle /\ \A f \in Goroutine \ {g} : proc'[f] = proc[f]
      BY <2>3, ReturnFacts DEF Stop
    <3>3. UNCHANGED <<hub, mail, cert>>
      BY <1>5 DEF CreateGateway
    <3>4. Keep(r)
      BY <2>1, <2>3, <3>1, <3>2, <3>3, <1>b DEF Keep
    <3>5. Served(r, h)'
      BY <2>1, <3>1, <3>3, <1>b, NoneAssumption DEF Served, HasGateway, Tenant
    <3>6. topic' \in Seq(PutMessage)
      BY <2>1, <2>3, <1>a, HandledFacts DEF Stop
    <3>7. \A x \in Eui : gw[x] # None => gw'[x] # None
      BY <2>1, <3>1, NoneAssumption
    <3> QED BY <2>1, <3>2, <3>3, <3>4, <3>5, <3>6, <3>7, <1>b, IdleType, IdleCopy
            DEF WorkFacts, Served, CopyOK
  <2> QED BY <1>5, <2>2, <2>3 DEF CreateGateway
<1>6. CASE UpdateGateway(g)
  <2>1. /\ p.pc = "write" /\ p.pc \in Busy /\ p.pc # "idle" /\ p.old # None
        /\ p.new \in Gateway /\ p.new.tenant = Tenant(h)
    BY <1>6, <1>a DEF UpdateGateway, Busy, LocalOK, CopyOK
  <2>2. HasGateway(e, h) /\ gw[e] # None /\ gw[e].tenant = Tenant(h)
    BY <2>1, <1>a DEF CopyOK, HasGateway
  <2>3. CASE UNCHANGED gw /\ \E ok \in BOOLEAN : Stop(g, ok)
    <3>1. Served(r, h)
      BY <2>1, <2>2, <1>b DEF Served
    <3> QED BY <1>6, <1>e, <2>1, <2>3, <3>1 DEF UpdateGateway
  <2>4. ASSUME NEW t \in {gw[e].tenant, p.new.tenant},
               gw' = [gw EXCEPT ![e] = [p.new EXCEPT !.tenant = t]],
               NEW ok \in BOOLEAN, Stop(g, ok)
        PROVE  WorkFacts(r, g)
    <3>1. /\ gw'[e] = [p.new EXCEPT !.tenant = t]
          /\ \A x \in Eui \ {e} : gw'[x] = gw[x]
      BY <2>1, <2>4, <1>a, <1>b
    <3>2. [p.new EXCEPT !.tenant = t].tenant = Tenant(h)
      BY <2>1, <2>2, <2>4 DEF Gateway
    <3>3. [p.new EXCEPT !.tenant = t] \in Gateway
      BY <2>1, <2>2, <2>4, <1>b DEF Gateway
    <3>4. gw'[e] # None /\ gw'[e].tenant = Tenant(h)
      BY <3>1, <3>2, <3>3, NoneAssumption
    <3>5. /\ run'[r] = run[r] /\ \A s \in Runs : run'[s].pc = run[s].pc
          /\ proc'[g] = Idle /\ \A f \in Goroutine \ {g} : proc'[f] = proc[f]
      BY <2>4, ReturnFacts DEF Stop
    <3>6. UNCHANGED <<hub, mail, cert>>
      BY <1>6 DEF UpdateGateway
    <3>7. Keep(r)
      <4>1. \A x \in Eui : gw[x] # None => gw'[x] # None /\ gw'[x].tenant = gw[x].tenant
        BY <2>2, <3>1, <3>4
      <4>2. \A x \in Eui : ~(gw[x] = None /\ gw'[x] # None)
        BY <2>2, <3>1
      <4>3. hub' = hub /\ mail' = mail /\ run'[r] = run[r]
        BY <3>5, <3>6
      <4> QED BY <4>1, <4>2, <4>3 DEF Keep
    <3>8. Served(r, h)'
      BY <2>1, <3>4, <3>6, <1>b DEF Served, HasGateway, Tenant
    <3>9. topic' \in Seq(PutMessage)
      BY <2>1, <2>4, <1>a, HandledFacts DEF Stop
    <3>10. \A x \in Eui : gw[x] # None => gw'[x] # None
      BY <3>1, <3>4
    <3> QED BY <2>1, <3>5, <3>6, <3>7, <3>8, <3>9, <3>10, <1>b, IdleType, IdleCopy
            DEF WorkFacts, Served, CopyOK
  <2> QED BY <1>6, <2>2, <2>3, <2>4 DEF UpdateGateway
<1>7. CASE CallError(g)
  BY <1>7, <1>e DEF CallError
<1> QED BY <1>1, <1>2, <1>3, <1>4, <1>5, <1>6, <1>7 DEF Work

\* While the run stays where it is and no gateway is deleted, it keeps what it
\* has achieved.
LEMMA PhaseKept ==
  ASSUME TypeInv, NEW r \in Runs, PhaseOK(r), Keep(r), run'[r] = run[r],
         \A e \in Eui : gw[e] # None => gw'[e] # None,
         \A h \in Hub : Syncable(h) /\ proc[<<r, h>>].pc # "idle" =>
           Served(r, h)' \/ proc'[<<r, h>>].pc # "idle"
  PROVE  PhaseOK(r)'
<1>a. run[r] \in Run
  BY DEF TypeInv, TypeOK
<1>b. \A h \in Hub : /\ Syncable(h)' <=> Syncable(h)
                     /\ Syncable(h) => hub'[h].eui = hub[h].eui
  BY KeepFacts DEF Keep, Syncable
<1>1. ASSUME NEW e \in run'[r].doomed PROVE gw'[e] # None /\ ~Matched(e)'
  <2>1. e \in Eui /\ e \in run[r].doomed
    BY <1>1, <1>a DEF Run
  <2> QED BY <2>1, KeepFacts DEF PhaseOK
<1>2. ASSUME run'[r].pc = "syncing", NEW h \in Hub, Syncable(h)'
      PROVE  Served(r, h)' \/ proc'[<<r, h>>].pc # "idle"
  <2>1. Syncable(h) /\ (Served(r, h) \/ proc[<<r, h>>].pc # "idle")
    BY <1>2, <1>b DEF PhaseOK
  <2> QED BY <2>1, KeepFacts
<1>3. ASSUME run'[r].pc \in {"listHubs", "listGateways", "deleting", "done"},
             NEW h \in Hub, Syncable(h)'
      PROVE  Served(r, h)'
  <2>1. Syncable(h) /\ Served(r, h)
    BY <1>3, <1>b DEF PhaseOK
  <2> QED BY <2>1, KeepFacts
<1>4. ASSUME run'[r].pc = "listGateways"
      PROVE  run'[r].known =
               {<<hub'[h].eui, OwnerOf[h]>> : h \in {x \in Hub : Syncable(x)'}}
  <2>1. run[r].known = {<<hub[h].eui, OwnerOf[h]>> : h \in {x \in Hub : Syncable(x)}}
    BY <1>4 DEF PhaseOK
  <2>2. {x \in Hub : Syncable(x)'} = {x \in Hub : Syncable(x)}
    BY <1>b
  <2>3. {<<hub'[h].eui, OwnerOf[h]>> : h \in {x \in Hub : Syncable(x)'}}
          = {<<hub[h].eui, OwnerOf[h]>> : h \in {x \in Hub : Syncable(x)}}
    BY <1>b, <2>2
  <2> QED BY <2>1, <2>3
<1>5. ASSUME run'[r].pc = "deleting", NEW e \in Eui, gw'[e] # None,
             e \notin run'[r].doomed
      PROVE  Matched(e)'
  <2>1. gw[e] # None => Matched(e)
    BY <1>5 DEF PhaseOK
  <2> QED BY <1>5, <2>1, KeepFacts
<1>6. ASSUME run'[r].pc = "done", NEW e \in Eui, gw'[e] # None
      PROVE  Matched(e)'
  <2>1. gw[e] # None => Matched(e)
    BY <1>6 DEF PhaseOK
  <2> QED BY <1>6, <2>1, KeepFacts
<1> QED BY <1>1, <1>2, <1>3, <1>4, <1>5, <1>6 DEF PhaseOK

\* The copies of the goroutines that do not move.
LEMMA OthersKept ==
  ASSUME TypeInv, NEW r \in Runs, PhaseOK(r), Keep(r), CopiesOK(r),
         NEW f \in Goroutine, proc'[f] = proc[f]
  PROVE  CopyOK(r, proc[f])'
<1>1. PICK p \in Worker : p = proc[f]
  BY DEF TypeInv, TypeOK
<1>2. LocalOK(f, p) /\ CopyOK(r, p)
  BY <1>1 DEF TypeInv, LocalsOK, CopiesOK
<1>3. CopyOK(r, p)'
  BY <1>2, CopyKept
<1> QED BY <1>1, <1>3 DEF CopyOK

LEMMA WorkKeepsRun ==
  ASSUME TypeInv, SyncInv, NEW r \in Runs, Good(r)', NEW g \in Goroutine, Work(g)
  PROVE  RunInv(r)'
<1>1. run'[r] = run[r]
  <2>1. run' = run \/ \E ok \in BOOLEAN : Return(g, ok)
    BY DEF Work, GetGateway, MarkDuplicate, Link, SetHub, CreateGateway,
           UpdateGateway, CallError, Stop
  <2> QED BY <2>1, ReturnFacts
<1>2. RunInv(r)
  BY <1>1 DEF SyncInv, Good
<1>3. WorkFacts(r, g)
  BY <1>2, WorkStep
<1>4. Undisturbed(r)'
  BY <1>2, <1>3, GoroutineParts DEF RunInv, Undisturbed, WorkFacts
<1>5. CopiesOK(r)'
  BY <1>2, <1>3, OthersKept DEF RunInv, CopiesOK, WorkFacts
<1>6. PhaseOK(r)'
  <2>1. ASSUME NEW h \in Hub, Syncable(h), proc[<<r, h>>].pc # "idle"
        PROVE  Served(r, h)' \/ proc'[<<r, h>>].pc # "idle"
    <3>1. CASE g = <<r, h>>
      BY <2>1, <3>1, <1>3, GoroutineParts DEF WorkFacts, Served
    <3>2. CASE g # <<r, h>>
      BY <2>1, <3>2, <1>3, GoroutineParts DEF WorkFacts
    <3> QED BY <3>1, <3>2
  <2> QED BY <1>2, <1>3, <2>1, PhaseKept DEF RunInv, WorkFacts
<1> QED BY <1>4, <1>5, <1>6 DEF RunInv

LEMMA ConsumeKeepsRun ==
  ASSUME TypeInv, SyncInv, NEW r \in Runs, Good(r)', Consume
  PROVE  RunInv(r)'
<1>a. /\ Consumer \in Goroutine /\ proc \in [Goroutine -> Worker]
      /\ hub \in [Hub -> HubRecord \cup {None}]
  BY GoroutineParts DEF TypeInv, TypeOK
<1>1. run'[r] = run[r]
  <2>1. run' = run \/ Return(Consumer, TRUE)
    BY DEF Consume, HandlePut, HandleDelete, DeleteGateway, Stop
  <2> QED BY <2>1, <1>a, ReturnFacts
<1>2. RunInv(r) /\ topic \in Seq(PutMessage)
  BY <1>1 DEF SyncInv, Good, RunInv, Undisturbed
<1>3. HandlePut
  <2>1. ~DeleteGateway
    BY <1>2 DEF DeleteGateway, RunInv, Undisturbed
  <2>2. ~HandleDelete
    <3>1. topic # <<>> => Head(topic).cmd = "PUT"
      BY <1>2, PutFacts DEF PutMessage
    <3> QED BY <3>1 DEF HandleDelete
  <2> QED BY <2>1, <2>2 DEF Consume
<1>4. /\ UNCHANGED <<hub, gw, mail, run, cert>>
      /\ proc[Consumer].pc = "idle" /\ topic # <<>>
      /\ Head(topic).h \in Hub
  BY <1>2, <1>3, PutFacts DEF HandlePut, PutMessage
<1>5. Keep(r)
  BY <1>4, SameKeeps
<1>6. \/ topic' = Tail(topic) /\ UNCHANGED proc
      \/ /\ Syncable(Head(topic).h) /\ UNCHANGED topic
         /\ proc' = [proc EXCEPT ![Consumer] = Syncing(Head(topic).h)]
  BY <1>3 DEF HandlePut
<1>7. \A f \in Goroutine \ {Consumer} : proc'[f] = proc[f]
  BY <1>6, <1>a
<1>8. Undisturbed(r)'
  <2>1. topic' \in Seq(PutMessage)
    BY <1>2, <1>4, <1>6, PutFacts
  <2>2. proc'[Consumer].pc # "delete"
    BY <1>2, <1>6, <1>a DEF RunInv, Undisturbed, Syncing, Idle
  <2> QED BY <1>2, <1>4, <2>1, <2>2 DEF RunInv, Undisturbed
<1>9. CopiesOK(r)'
  <2>1. CopyOK(r, proc[Consumer])'
    <3>1. CASE UNCHANGED proc
      BY <1>2, <1>5, <1>a, <3>1, OthersKept DEF RunInv
    <3>2. CASE /\ Syncable(Head(topic).h)
               /\ proc' = [proc EXCEPT ![Consumer] = Syncing(Head(topic).h)]
      <4>1. PICK h \in Hub : h = Head(topic).h
        BY <1>4
      <4>2. proc'[Consumer] = Syncing(h) /\ Syncable(h)
        BY <3>2, <4>1, <1>a
      <4>3. /\ proc'[Consumer].pc = "get" /\ proc'[Consumer].h = h
            /\ proc'[Consumer].copy = hub[h]
        BY <4>2 DEF Syncing, Idle
      <4> QED BY <1>4, <4>2, <4>3 DEF CopyOK, Syncable
    <3> QED BY <1>6, <3>1, <3>2
  <2> QED BY <1>2, <1>5, <1>7, <2>1, OthersKept DEF RunInv, CopiesOK
<1>10. PhaseOK(r)'
  BY <1>2, <1>4, <1>5, <1>7, PhaseKept, GoroutineParts DEF RunInv
<1> QED BY <1>8, <1>9, <1>10 DEF RunInv

\* A run starts only when everything is calm, and disturbs the others.
LEMMA CalmStart ==
  ASSUME TypeInv, NEW r \in Runs, Calm,
         \A s \in Runs \ {r} : run'[s].pc \in {"off", "done"},
         run'[r].pc = "list", run'[r].doomed = {},
         UNCHANGED <<proc, topic, cert>>
  PROVE  RunInv(r)'
<1>1. \A g \in Goroutine : proc'[g].pc = "idle"
  BY DEF Calm
<1>2. Undisturbed(r)'
  BY <1>1, EmptySeq, GoroutineParts DEF Calm, Undisturbed
<1>3. CopiesOK(r)'
  BY <1>1 DEF CopiesOK, CopyOK, Busy
<1>4. PhaseOK(r)'
  BY DEF PhaseOK
<1> QED BY <1>2, <1>3, <1>4 DEF RunInv

LEMMA StartKeepsRun ==
  ASSUME TypeInv, NEW r \in Runs, Good(r)', NEW s \in Runs, StartRun(s)
  PROVE  RunInv(r)'
<1>a. run \in [Runs -> Run]
  BY DEF TypeInv, TypeOK
<1> DEFINE q == Calm /\ \A t \in Runs \ {s} : run[t].pc \in {"off", "done"}
           y == [NoRun EXCEPT !.pc = "list", !.quiet = q]
<1>1. /\ run'[s] = y
      /\ \A t \in Runs \ {s} : run'[t] = [run[t] EXCEPT !.quiet = FALSE]
      /\ UNCHANGED <<proc, topic, cert>>
  BY <1>a DEF StartRun, Disturb, stores
<1>2. ASSUME NEW t \in Runs \ {s}
      PROVE  run'[t].quiet = FALSE /\ run'[t].pc = run[t].pc
  <2>1. run'[t] = [run[t] EXCEPT !.quiet = FALSE] /\ run[t] \in Run
    BY <1>1, <1>a
  <2> QED BY <2>1 DEF Run
<1>3. r = s
  BY <1>2 DEF Good
<1>4. y.quiet = q /\ y.pc = "list" /\ y.doomed = {}
  BY DEF NoRun
<1> HIDE DEF y
<1>5. q
  BY <1>1, <1>3, <1>4 DEF Good
<1> QED BY <1>1, <1>2, <1>3, <1>4, <1>5, CalmStart

\* A step of the run itself, after which its goroutines' copies are as before.
LEMMA RunOnlyKeeps ==
  ASSUME TypeInv, NEW r \in Runs, RunInv(r), Keep(r),
         \A s \in Runs \ {r} : run'[s] = run[s],
         UNCHANGED <<topic, proc, cert>>
  PROVE  Undisturbed(r)' /\ CopiesOK(r)'
<1>1. Undisturbed(r)'
  BY DEF RunInv, Undisturbed
<1>2. CopiesOK(r)'
  BY OthersKept DEF RunInv, CopiesOK
<1> QED BY <1>1, <1>2

LEMMA RunStepKeepsRun ==
  ASSUME TypeInv, SyncInv, NEW r \in Runs, Good(r)', RunStep(r)
  PROVE  RunInv(r)'
<1>a. run \in [Runs -> Run] /\ run[r] \in Run /\ proc \in [Goroutine -> Worker]
  BY DEF TypeInv, TypeOK
<1>b. /\ \A s \in Runs \ {r} : run'[s] = run[s]
      /\ run'[r].quiet = run[r].quiet /\ (run[r].failed => run'[r].failed)
  <2>1. CASE \E b \in BOOLEAN : run' = Finished(r, b)
    BY <2>1, <1>a DEF Finished, Run
  <2>2. CASE ListHubs(r)
    BY <2>2, <1>a DEF ListHubs, Run
  <2>3. CASE WaitSynced(r)
    BY <2>3, <1>a DEF WaitSynced, Run
  <2>4. CASE ListHubsAgain(r)
    <3>1. ASSUME NEW k, run' = [run EXCEPT ![r].pc = "listGateways", ![r].known = k]
          PROVE  /\ \A s \in Runs \ {r} : run'[s] = run[s]
                 /\ run'[r].quiet = run[r].quiet /\ (run[r].failed => run'[r].failed)
      BY <3>1, <1>a DEF Run
    <3> QED BY <2>1, <2>4, <3>1 DEF ListHubsAgain
  <2>5. CASE ListGateways(r)
    <3>1. ASSUME NEW D, NEW u,
                 run' = [run EXCEPT ![r].pc = "deleting", ![r].doomed = D,
                                    ![r].failed = @ \/ u # {}]
          PROVE  /\ \A s \in Runs \ {r} : run'[s] = run[s]
                 /\ run'[r].quiet = run[r].quiet /\ (run[r].failed => run'[r].failed)
      BY <3>1, <1>a DEF Run
    <3> QED BY <2>1, <2>5, <3>1 DEF ListGateways
  <2>6. CASE \E e \in Eui : DeleteOutdated(r, e)
    BY <2>6, <1>a DEF DeleteOutdated, Run
  <2>7. CASE WaitDeleted(r)
    BY <2>1, <2>7 DEF WaitDeleted
  <2> QED BY <2>2, <2>3, <2>4, <2>5, <2>6, <2>7 DEF RunStep
<1>c. RunInv(r) /\ PhaseOK(r) /\ CopiesOK(r)
  BY <1>b DEF SyncInv, Good, RunInv
<1>d. ~run'[r].failed
  BY DEF Good
<1>1. CASE ListHubs(r)
  <2>1. /\ run' = [run EXCEPT ![r].pc = "syncing"]
        /\ proc' = [g \in Goroutine |-> IF g # Consumer /\ g[1] = r /\ Syncable(g[2])
                                        THEN Syncing(g[2]) ELSE proc[g]]
    <3>1. ~(run' = [run EXCEPT ![r].pc = "listHubs", ![r].err = TRUE,
                               ![r].failed = TRUE])
      BY <1>a, <1>d DEF Run
    <3> QED BY <1>1, <3>1 DEF ListHubs
  <2>2. run'[r] = [run[r] EXCEPT !.pc = "syncing"]
    BY <2>1, <1>a
  <2>3. /\ run'[r].pc = "syncing" /\ run'[r].swept = run[r].swept
        /\ run'[r].doomed = run[r].doomed
    BY <2>2, <1>a DEF Run
  <2>4. UNCHANGED <<hub, gw, mail, topic, cert>>
    BY <1>1 DEF ListHubs, stores
  <2>5. Keep(r)
    BY <2>3, <2>4, SameKeeps
  <2>6. Undisturbed(r)'
    <3>1. proc'[Consumer] = proc[Consumer]
      BY <2>1, GoroutineParts
    <3> QED BY <2>4, <3>1, <1>b, <1>c DEF RunInv, Undisturbed
  <2>7. CopiesOK(r)'
    <3> SUFFICES ASSUME NEW g \in Goroutine PROVE CopyOK(r, proc[g])'
      BY DEF CopiesOK
    <3>1. CASE g # Consumer /\ g[1] = r /\ Syncable(g[2])
      <4>1. PICK h \in Hub : h = g[2]
        BY <3>1, GoroutineParts
      <4>2. proc'[g] = Syncing(h)
        BY <2>1, <3>1, <4>1
      <4>3. proc'[g].pc = "get" /\ proc'[g].h = h /\ proc'[g].copy = hub[h]
        BY <4>2 DEF Syncing, Idle
      <4> QED BY <2>4, <3>1, <4>1, <4>3 DEF CopyOK, Syncable
    <3>2. CASE ~(g # Consumer /\ g[1] = r /\ Syncable(g[2]))
      <4>1. proc'[g] = proc[g]
        BY <2>1, <3>2
      <4> QED BY <2>5, <4>1, <1>c, OthersKept
    <3> QED BY <3>1, <3>2
  <2>8. PhaseOK(r)'
    <3>1. \A e \in run'[r].doomed : gw'[e] # None /\ ~Matched(e)'
      BY <2>3, <2>4, <1>c DEF PhaseOK, Matched, Syncable, Tenant
    <3>2. ASSUME NEW h \in Hub, Syncable(h)' PROVE proc'[<<r, h>>].pc # "idle"
      <4>1. Syncable(h)
        BY <2>4, <3>2 DEF Syncable
      <4>2. proc'[<<r, h>>] = Syncing(h)
        BY <2>1, <4>1, GoroutineParts
      <4> QED BY <4>2 DEF Syncing, Idle
    <3> QED BY <2>3, <3>1, <3>2 DEF PhaseOK
  <2> QED BY <2>6, <2>7, <2>8 DEF RunInv
<1>2. CASE WaitSynced(r)
  <2>1. run'[r] = [run[r] EXCEPT !.pc = "listHubs"]
    BY <1>2, <1>a DEF WaitSynced
  <2>2. /\ run'[r].pc = "listHubs" /\ run'[r].swept = run[r].swept
        /\ run'[r].doomed = run[r].doomed
    BY <2>1, <1>a DEF Run
  <2>3. UNCHANGED <<hub, gw, mail, topic, proc, cert>>
    BY <1>2 DEF WaitSynced, stores
  <2>4. Keep(r)
    BY <2>2, <2>3, SameKeeps
  <2>5. \A e \in run'[r].doomed : gw'[e] # None /\ ~Matched(e)'
    BY <2>2, <2>3, <1>c DEF PhaseOK, Matched, Syncable, Tenant
  <2>6. ASSUME NEW h \in Hub, Syncable(h)' PROVE Served(r, h)'
    <3>1. Syncable(h) /\ Served(r, h)
      BY <1>2, <2>3, <2>6, <1>c DEF WaitSynced, PhaseOK, Syncable
    <3> QED BY <2>4, <3>1, <1>c, KeepFacts
  <2>7. PhaseOK(r)'
    BY <2>2, <2>5, <2>6 DEF PhaseOK
  <2> QED BY <2>3, <2>4, <2>7, <1>b, <1>c, RunOnlyKeeps DEF RunInv
<1>3. CASE ListHubsAgain(r)
  <2> DEFINE known == {<<hub[h].eui, OwnerOf[h]>> : h \in {x \in Hub : Syncable(x)}}
  <2>1. run' = [run EXCEPT ![r].pc = "listGateways", ![r].known = known]
    <3>1. ~(run' = Finished(r, TRUE))
      BY <1>a, <1>d DEF Finished, Run
    <3> QED BY <1>3, <3>1 DEF ListHubsAgain
  <2> HIDE DEF known
  <2>2. run'[r] = [run[r] EXCEPT !.pc = "listGateways", !.known = known]
    BY <2>1, <1>a
  <2>3. /\ run'[r].pc = "listGateways" /\ run'[r].swept = run[r].swept
        /\ run'[r].doomed = run[r].doomed /\ run'[r].known = known
    BY <2>2, <1>a DEF Run
  <2>4. UNCHANGED <<hub, gw, mail, topic, proc, cert>> /\ run[r].pc = "listHubs"
    BY <1>3 DEF ListHubsAgain, stores
  <2>5. Keep(r)
    BY <2>3, <2>4, SameKeeps
  <2>6. \A e \in run'[r].doomed : gw'[e] # None /\ ~Matched(e)'
    BY <2>3, <2>4, <1>c DEF PhaseOK, Matched, Syncable, Tenant
  <2>7. ASSUME NEW h \in Hub, Syncable(h)' PROVE Served(r, h)'
    <3>1. Syncable(h) /\ Served(r, h)
      BY <2>4, <2>7, <1>c DEF PhaseOK, Syncable
    <3> QED BY <2>5, <3>1, <1>c, KeepFacts
  <2>8. run'[r].known =
          {<<hub'[h].eui, OwnerOf[h]>> : h \in {x \in Hub : Syncable(x)'}}
    BY <2>3, <2>4 DEF known, Syncable
  <2>9. PhaseOK(r)'
    BY <2>3, <2>6, <2>7, <2>8 DEF PhaseOK
  <2> QED BY <2>4, <2>5, <2>9, <1>b, <1>c, RunOnlyKeeps DEF RunInv
<1>4. CASE ListGateways(r)
  <2> DEFINE listed == {e \in Eui : gw[e] # None}
             lost == {e \in listed : \A o \in Owner :
                        <<e, o>> \in run[r].known => mail[o] # gw[e].tenant}
             checked == {e \in listed : \E o \in Owner : <<e, o>> \in run[r].known}
  <2>1. PICK u \in SUBSET checked :
          run' = [run EXCEPT ![r].pc = "deleting", ![r].doomed = lost \cup u,
                             ![r].failed = @ \/ u # {}]
    <3>1. ~(run' = Finished(r, TRUE))
      BY <1>a, <1>d DEF Finished, Run
    <3> QED BY <1>4, <3>1 DEF ListGateways
  <2> HIDE DEF lost, checked
  <2>2. run'[r] = [run[r] EXCEPT !.pc = "deleting", !.doomed = lost \cup u,
                                 !.failed = @ \/ u # {}]
    BY <2>1, <1>a
  <2>3. /\ run'[r].pc = "deleting" /\ run'[r].swept = run[r].swept
        /\ run'[r].doomed = lost \cup u /\ u = {}
    BY <2>2, <1>a, <1>d DEF Run
  <2>4. UNCHANGED <<hub, gw, mail, topic, proc, cert>> /\ run[r].pc = "listGateways"
    BY <1>4 DEF ListGateways, stores
  <2>5. Keep(r)
    BY <2>3, <2>4, SameKeeps
  <2>6. run[r].known = {<<hub[h].eui, OwnerOf[h]>> : h \in {x \in Hub : Syncable(x)}}
    BY <2>4, <1>c DEF PhaseOK
  <2>7. ASSUME NEW e \in Eui, gw[e] # None
        PROVE  e \in lost <=> ~Matched(e)
    <3>1. (\E o \in Owner : <<e, o>> \in run[r].known /\ mail[o] = gw[e].tenant)
            <=> Matched(e)
      BY <2>6 DEF Matched, Tenant
    <3> QED BY <2>7, <3>1 DEF lost
  <2>8. lost \subseteq listed
    BY DEF lost
  <2>9. \A e \in Eui : Matched(e)' <=> Matched(e)
    BY <2>4 DEF Matched, Syncable, Tenant
  <2>10. ASSUME NEW h \in Hub, Syncable(h)' PROVE Served(r, h)'
    <3>1. Syncable(h) /\ Served(r, h)
      BY <2>4, <2>10, <1>c DEF PhaseOK, Syncable
    <3> QED BY <2>5, <3>1, <1>c, KeepFacts
  <2>11. PhaseOK(r)'
    BY <2>3, <2>4, <2>7, <2>8, <2>9, <2>10 DEF PhaseOK
  <2> QED BY <2>4, <2>5, <2>11, <1>b, <1>c, RunOnlyKeeps DEF RunInv
<1>5. ASSUME NEW d \in Eui, DeleteOutdated(r, d) PROVE RunInv(r)'
  <2>1. /\ gw' = [gw EXCEPT ![d] = None]
        /\ run' = [run EXCEPT ![r].doomed = @ \ {d}, ![r].swept = @ \cup {d}]
    <3>1. ~(run' = [run EXCEPT ![r].doomed = @ \ {d}, ![r].failed = TRUE])
      BY <1>a, <1>d DEF Run
    <3> QED BY <1>5, <3>1 DEF DeleteOutdated
  <2>2. run'[r] = [run[r] EXCEPT !.doomed = @ \ {d}, !.swept = @ \cup {d}]
    BY <2>1, <1>a
  <2>3. /\ run'[r].pc = "deleting" /\ run'[r].swept = run[r].swept \cup {d}
        /\ run'[r].doomed = run[r].doomed \ {d} /\ d \in run[r].doomed
        /\ run[r].pc = "deleting"
    BY <1>5, <2>2, <1>a DEF Run, DeleteOutdated
  <2>4. UNCHANGED <<hub, mail, topic, proc, cert>>
    BY <1>5 DEF DeleteOutdated
  <2>5. gw'[d] = None /\ \A e \in Eui \ {d} : gw'[e] = gw[e]
    BY <2>1 DEF TypeInv, TypeOK
  <2>6. Keep(r)
    BY <2>3, <2>4, <2>5 DEF Keep
  <2>7. \A e \in run'[r].doomed : gw'[e] # None /\ ~Matched(e)'
    <3> SUFFICES ASSUME NEW e \in run'[r].doomed PROVE gw'[e] # None /\ ~Matched(e)'
      OBVIOUS
    <3>1. e \in run[r].doomed /\ e \in Eui \ {d}
      BY <2>3, <1>a DEF Run
    <3> QED BY <2>5, <2>6, <3>1, <1>c, KeepFacts DEF PhaseOK
  <2>8. ASSUME NEW h \in Hub, Syncable(h)' PROVE Served(r, h)'
    <3>1. Syncable(h) /\ Served(r, h)
      BY <2>3, <2>4, <2>8, <1>c DEF PhaseOK, Syncable
    <3> QED BY <2>6, <3>1, <1>c, KeepFacts
  <2>9. ASSUME NEW e \in Eui, gw'[e] # None, e \notin run'[r].doomed
        PROVE  Matched(e)'
    <3>1. gw[e] # None /\ e \notin run[r].doomed
      BY <2>3, <2>5, <2>9
    <3>2. Matched(e)
      BY <2>3, <3>1, <1>c DEF PhaseOK
    <3> QED BY <2>6, <3>1, <3>2, <1>c, KeepFacts
  <2>10. PhaseOK(r)'
    BY <2>3, <2>7, <2>8, <2>9 DEF PhaseOK
  <2> QED BY <2>4, <2>6, <2>10, <1>b, <1>c, RunOnlyKeeps DEF RunInv
<1>6. CASE WaitDeleted(r)
  <2>1. run' = Finished(r, FALSE) /\ run[r].pc = "deleting" /\ run[r].doomed = {}
    BY <1>6 DEF WaitDeleted
  <2>2. /\ run'[r].pc = "done" /\ run'[r].swept = run[r].swept
        /\ run'[r].doomed = {}
    BY <2>1, <1>a DEF Finished, Run
  <2>3. UNCHANGED <<hub, gw, mail, topic, proc, cert>>
    BY <1>6 DEF WaitDeleted, stores
  <2>4. Keep(r)
    BY <2>2, <2>3, SameKeeps
  <2>5. ASSUME NEW h \in Hub, Syncable(h)' PROVE Served(r, h)'
    <3>1. Syncable(h) /\ Served(r, h)
      BY <2>1, <2>3, <2>5, <1>c DEF PhaseOK, Syncable
    <3> QED BY <2>4, <3>1, <1>c, KeepFacts
  <2>6. ASSUME NEW e \in Eui, gw'[e] # None PROVE Matched(e)'
    <3>1. gw[e] # None /\ Matched(e)
      BY <2>1, <2>3, <2>6, <1>c DEF PhaseOK
    <3> QED BY <2>4, <3>1, <1>c, KeepFacts
  <2>7. PhaseOK(r)'
    BY <2>2, <2>5, <2>6 DEF PhaseOK
  <2> QED BY <2>3, <2>4, <2>7, <1>b, <1>c, RunOnlyKeeps DEF RunInv
<1> QED BY <1>1, <1>2, <1>3, <1>4, <1>5, <1>6 DEF RunStep

\* What users and requests do disturbs every run; the rest changes nothing that
\* a run relies on.
LEMMA EnvKeepsRun ==
  ASSUME TypeInv, SyncInv, NEW r \in Runs, Good(r)',
         \/ \E c \in Cert : \/ GetCert(c) \/ AnnotateCert(c) \/ CertError(c)
                            \/ \E h \in Hub : RequestCert(c, h)
         \/ \E h \in Hub : PutHub(h) \/ DropHub(h)
         \/ \E o \in Owner : SetMail(o)
         \/ \E e \in Eui, d \in Device : Hear(e, d)
         \/ Restart
  PROVE  RunInv(r)'
<1>a. run \in [Runs -> Run] /\ run[r] \in Run
  BY DEF TypeInv, TypeOK
<1>b. run' # Disturb(run)
  <2>1. Disturb(run)[r] = [run[r] EXCEPT !.quiet = FALSE]
    BY DEF Disturb
  <2>2. Disturb(run)[r].quiet = FALSE
    BY <2>1, <1>a DEF Run
  <2> QED BY <2>2 DEF Good
<1>c. ~\E c \in Cert, h \in Hub : RequestCert(c, h)
  BY <1>b DEF RequestCert
<1>d. /\ ~\E h \in Hub : PutHub(h) \/ DropHub(h)
      /\ ~\E o \in Owner : SetMail(o)
  BY <1>b DEF PutHub, DropHub, SetMail
<1>1. ASSUME NEW c \in Cert, GetCert(c) \/ AnnotateCert(c) \/ CertError(c)
      PROVE  FALSE
  <2>1. UNCHANGED run /\ cert[c].pc # "idle"
    BY <1>1 DEF GetCert, AnnotateCert, CertError
  <2>2. RunInv(r)
    BY <2>1 DEF SyncInv, Good
  <2> QED BY <2>1, <2>2 DEF RunInv, Undisturbed
<1>2. ASSUME NEW e \in Eui, NEW d \in Device, Hear(e, d)
      PROVE  RunInv(r)'
  <2>1. UNCHANGED <<hub, gw, mail, topic, proc, run, cert>>
    BY <1>2 DEF Hear
  <2>2. RunInv(r) /\ PhaseOK(r)
    BY <2>1 DEF SyncInv, Good, RunInv
  <2>3. Keep(r)
    BY <2>1, SameKeeps
  <2>4. Undisturbed(r)' /\ CopiesOK(r)'
    BY <2>1, <2>2, <2>3, RunOnlyKeeps
  <2>5. PhaseOK(r)'
    BY <2>1, <2>2, <2>3, PhaseKept
  <2> QED BY <2>4, <2>5 DEF RunInv
<1>3. CASE Restart
  <2>1. PICK k \in 1..(Len(topic) + 1) :
          /\ topic' = SubSeq(topic, k, Len(topic))
          /\ run' = BootRuns(k = Len(topic) + 1)
    BY <1>3 DEF Restart
  <2> DEFINE q == k = Len(topic) + 1
             y == [NoRun EXCEPT !.pc = "list", !.quiet = q]
  <2>2. \A s \in Runs : run'[s] = IF s = Boot THEN y ELSE NoRun
    BY <2>1 DEF BootRuns
  <2>3. y.quiet = q /\ y.pc = "list" /\ y.doomed = {}
    BY DEF NoRun
  <2> HIDE DEF y
  <2>4. r = Boot /\ q
    BY <2>2, <2>3, NoRunType DEF Good
  <2>5. topic' = <<>>
    <3>1. topic \in Seq(Message) /\ Len(topic) \in Nat
      BY LenProperties DEF TypeInv, TypeOK
    <3> QED BY <2>1, <2>4, <3>1, SubSeqEmpty
  <2>6. /\ \A s \in Runs \ {r} : run'[s].pc = "off"
        /\ run'[r].pc = "list" /\ run'[r].doomed = {}
    BY <2>2, <2>3, <2>4, NoRunType
  <2>7. /\ \A g \in Goroutine : proc'[g].pc = "idle"
        /\ \A c \in Cert : cert'[c].pc = "idle"
    BY <1>3, IdleType, NoRequestType DEF Restart
  <2>8. Undisturbed(r)'
    BY <2>5, <2>6, <2>7, EmptySeq, GoroutineParts DEF Undisturbed
  <2>9. CopiesOK(r)'
    BY <2>7 DEF CopiesOK, CopyOK, Busy
  <2>10. PhaseOK(r)'
    BY <2>6 DEF PhaseOK
  <2> QED BY <2>8, <2>9, <2>10 DEF RunInv
<1> QED BY <1>c, <1>d, <1>1, <1>2, <1>3

LEMMA InitSync == Init => SyncInv
<1> SUFFICES ASSUME Init, NEW r \in Runs, Good(r) PROVE RunInv(r)
  BY DEF SyncInv
<1> DEFINE y == [NoRun EXCEPT !.pc = "list", !.quiet = TRUE]
<1>1. \A s \in Runs : run[s] = IF s = Boot THEN y ELSE NoRun
  BY DEF Init, BootRuns
<1>2. y.pc = "list" /\ y.doomed = {}
  BY DEF NoRun
<1> HIDE DEF y
<1>3. r = Boot
  BY <1>1, NoRunType DEF Good
<1>4. /\ \A s \in Runs \ {r} : run[s].pc = "off"
      /\ run[r].pc = "list" /\ run[r].doomed = {}
  BY <1>1, <1>2, <1>3, NoRunType
<1>5. /\ \A g \in Goroutine : proc[g].pc = "idle"
      /\ \A c \in Cert : cert[c].pc = "idle"
  BY IdleType, NoRequestType DEF Init
<1>6. Undisturbed(r)
  BY <1>4, <1>5, EmptySeq, GoroutineParts DEF Init, Undisturbed
<1>7. CopiesOK(r)
  BY <1>5 DEF CopiesOK, CopyOK, Busy
<1>8. PhaseOK(r)
  BY <1>4 DEF PhaseOK
<1> QED BY <1>6, <1>7, <1>8 DEF RunInv

LEMMA NextSync == TypeInv /\ SyncInv /\ [Next]_vars => SyncInv'
<1> SUFFICES ASSUME TypeInv, SyncInv, [Next]_vars, NEW r \in Runs, Good(r)'
             PROVE  RunInv(r)'
  BY DEF SyncInv
<1>1. ASSUME NEW s \in Runs, RunStep(s) PROVE RunInv(r)'
  <2>1. CASE s = r
    BY <1>1, <2>1, RunStepKeepsRun
  <2>2. CASE s # r
    <3>1. run'[r] = run[r]
      BY <1>1, <2>2 DEF RunStep, ListHubs, WaitSynced, ListHubsAgain, ListGateways,
         WaitDeleted, DeleteOutdated, Finished, TypeInv, TypeOK
    <3>2. run[s].pc \in {"off", "done"}
      BY <2>2, <3>1 DEF SyncInv, Good, RunInv, Undisturbed
    <3> QED BY <1>1, <3>2 DEF RunStep, ListHubs, WaitSynced, ListHubsAgain,
            ListGateways, WaitDeleted, DeleteOutdated
  <2> QED BY <2>1, <2>2
<1>2. CASE UNCHANGED vars
  <2>1. UNCHANGED <<hub, gw, mail, topic, proc, run, cert>>
    BY <1>2 DEF vars, stores
  <2>2. RunInv(r) /\ PhaseOK(r)
    BY <2>1 DEF SyncInv, Good, RunInv
  <2>3. Keep(r)
    BY <2>1, SameKeeps
  <2>4. Undisturbed(r)' /\ CopiesOK(r)'
    BY <2>1, <2>2, <2>3, RunOnlyKeeps
  <2>5. PhaseOK(r)'
    BY <2>1, <2>2, <2>3, PhaseKept
  <2> QED BY <2>4, <2>5 DEF RunInv
<1> QED BY <1>1, <1>2, WorkKeepsRun, ConsumeKeepsRun, StartKeepsRun, EnvKeepsRun
        DEF Next

\* After an undisturbed sync without failures every hub with an EUI, of an owner
\* with an email, has its gateway or is a duplicate, and every gateway has a hub of its tenant's owner
\* (SyncAllGateways, DeleteOutdatedGateways).
THEOREM SyncCorrect == Spec => [](SyncServesHubs /\ SyncRemovesGateways)
<1>1. Init => TypeInv /\ SyncInv
  BY InitType, InitSync
<1>2. TypeInv /\ SyncInv /\ [Next]_vars => (TypeInv /\ SyncInv)'
  BY NextType, NextSync
<1>3. TypeInv /\ SyncInv => SyncServesHubs /\ SyncRemovesGateways
  <2> SUFFICES ASSUME SyncInv, NEW r \in Runs, Completed(r)
               PROVE  /\ \A h \in Hub : Syncable(h) => Served(r, h)
                      /\ \A e \in Eui : gw[e] # None => Matched(e)
    BY DEF SyncServesHubs, SyncRemovesGateways, Served
  <2>1. PhaseOK(r) /\ run[r].pc = "done"
    BY DEF SyncInv, Completed, Good, RunInv
  <2> QED BY <2>1 DEF PhaseOK
<1> QED BY <1>1, <1>2, <1>3, PTL DEF Spec

\* In particular no gateway is left that lacks a hub of its tenant's owner, whatever
\* edits, restarts and lost messages came before (DeleteOutdatedGateways).
THEOREM SyncRemovesCorrect == Spec => []SyncRemovesGateways
BY SyncCorrect, PTL

\* A sync that nobody disturbs and in which no call fails deletes no gateway
\* that has its hub (DeleteOutdatedGateways).
THEOREM FaultlessSyncKeepsCorrect == Spec => FaultlessSyncKeeps
<1> DEFINE Kept == \A r \in Runs, e \in Eui :
             run[r].quiet /\ ~run[r].failed /\ Deletes(r, e) => ~Matched(e)
<1>1. Init => TypeInv /\ SyncInv
  BY InitType, InitSync
<1>2. TypeInv /\ SyncInv /\ [Next]_vars => (TypeInv /\ SyncInv)'
  BY NextType, NextSync
<1>3. TypeInv /\ SyncInv => Kept
  BY DEF SyncInv, Good, RunInv, PhaseOK, Deletes
<1>4. Spec => [][Kept]_vars
  BY <1>1, <1>2, <1>3, PTL DEF Spec
<1> QED BY <1>4 DEF FaultlessSyncKeeps
================================================================================
