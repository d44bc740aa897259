-------------------------- MODULE EventForwardProofs --------------------------
(***************************************************************************)
(* Theorems about EventForward: its types, and where and for how long an    *)
(* old max age can still be after a user's change.                         *)
(***************************************************************************)
EXTENDS EventForward, TLAPS

USE TimeAssumption

\* Where the age of a device from before its last change can still be, and for
\* how long.
EditInv ==
  \A d \in Device : kept[d] =>
    /\ cached[d] # None /\ cached[d].val.age # device[d].age
         => edited[d] + cached[d].left <= Minute
    /\ \A h \in Handler :
         proc[h].pc \in {"age", "join"} /\ proc[h].d = d
           /\ proc[h].copy.age # device[d].age
         => edited[d] < Minute + proc[h].held
\* The same of the profile's interval.
IntervalInv ==
  known # None /\ known.val # interval => changed + known.left <= Minute
\* A goroutine that holds another expiration than the one due has decided on it
\* while the change was young.
SetInv ==
  \A h \in Handler :
    /\ proc[h].pc = "set" /\ kept[proc[h].d]
    /\ Minute + proc[h].held <= edited[proc[h].d]
    /\ Minute + proc[h].held <= changed
    => Expiration(proc[h].age) \in Due(device[proc[h].d].age, interval)
Inv == TypeOK /\ EditInv /\ IntervalInv /\ SetInv

-----------------------------------------------------------------------------
(* Types.                                                                  *)

LEMMA IdleType == Idle \in Goroutine /\ Idle.pc = "idle" /\ Idle.held = 0
  BY DEF Idle, Goroutine

LEMMA InitType == Init => TypeOK
<1> SUFFICES ASSUME Init PROVE TypeOK
  OBVIOUS
<1>1. device \in [Device -> Attributes]
  BY DEF Init, Attributes
<1>2. \A h \in Handler : proc[h] = Idle
  BY DEF Init
<1>3. proc \in [Handler -> Goroutine]
  BY IdleType DEF Init
<1>4. Window \in 0..Window
  BY DEF Window
<1> QED
  BY <1>1, <1>2, <1>3, <1>4, IdleType DEF Init, TypeOK

\* What GetDevice does with the entry that the cache has afterwards.
Got(h, d, pc, entry) ==
  /\ entry \in [val : Attributes, left : 1..Minute]
  /\ entry = Use(cached[d], device[d])
  /\ cached' = [cached EXCEPT ![d] = entry]
  /\ proc' \in [Handler -> Goroutine]
  /\ \A i \in Handler \ {h} : proc'[i] = proc[i]
  /\ proc'[h].pc = pc /\ proc'[h].d = d
  /\ proc'[h].copy = entry.val /\ proc'[h].held = 0

LEMMA GetDeviceFacts ==
  ASSUME TypeOK, NEW h \in Handler, NEW d \in Device, NEW pc \in {"age", "join"},
         NEW gws \in SUBSET Gateway, GetDevice(h, d, pc, gws)
  PROVE  \E entry : Got(h, d, pc, entry)
<1> DEFINE entry == Use(cached[d], device[d])
           new == [Idle EXCEPT !.pc = pc, !.d = d, !.gws = gws, !.copy = entry.val]
<1>1. cached[d] # None => cached[d] \in [val : Attributes, left : 1..Minute]
  BY DEF TypeOK
<1>2. device[d] \in Attributes
  BY DEF TypeOK
<1>3. Entry(device[d]) \in [val : Attributes, left : 1..Minute]
  BY <1>2 DEF Entry
<1>4. entry \in [val : Attributes, left : 1..Minute]
  BY <1>1, <1>3 DEF Use
<1>5. entry.val \in Attributes
  BY <1>4
<1> HIDE DEF entry
<1>6. /\ new \in Goroutine /\ new.pc = pc /\ new.d = d
      /\ new.copy = entry.val /\ new.held = 0
  BY <1>5, IdleType DEF Goroutine
<1>7. cached' = [cached EXCEPT ![d] = entry] /\ proc' = [proc EXCEPT ![h] = new]
  BY DEF GetDevice, Goto, entry
<1> HIDE DEF new
<1>8. /\ proc' \in [Handler -> Goroutine] /\ proc'[h] = new
      /\ \A i \in Handler \ {h} : proc'[i] = proc[i]
  BY <1>6, <1>7 DEF TypeOK
<1>9. entry = Use(cached[d], device[d])
  BY DEF entry
<1>10. Got(h, d, pc, entry)
  BY <1>4, <1>6, <1>7, <1>8, <1>9 DEF Got
<1> QED
  BY <1>10

\* The new goroutine of a handler.
LEMMA StartedType ==
  ASSUME TypeOK, NEW h \in Handler, NEW d \in Device, NEW pc \in {"age", "join"},
         NEW gws \in SUBSET Gateway, GetDevice(h, d, pc, gws)
  PROVE  /\ cached' \in [Device -> [val : Attributes, left : 1..Minute] \cup {None}]
         /\ proc' \in [Handler -> Goroutine]
         /\ \A i \in Handler :
              /\ proc'[i].pc # "idle" => proc'[i].d \in Device
              /\ proc'[i].pc \in {"age", "join"} => proc'[i].copy \in Attributes
              /\ proc'[i].pc = "set" => proc'[i].age \in Durations
<1>0. PICK entry : Got(h, d, pc, entry)
  BY GetDeviceFacts
<1>1. /\ entry \in [val : Attributes, left : 1..Minute]
      /\ cached' = [cached EXCEPT ![d] = entry]
      /\ proc' \in [Handler -> Goroutine]
      /\ \A i \in Handler \ {h} : proc'[i] = proc[i]
      /\ proc'[h].pc = pc /\ proc'[h].d = d
      /\ proc'[h].copy = entry.val /\ proc'[h].held = 0
  BY <1>0 DEF Got
<1>2. cached' \in [Device -> [val : Attributes, left : 1..Minute] \cup {None}]
  BY <1>1 DEF TypeOK
<1>3. proc' \in [Handler -> Goroutine]
  BY <1>1
<1>4. ASSUME NEW i \in Handler
      PROVE  /\ proc'[i].pc # "idle" => proc'[i].d \in Device
             /\ proc'[i].pc \in {"age", "join"} => proc'[i].copy \in Attributes
             /\ proc'[i].pc = "set" => proc'[i].age \in Durations
  <2>1. CASE i = h
    BY <1>1, <2>1 DEF TypeOK
  <2>2. CASE i # h
    BY <1>1, <2>2 DEF TypeOK
  <2> QED BY <2>1, <2>2
<1> QED
  BY <1>2, <1>3, <1>4

LEMMA StepType == TypeOK /\ [Next]_vars => TypeOK'
<1> SUFFICES ASSUME TypeOK, [Next]_vars PROVE TypeOK'
  OBVIOUS
<1> USE DEF Goto, At
<1>1. ASSUME NEW h \in Handler, HandleUplink(h) PROVE TypeOK'
  <2>1. PICK d \in Device, gws \in SUBSET Gateway : GetDevice(h, d, "age", gws)
    BY <1>1 DEF HandleUplink
  <2>2. /\ cached' \in [Device -> [val : Attributes, left : 1..Minute] \cup {None}]
        /\ proc' \in [Handler -> Goroutine]
        /\ \A i \in Handler :
             /\ proc'[i].pc # "idle" => proc'[i].d \in Device
             /\ proc'[i].pc \in {"age", "join"} => proc'[i].copy \in Attributes
             /\ proc'[i].pc = "set" => proc'[i].age \in Durations
    BY <2>1, StartedType
  <2> QED BY <1>1, <2>2 DEF HandleUplink, TypeOK
<1>2. ASSUME NEW h \in Handler, HandleJoin(h) PROVE TypeOK'
  <2>1. PICK d \in Device : GetDevice(h, d, "join", {})
    BY <1>2 DEF HandleJoin
  <2>2. /\ cached' \in [Device -> [val : Attributes, left : 1..Minute] \cup {None}]
        /\ proc' \in [Handler -> Goroutine]
        /\ \A i \in Handler :
             /\ proc'[i].pc # "idle" => proc'[i].d \in Device
             /\ proc'[i].pc \in {"age", "join"} => proc'[i].copy \in Attributes
             /\ proc'[i].pc = "set" => proc'[i].age \in Durations
    BY <2>1, StartedType
  <2> QED BY <1>2, <2>2 DEF HandleJoin, TypeOK
<1>3. ASSUME NEW h \in Handler, MessageMaxAge(h) PROVE TypeOK'
  <2>1. UseProfile \in [val : Interval, left : 1..Minute]
    BY DEF TypeOK, UseProfile, Entry
  <2>2. known' \in [val : Interval, left : 1..Minute] \cup {None}
    BY <1>3, <2>1 DEF MessageMaxAge, TypeOK
  <2>3. PICK a \in Durations :
          proc' = [proc EXCEPT ![h] = [proc[h] EXCEPT !.pc = "set", !.copy = None, !.age = a]]
    BY <1>3, <2>1 DEF MessageMaxAge, TypeOK, Durations, Attributes, Attr
  <2>4. proc[h] \in Goroutine /\ proc[h].d \in Device
    BY <1>3 DEF TypeOK, MessageMaxAge
  <2>5. proc' \in [Handler -> Goroutine]
    BY <2>3, <2>4 DEF TypeOK, Goroutine
  <2> QED BY <1>3, <2>2, <2>3, <2>4, <2>5 DEF MessageMaxAge, TypeOK, Goroutine
<1>4. ASSUME NEW h \in Handler, SetKeys(h) PROVE TypeOK'
  <2>1. proc[h].age \in Durations /\ Durations \subseteq Int
    BY <1>4 DEF SetKeys, TypeOK, Durations
  <2>2. Expiration(proc[h].age) \in (Nat \ {0}) \cup {Forever, None}
    <3>1. proc[h].age \in Int
      BY <2>1
    <3>2. ~ (proc[h].age <= 0) => proc[h].age \in Nat \ {0}
      BY <3>1
    <3> QED BY <3>2 DEF Expiration
  <2>3. key' \in [Gateway \X Device -> (Nat \ {0}) \cup {Forever, None}]
    BY <1>4, <2>2 DEF SetKeys, TypeOK
  <2> QED BY <1>4, <2>3, IdleType DEF SetKeys, TypeOK
<1>5. ASSUME NEW h \in Handler, AnnotateDeviceJoined(h) PROVE TypeOK'
  <2> DEFINE d == proc[h].d
             new == [proc[h].copy EXCEPT !.joined = TRUE]
  <2>0. proc[h].pc = "join"
    BY <1>5 DEF AnnotateDeviceJoined
  <2>1. d \in Device /\ new \in Attributes
    <3>1. d \in Device /\ proc[h].copy \in Attributes
      BY <2>0 DEF TypeOK
    <3> QED BY <3>1 DEF Attributes
  <2>2. Entry(new) \in [val : Attributes, left : 1..Minute]
    BY <2>1 DEF Entry
  <2>3. cached' \in [Device -> [val : Attributes, left : 1..Minute] \cup {None}]
    BY <1>5, <2>1, <2>2 DEF AnnotateDeviceJoined, TypeOK
  <2>4. device' \in [Device -> Attributes] /\ kept' \in [Device -> BOOLEAN]
    BY <1>5, <2>1 DEF AnnotateDeviceJoined, TypeOK
  <2> QED BY <1>5, <2>3, <2>4, IdleType DEF AnnotateDeviceJoined, TypeOK
<1>6. ASSUME NEW h \in Handler, CallError(h) PROVE TypeOK'
  BY <1>6, IdleType DEF CallError, TypeOK
<1>7. ASSUME NEW d \in Device, EditDevice(d) PROVE TypeOK'
  BY <1>7 DEF EditDevice, TypeOK, Attributes, Window
<1>8. CASE EditProfile
  BY <1>8 DEF EditProfile, TypeOK, Window
<1>9. CASE Evict
  BY <1>9 DEF Evict, TypeOK
<1>10. CASE Restart
  BY <1>10, IdleType DEF Restart, TypeOK
<1>11. CASE Tick
  <2>1. \A h \in Handler : proc'[h] \in Goroutine /\ proc'[h].pc = proc[h].pc
          /\ proc'[h].d = proc[h].d /\ proc'[h].copy = proc[h].copy
          /\ proc'[h].age = proc[h].age
    <3> SUFFICES ASSUME NEW h \in Handler
                 PROVE  /\ proc'[h] \in Goroutine /\ proc'[h].pc = proc[h].pc
                        /\ proc'[h].d = proc[h].d /\ proc'[h].copy = proc[h].copy
                        /\ proc'[h].age = proc[h].age
      OBVIOUS
    <3>1. proc[h] \in Goroutine
      BY DEF TypeOK
    <3>2. CASE proc[h] = Idle
      BY <1>11, <3>1, <3>2 DEF Tick
    <3>3. CASE proc[h] # Idle
      <4>1. /\ proc'[h] = [proc[h] EXCEPT !.held = @ + 1]
            /\ proc[h].held < Patience
        BY <1>11, <3>3 DEF Tick
      <4>2. proc[h].held \in 0..Patience /\ proc[h].held + 1 \in 0..Patience
        BY <3>1, <4>1, TimeAssumption DEF Goroutine
      <4> QED BY <3>1, <4>1, <4>2 DEF Goroutine
    <3> QED BY <3>2, <3>3
  <2>2. proc' \in [Handler -> Goroutine]
    BY <1>11, <2>1 DEF Tick
  <2>3. \A d \in Device : Older(cached[d]) \in [val : Attributes, left : 1..Minute] \cup {None}
    BY DEF TypeOK, Older
  <2>4. Older(known) \in [val : Interval, left : 1..Minute] \cup {None}
    BY DEF TypeOK, Older
  <2>5. key' \in [Gateway \X Device -> (Nat \ {0}) \cup {Forever, None}]
    <3>1. ASSUME NEW k \in Gateway \X Device
          PROVE  (CASE key[k] \in {Forever, None} -> key[k]
                    [] key[k] = 1 -> None
                    [] OTHER -> key[k] - 1) \in (Nat \ {0}) \cup {Forever, None}
      <4>1. key[k] \in (Nat \ {0}) \cup {Forever, None}
        BY DEF TypeOK
      <4>2. CASE key[k] \in {Forever, None}
        BY <4>2
      <4>3. CASE key[k] \notin {Forever, None}
        BY <4>1, <4>3
      <4> QED BY <4>2, <4>3
    <3>2. DOMAIN key = Gateway \X Device
      BY DEF TypeOK
    <3> QED BY <1>11, <3>1, <3>2 DEF Tick
  <2>6. edited' \in [Device -> 0..Window] /\ changed' \in 0..Window
    BY <1>11 DEF Tick, TypeOK, Later, Window
  <2> QED BY <1>11, <2>1, <2>2, <2>3, <2>4, <2>5, <2>6 DEF Tick, TypeOK
<1>12. CASE UNCHANGED vars
  BY <1>12 DEF vars, TypeOK
<1> QED
  BY <1>1, <1>2, <1>3, <1>4, <1>5, <1>6, <1>7, <1>8, <1>9, <1>10, <1>11, <1>12
  DEF Next, Handle

\* Stores, cache, keys and goroutines keep their types, whatever the durations
\* and however many devices, gateways and handlers there are (HandleEvent,
\* AnnotateDeviceJoined).
THEOREM TypeCorrect == Spec => []TypeOK
  BY InitType, StepType, PTL DEF Spec

-----------------------------------------------------------------------------
(* Old copies of a device and of the profile's interval.                   *)

LEMMA InitInv == Init => EditInv /\ IntervalInv /\ SetInv
  BY IdleType DEF Init, EditInv, IntervalInv, SetInv

\* GetDevice of a handler that goes on with an uplink or a join.
LEMMA EditGetDevice ==
  ASSUME TypeOK, EditInv, NEW h \in Handler, NEW d \in Device,
         NEW pc \in {"age", "join"}, NEW gws \in SUBSET Gateway,
         GetDevice(h, d, pc, gws), UNCHANGED <<device, edited, kept>>
  PROVE  EditInv'
<1>0. PICK entry : Got(h, d, pc, entry)
  BY GetDeviceFacts
<1>1. /\ entry \in [val : Attributes, left : 1..Minute]
      /\ entry = Use(cached[d], device[d])
      /\ cached' = [cached EXCEPT ![d] = entry]
      /\ proc' \in [Handler -> Goroutine]
      /\ \A i \in Handler \ {h} : proc'[i] = proc[i]
      /\ proc'[h].pc = pc /\ proc'[h].d = d
      /\ proc'[h].copy = entry.val /\ proc'[h].held = 0
  BY <1>0 DEF Got
<1>2. entry.val.age # device[d].age => cached[d] # None /\ entry = cached[d]
  BY <1>1 DEF Use, Entry
<1>3. entry.left \in 1..Minute /\ edited[d] \in Nat
  BY <1>1 DEF TypeOK, Window
<1>4. kept[d] /\ entry.val.age # device[d].age
        => edited[d] + entry.left <= Minute /\ edited[d] < Minute + 0
  BY <1>2, <1>3 DEF EditInv
<1> SUFFICES ASSUME NEW e \in Device, kept[e]
             PROVE  /\ cached'[e] # None /\ cached'[e].val.age # device[e].age
                         => edited[e] + cached'[e].left <= Minute
                    /\ \A i \in Handler :
                         proc'[i].pc \in {"age", "join"} /\ proc'[i].d = e
                           /\ proc'[i].copy.age # device[e].age
                         => edited[e] < Minute + proc'[i].held
  BY DEF EditInv
<1>5. cached'[e] # None /\ cached'[e].val.age # device[e].age
        => edited[e] + cached'[e].left <= Minute
  <2>1. CASE e = d
    BY <1>1, <1>4, <2>1 DEF TypeOK
  <2>2. CASE e # d
    BY <1>1, <2>2 DEF TypeOK, EditInv
  <2> QED BY <2>1, <2>2
<1>6. ASSUME NEW i \in Handler, proc'[i].pc \in {"age", "join"}, proc'[i].d = e,
             proc'[i].copy.age # device[e].age
      PROVE  edited[e] < Minute + proc'[i].held
  <2>1. CASE i = h
    BY <1>1, <1>4, <1>6, <2>1
  <2>2. CASE i # h
    BY <1>1, <1>6, <2>2 DEF EditInv
  <2> QED BY <2>1, <2>2
<1> QED
  BY <1>5, <1>6

LEMMA EditStep == TypeOK /\ EditInv /\ [Next]_vars => EditInv'
<1> SUFFICES ASSUME TypeOK, EditInv, [Next]_vars PROVE EditInv'
  OBVIOUS
<1> USE DEF Goto, At
<1>1. ASSUME NEW h \in Handler, HandleUplink(h) PROVE EditInv'
  BY <1>1, EditGetDevice DEF HandleUplink
<1>2. ASSUME NEW h \in Handler, HandleJoin(h) PROVE EditInv'
  BY <1>2, EditGetDevice DEF HandleJoin
<1>3. ASSUME NEW h \in Handler, MessageMaxAge(h) PROVE EditInv'
  <2>1. PICK a \in Durations \cup Interval \cup {known'.val} :
          proc' = [proc EXCEPT ![h] = [proc[h] EXCEPT !.pc = "set", !.copy = None, !.age = a]]
    BY <1>3 DEF MessageMaxAge, TypeOK, Durations, Attributes, Attr
  <2>2. proc[h] \in Goroutine
    BY DEF TypeOK
  <2>3. \A i \in Handler : (i = h /\ proc'[i].pc = "set") \/ proc'[i] = proc[i]
    BY <2>1, <2>2 DEF TypeOK, Goroutine
  <2> QED BY <1>3, <2>3 DEF MessageMaxAge, EditInv
<1>4. ASSUME NEW h \in Handler, SetKeys(h) \/ CallError(h) PROVE EditInv'
  <2>1. \A i \in Handler : proc'[i].pc = "idle" \/ proc'[i] = proc[i]
    BY <1>4, IdleType DEF SetKeys, CallError, TypeOK
  <2> QED BY <1>4, <2>1 DEF SetKeys, CallError, EditInv
<1>5. ASSUME NEW h \in Handler, AnnotateDeviceJoined(h) PROVE EditInv'
  <2> DEFINE d == proc[h].d
             new == [proc[h].copy EXCEPT !.joined = TRUE]
  <2>1. \A i \in Handler : proc'[i].pc = "idle" \/ proc'[i] = proc[i]
    BY <1>5, IdleType DEF AnnotateDeviceJoined, TypeOK
  <2>2. d \in Device
    BY <1>5 DEF AnnotateDeviceJoined, TypeOK
  <2>3. kept'[d] => kept[d] /\ new.age = device[d].age
    BY <1>5, <2>2 DEF AnnotateDeviceJoined, TypeOK
  <2>4. /\ device'[d] = new /\ Entry(new).val = new
        /\ cached'[d] \in {Entry(new), None, cached[d]}
    BY <1>5, <2>2 DEF AnnotateDeviceJoined, TypeOK, Entry
  <2>5. \A e \in Device \ {d} : kept'[e] = kept[e] /\ device'[e] = device[e]
                                 /\ cached'[e] = cached[e]
    BY <1>5 DEF AnnotateDeviceJoined, TypeOK
  <2>6. edited' = edited
    BY <1>5 DEF AnnotateDeviceJoined
  <2> HIDE DEF d, new
  <2>7. \A e \in Device : kept'[e] => kept[e] /\ device'[e].age = device[e].age
    BY <2>3, <2>4, <2>5
  <2>8. \A e \in Device :
          cached'[e] = None \/ cached'[e] = cached[e] \/ cached'[e].val = device'[e]
    BY <2>4, <2>5
  <2> QED BY <2>1, <2>6, <2>7, <2>8 DEF EditInv
<1>6. ASSUME NEW d \in Device, EditDevice(d) PROVE EditInv'
  <2>1. /\ edited'[d] = 0
        /\ \A e \in Device \ {d} :
             device'[e] = device[e] /\ edited'[e] = edited[e] /\ kept'[e] = kept[e]
        /\ proc' = proc /\ cached' = cached
    BY <1>6 DEF EditDevice, TypeOK
  <2>2. \A e \in Device : cached[e] # None => cached[e].left \in 1..Minute
    BY DEF TypeOK
  <2>3. \A i \in Handler : proc[i].held \in Nat
    BY DEF TypeOK, Goroutine
  <2> SUFFICES ASSUME NEW e \in Device, kept'[e]
               PROVE  /\ cached[e] # None /\ cached[e].val.age # device'[e].age
                           => edited'[e] + cached[e].left <= Minute
                      /\ \A i \in Handler :
                           proc[i].pc \in {"age", "join"} /\ proc[i].d = e
                             /\ proc[i].copy.age # device'[e].age
                           => edited'[e] < Minute + proc[i].held
    BY <2>1 DEF EditInv
  <2>4. CASE e = d
    BY <2>1, <2>2, <2>3, <2>4
  <2>5. CASE e # d
    BY <2>1, <2>5 DEF EditInv
  <2> QED BY <2>4, <2>5
<1>7. CASE EditProfile
  BY <1>7 DEF EditProfile, EditInv
<1>8. CASE Evict
  <2>1. \A e \in Device : cached'[e] = None \/ cached'[e] = cached[e]
    BY <1>8 DEF Evict, TypeOK
  <2> QED BY <1>8, <2>1 DEF Evict, EditInv
<1>9. CASE Restart
  <2>1. \A i \in Handler : proc'[i].pc = "idle"
    BY <1>9, IdleType DEF Restart
  <2> QED BY <1>9, <2>1 DEF Restart, EditInv
<1>10. CASE Tick
  <2>1. \A i \in Handler :
          \/ proc'[i].pc = "idle"
          \/ /\ proc'[i].pc = proc[i].pc /\ proc'[i].d = proc[i].d
             /\ proc'[i].copy = proc[i].copy /\ proc'[i].held = proc[i].held + 1
             /\ proc[i].held + 1 <= Patience /\ proc[i].held \in Nat
    BY <1>10, IdleType DEF Tick, TypeOK, Goroutine
  <2>2. \A e \in Device :
          \/ cached'[e] = None
          \/ /\ cached[e] # None /\ cached'[e].val = cached[e].val
             /\ cached'[e].left = cached[e].left - 1 /\ cached[e].left \in 1..Minute
    BY <1>10 DEF Tick, TypeOK, Older
  <2>3. \A e \in Device : edited'[e] = Later(edited[e]) /\ edited[e] \in 0..Window
    BY <1>10 DEF Tick, TypeOK
  <2>4. device' = device /\ kept' = kept
    BY <1>10 DEF Tick
  <2> SUFFICES ASSUME NEW e \in Device, kept[e]
               PROVE  /\ cached'[e] # None /\ cached'[e].val.age # device[e].age
                           => edited'[e] + cached'[e].left <= Minute
                      /\ \A i \in Handler :
                           proc'[i].pc \in {"age", "join"} /\ proc'[i].d = e
                             /\ proc'[i].copy.age # device[e].age
                           => edited'[e] < Minute + proc'[i].held
    BY <2>4 DEF EditInv
  <2>5. cached'[e] # None /\ cached'[e].val.age # device[e].age
          => edited'[e] + cached'[e].left <= Minute
    BY <2>2, <2>3 DEF EditInv, Later, Window
  <2>6. ASSUME NEW i \in Handler, proc'[i].pc \in {"age", "join"}, proc'[i].d = e,
               proc'[i].copy.age # device[e].age
        PROVE  edited'[e] < Minute + proc'[i].held
    BY <2>1, <2>3, <2>6 DEF EditInv, Later, Window
  <2> QED BY <2>5, <2>6
<1>11. CASE UNCHANGED vars
  BY <1>11 DEF vars, EditInv
<1> QED
  BY <1>1, <1>2, <1>3, <1>4, <1>5, <1>6, <1>7, <1>8, <1>9, <1>10, <1>11
  DEF Next, Handle

\* A join overwrites a user's change only as long as it is younger than the
\* cache's time and the handlers' together, for any durations and any number of
\* handlers that overlap, whether or not replies are lost (AnnotateDeviceJoined).
THEOREM EditCorrect == Spec => EditLostOnlyEarly
<1>1. TypeOK /\ EditInv /\ [Next]_vars =>
        [\A d \in Device :
           edits' = edits /\ kept[d] /\ device'[d].age # device[d].age
             => edited[d] < Window]_vars
  <2> SUFFICES ASSUME TypeOK, EditInv, Next, NEW d \in Device, edits' = edits,
                      kept[d], device'[d].age # device[d].age
               PROVE  edited[d] < Window
    OBVIOUS
  <2>1. PICK h \in Handler : AnnotateDeviceJoined(h)
    <3>1. edits \in Nat /\ device' # device
      BY DEF TypeOK
    <3>2. \A e \in Device : ~ EditDevice(e)
      BY <3>1 DEF EditDevice
    <3>3. \A h \in Handler : ~ HandleUplink(h) /\ ~ MessageMaxAge(h) /\ ~ SetKeys(h)
                            /\ ~ HandleJoin(h) /\ ~ CallError(h)
      BY <3>1 DEF HandleUplink, MessageMaxAge, SetKeys, HandleJoin, CallError
    <3>4. ~ EditProfile /\ ~ Evict /\ ~ Restart /\ ~ Tick
      BY <3>1 DEF EditProfile, Evict, Restart, Tick
    <3> QED BY <3>2, <3>3, <3>4 DEF Next, Handle
  <2>2. proc[h].pc = "join" /\ proc[h].d \in Device /\ proc[h].copy \in Attributes
    BY <2>1 DEF AnnotateDeviceJoined, At, TypeOK
  <2>3. device' = [device EXCEPT ![proc[h].d] = [proc[h].copy EXCEPT !.joined = TRUE]]
    BY <2>1 DEF AnnotateDeviceJoined
  <2>4. proc[h].d = d /\ proc[h].copy.age # device[d].age
    BY <2>2, <2>3 DEF TypeOK, Attributes
  <2>5. edited[d] < Minute + proc[h].held
    BY <2>2, <2>4 DEF EditInv
  <2>6. proc[h].held \in 0..Patience /\ edited[d] \in 0..Window
    BY DEF TypeOK, Goroutine
  <2> QED BY <2>5, <2>6 DEF Window
<1> QED
  BY <1>1, InitType, StepType, InitInv, EditStep, PTL DEF Spec, EditLostOnlyEarly

-----------------------------------------------------------------------------
(* What keys live for.                                                     *)

LEMMA IntervalStep == TypeOK /\ IntervalInv /\ [Next]_vars => IntervalInv'
<1> SUFFICES ASSUME TypeOK, IntervalInv, [Next]_vars PROVE IntervalInv'
  OBVIOUS
<1>1. ASSUME NEW h \in Handler, MessageMaxAge(h) PROVE IntervalInv'
  <2>1. known' = known \/ known'.val = interval
    BY <1>1 DEF MessageMaxAge, UseProfile, Entry
  <2> QED BY <1>1, <2>1 DEF MessageMaxAge, IntervalInv
<1>2. CASE EditProfile
  <2>1. known # None => known.left \in 1..Minute
    BY DEF TypeOK
  <2> QED BY <1>2, <2>1 DEF EditProfile, IntervalInv
<1>3. CASE Evict
  BY <1>3 DEF Evict, IntervalInv
<1>4. CASE Tick
  <2>1. \/ known' = None
        \/ /\ known # None /\ known'.val = known.val
           /\ known'.left = known.left - 1 /\ known.left \in 1..Minute
    BY <1>4 DEF Tick, TypeOK, Older
  <2>2. changed \in 0..Window /\ changed' = Later(changed) /\ interval' = interval
    BY <1>4 DEF Tick, TypeOK
  <2> QED BY <2>1, <2>2 DEF IntervalInv, Later, Window
<1>5. CASE UNCHANGED <<known, interval, changed>>
  BY <1>5 DEF IntervalInv
<1>6. [Next]_vars =>
        \/ \E h \in Handler : MessageMaxAge(h)
        \/ EditProfile \/ Evict \/ Tick
        \/ UNCHANGED <<known, interval, changed>>
  BY DEF Next, Handle, HandleUplink, SetKeys, HandleJoin, AnnotateDeviceJoined,
         CallError, EditDevice, Restart, vars
<1> QED
  BY <1>1, <1>2, <1>3, <1>4, <1>5, <1>6

\* The decision of a goroutine.
LEMMA DecisionFacts ==
  ASSUME TypeOK, EditInv, IntervalInv, NEW h \in Handler, MessageMaxAge(h),
         kept[proc[h].d], Minute + proc[h].held <= edited[proc[h].d],
         Minute + proc[h].held <= changed
  PROVE  Expiration(proc'[h].age) \in Due(device[proc[h].d].age, interval)
<1> DEFINE d == proc[h].d
<1>1. /\ proc[h].pc = "age" /\ d \in Device /\ proc[h].copy \in Attributes
      /\ proc[h].held \in Nat /\ edited[d] \in Nat /\ changed \in Nat
      /\ proc[h] \in Goroutine
  BY DEF MessageMaxAge, At, TypeOK, Goroutine, Window
<1>2. proc[h].copy.age = device[d].age
  BY <1>1 DEF EditInv
<1>3. ASSUME NEW a, Goto(h, [proc[h] EXCEPT !.pc = "set", !.copy = None, !.age = a])
      PROVE  proc'[h].age = a
  BY <1>1, <1>3 DEF Goto, TypeOK, Goroutine
<1>4. CASE device[d].age # None
  <2>1. proc'[h].age = IF device[d].age = Unparsable THEN 0 ELSE device[d].age
    BY <1>2, <1>3, <1>4 DEF MessageMaxAge
  <2> QED BY <1>4, <2>1 DEF Due, Expiration
<1>5. CASE device[d].age = None
  <2>1. \/ proc'[h].age = UseProfile.val
        \/ proc'[h].age = Hour
    BY <1>2, <1>3, <1>5 DEF MessageMaxAge
  <2>2. known # None => known.left \in 1..Minute
    BY DEF TypeOK
  <2>3. UseProfile.val = interval
    BY <1>1, <2>2 DEF UseProfile, Entry, IntervalInv
  <2>4. Expiration(Hour) = Hour
    BY DEF Expiration
  <2>5. Due(device[d].age, interval) = {Hour, Expiration(interval)}
    BY <1>5 DEF Due
  <2> QED BY <2>1, <2>3, <2>4, <2>5
<1> QED
  BY <1>4, <1>5

LEMMA SetStep ==
  TypeOK /\ EditInv /\ IntervalInv /\ SetInv /\ [Next]_vars => SetInv'
<1> SUFFICES ASSUME TypeOK, EditInv, IntervalInv, SetInv, [Next]_vars,
                    NEW h \in Handler, proc'[h].pc = "set", kept'[proc'[h].d],
                    Minute + proc'[h].held <= edited'[proc'[h].d],
                    Minute + proc'[h].held <= changed'
             PROVE  Expiration(proc'[h].age) \in Due(device'[proc'[h].d].age, interval')
  BY DEF SetInv
<1> DEFINE d == proc[h].d
<1> USE DEF Goto, At
<1>t. /\ proc[h] \in Goroutine /\ proc[h].held \in 0..Patience
      /\ changed \in 0..Window /\ \A e \in Device : edited[e] \in 0..Window
      /\ proc[h].pc = "set" => d \in Device
  BY DEF TypeOK, Goroutine
\* The goroutine is the one it was, and nothing it depends on has changed.
<1>s. ASSUME proc'[h] = proc[h], kept'[d] => kept[d], edited'[d] = edited[d],
             changed' = changed, device'[d].age = device[d].age, interval' = interval
      PROVE  Expiration(proc'[h].age) \in Due(device'[proc'[h].d].age, interval')
  <2>1. Expiration(proc[h].age) \in Due(device[d].age, interval)
    BY <1>s DEF SetInv
  <2> QED BY <1>s, <2>1
<1>1. ASSUME NEW i \in Handler, HandleUplink(i)
      PROVE  Expiration(proc'[h].age) \in Due(device'[proc'[h].d].age, interval')
  <2>1. PICK e \in Device, gws \in SUBSET Gateway : GetDevice(i, e, "age", gws)
    BY <1>1 DEF HandleUplink
  <2>2. proc'[i].pc = "age" /\ \A j \in Handler \ {i} : proc'[j] = proc[j]
    BY <2>1, GetDeviceFacts DEF Got
  <2>3. proc'[h] = proc[h]
    BY <2>2
  <2> QED BY <1>1, <1>s, <2>3 DEF HandleUplink
<1>2. ASSUME NEW i \in Handler, HandleJoin(i)
      PROVE  Expiration(proc'[h].age) \in Due(device'[proc'[h].d].age, interval')
  <2>1. PICK e \in Device : GetDevice(i, e, "join", {})
    BY <1>2 DEF HandleJoin
  <2>2. proc'[i].pc = "join" /\ \A j \in Handler \ {i} : proc'[j] = proc[j]
    BY <2>1, GetDeviceFacts DEF Got
  <2>3. proc'[h] = proc[h]
    BY <2>2
  <2> QED BY <1>2, <1>s, <2>3 DEF HandleJoin
<1>3. ASSUME NEW i \in Handler, MessageMaxAge(i)
      PROVE  Expiration(proc'[h].age) \in Due(device'[proc'[h].d].age, interval')
  <2>1. /\ \A j \in Handler \ {i} : proc'[j] = proc[j]
        /\ UNCHANGED <<device, interval, edited, changed, kept>>
    BY <1>3 DEF MessageMaxAge, TypeOK
  <2>2. CASE i # h
    BY <1>s, <2>1, <2>2
  <2>3. CASE i = h
    <3>1. proc'[h].d = d /\ proc'[h].held = proc[h].held
      <4>1. ASSUME NEW a, Goto(h, [proc[h] EXCEPT !.pc = "set", !.copy = None, !.age = a])
            PROVE  proc'[h].d = d /\ proc'[h].held = proc[h].held
        BY <1>t, <4>1 DEF TypeOK, Goroutine
      <4> QED BY <1>3, <2>3, <4>1 DEF MessageMaxAge
    <3>2. Expiration(proc'[h].age) \in Due(device[d].age, interval)
      BY <1>3, <2>1, <2>3, <3>1, DecisionFacts
    <3> QED BY <2>1, <3>1, <3>2
  <2> QED BY <2>2, <2>3
<1>4. ASSUME NEW i \in Handler, SetKeys(i) \/ CallError(i)
      PROVE  Expiration(proc'[h].age) \in Due(device'[proc'[h].d].age, interval')
  <2>1. proc'[h] = proc[h]
    BY <1>4, IdleType DEF SetKeys, CallError, TypeOK
  <2> QED BY <1>4, <1>s, <2>1 DEF SetKeys, CallError
<1>5. ASSUME NEW i \in Handler, AnnotateDeviceJoined(i)
      PROVE  Expiration(proc'[h].age) \in Due(device'[proc'[h].d].age, interval')
  <2> DEFINE new == [proc[i].copy EXCEPT !.joined = TRUE]
             e == proc[i].d
  <2>1. proc'[h] = proc[h]
    BY <1>5, IdleType DEF AnnotateDeviceJoined, TypeOK
  <2>2. e \in Device /\ d \in Device
    BY <1>5, <1>t, <2>1 DEF AnnotateDeviceJoined, TypeOK
  <2>3. /\ device' = [device EXCEPT ![e] = new]
        /\ kept' = [kept EXCEPT ![e] = @ /\ new.age = device[e].age]
        /\ UNCHANGED <<interval, edited, changed>>
    BY <1>5 DEF AnnotateDeviceJoined
  <2> HIDE DEF new, e
  <2>4. kept[d] /\ device'[d].age = device[d].age
    <3>1. CASE d = e
      BY <2>1, <2>2, <2>3, <3>1 DEF TypeOK
    <3>2. CASE d # e
      BY <2>1, <2>2, <2>3, <3>2 DEF TypeOK
    <3> QED BY <3>1, <3>2
  <2> QED BY <1>s, <2>1, <2>3, <2>4
<1>6. ASSUME NEW e \in Device, EditDevice(e)
      PROVE  Expiration(proc'[h].age) \in Due(device'[proc'[h].d].age, interval')
  <2>1. /\ edited'[e] = 0 /\ proc' = proc /\ UNCHANGED <<interval, changed>>
        /\ \A f \in Device \ {e} :
             device'[f] = device[f] /\ edited'[f] = edited[f] /\ kept'[f] = kept[f]
    BY <1>6 DEF EditDevice, TypeOK
  <2>2. d # e /\ d \in Device
    BY <1>t, <2>1
  <2> QED BY <1>s, <2>1, <2>2
<1>7. CASE EditProfile
  <2>1. changed' = 0 /\ proc' = proc
    BY <1>7 DEF EditProfile
  <2> QED BY <1>t, <2>1
<1>8. CASE Evict
  BY <1>8, <1>s DEF Evict
<1>9. CASE Restart
  BY <1>9, IdleType DEF Restart
<1>10. CASE Tick
  <2>1. /\ proc'[h].pc = proc[h].pc /\ proc'[h].d = d /\ proc'[h].age = proc[h].age
        /\ proc'[h].held = proc[h].held + 1 /\ proc[h].held + 1 <= Patience
    BY <1>10, <1>t, IdleType DEF Tick, TypeOK, Goroutine
  <2>2. d \in Device
    BY <1>t, <2>1
  <2>3. /\ UNCHANGED <<device, interval, kept>>
        /\ edited'[d] = Later(edited[d]) /\ changed' = Later(changed)
    BY <1>10, <2>2 DEF Tick
  <2>4. Minute + proc[h].held <= edited[d] /\ Minute + proc[h].held <= changed
    BY <1>t, <2>1, <2>2, <2>3 DEF Later, Window
  <2>5. Expiration(proc[h].age) \in Due(device[d].age, interval)
    BY <2>1, <2>3, <2>4 DEF SetInv
  <2> QED BY <2>1, <2>3, <2>5
<1>11. CASE UNCHANGED vars
  BY <1>11, <1>s DEF vars
<1> QED
  BY <1>1, <1>2, <1>3, <1>4, <1>5, <1>6, <1>7, <1>8, <1>9, <1>10, <1>11
  DEF Next, Handle

LEMMA InvStep == Inv /\ [Next]_vars => Inv'
  BY StepType, EditStep, IntervalStep, SetStep DEF Inv

\* Once a change of a device or of the profile has had the cache's time and a
\* handler's, every key is set with the max age that is due: also when the
\* profile could not be read, and whatever other handlers hold (HandleEvent).
THEOREM ChangeCorrect == Spec => ChangeTakesEffect
<1>1. Init => Inv
  BY InitType, InitInv DEF Inv
<1>2. Inv /\ [Next]_vars =>
        [\A h \in Handler, g \in Gateway :
           LET d == proc[h].d IN
           At(h, "set") /\ At(h, "idle")' /\ g \in proc[h].gws
             /\ edited[d] = Window /\ changed = Window /\ kept[d]
             => key'[<<g, d>>] \in Due(device[d].age, interval) \cup {key[<<g, d>>]}]_vars
  <2> SUFFICES ASSUME Inv, Next, NEW h \in Handler, NEW g \in Gateway,
                      At(h, "set"), At(h, "idle")', g \in proc[h].gws,
                      edited[proc[h].d] = Window, changed = Window, kept[proc[h].d]
               PROVE  key'[<<g, proc[h].d>>]
                        \in Due(device[proc[h].d].age, interval) \cup {key[<<g, proc[h].d>>]}
    OBVIOUS
  <2> DEFINE d == proc[h].d
  <2>1. proc[h].held \in 0..Patience /\ d \in Device
    BY DEF Inv, TypeOK, Goroutine, At
  <2>2. Expiration(proc[h].age) \in Due(device[d].age, interval)
    BY <2>1 DEF Inv, SetInv, At, Window
  <2>3. CASE UNCHANGED key
    BY <2>3
  <2>4. ASSUME NEW i \in Handler, SetKeys(i)
        PROVE  key'[<<g, d>>] \in Due(device[d].age, interval) \cup {key[<<g, d>>]}
    <3>1. i = h
      BY <2>4 DEF SetKeys, Goto, At, Inv, TypeOK
    <3>2. key'[<<g, d>>] \in {Expiration(proc[h].age), key[<<g, d>>]}
      BY <2>1, <2>4, <3>1 DEF SetKeys
    <3> QED BY <2>2, <3>2
  <2>5. ~ Tick
    BY DEF Tick, At, Inv, TypeOK, Goroutine, Idle
  <2>6. UNCHANGED key \/ \E i \in Handler : SetKeys(i)
    BY <2>5 DEF Next, Handle, HandleUplink, MessageMaxAge, HandleJoin,
       AnnotateDeviceJoined, CallError, EditDevice, EditProfile, Evict, Restart
  <2> QED BY <2>3, <2>4, <2>6
<1> QED
  BY <1>1, <1>2, InvStep, PTL DEF Spec, ChangeTakesEffect

-----------------------------------------------------------------------------
(* Keys that never expire.                                                 *)

\* Users give devices max ages that can be parsed and are positive, or none,
\* and the profile a positive interval.
Finite(age) == age # None => age \in MaxAge /\ age > 0
Positive == (\A d \in Device : Finite(device[d].age)) /\ interval > 0

\* Then no copy has another one, and no goroutine is about to set a key without
\* an expiry.
ExpiryInv ==
  /\ \A d \in Device : cached[d] # None => Finite(cached[d].val.age)
  /\ known # None => known.val > 0
  /\ \A h \in Handler :
       /\ proc[h].pc \in {"age", "join"} => Finite(proc[h].copy.age)
       /\ proc[h].pc = "set" => proc[h].age > 0
  /\ KeysExpire

LEMMA ExpiryStep ==
  ASSUME TypeOK, Positive, ExpiryInv, [Next]_vars
  PROVE  ExpiryInv'
<1> USE DEF Goto, At
<1> DEFINE CacheOK == \A d \in Device : cached[d] # None => Finite(cached[d].val.age)
           KnownOK == known # None => known.val > 0
           HandlerOK(h) == /\ proc[h].pc \in {"age", "join"} => Finite(proc[h].copy.age)
                           /\ proc[h].pc = "set" => proc[h].age > 0
<1>a. CacheOK /\ KnownOK /\ (\A h \in Handler : HandlerOK(h)) /\ KeysExpire
  BY DEF ExpiryInv
<1>b. ASSUME CacheOK', KnownOK', \A h \in Handler : HandlerOK(h)', KeysExpire'
      PROVE  ExpiryInv'
  BY <1>b DEF ExpiryInv
<1>c. ASSUME UNCHANGED key PROVE KeysExpire'
  BY <1>a, <1>c DEF KeysExpire
<1>k. ASSUME UNCHANGED known PROVE KnownOK'
  BY <1>a, <1>k
<1>d. /\ proc \in [Handler -> Goroutine] /\ Idle.pc = "idle"
      /\ cached \in [Device -> [val : Attributes, left : 1..Minute] \cup {None}]
  BY IdleType DEF TypeOK
<1>e. ASSUME NEW h \in Handler, proc' = [proc EXCEPT ![h] = Idle]
      PROVE  \A i \in Handler : HandlerOK(i)'
  BY <1>a, <1>d, <1>e
<1>1. ASSUME NEW h \in Handler, NEW d \in Device, NEW pc \in {"age", "join"},
             NEW gws \in SUBSET Gateway, GetDevice(h, d, pc, gws), UNCHANGED <<key, known>>
      PROVE  ExpiryInv'
  <2>0. PICK entry : Got(h, d, pc, entry)
    BY <1>1, GetDeviceFacts
  <2>1. /\ entry = Use(cached[d], device[d])
        /\ cached' = [cached EXCEPT ![d] = entry]
        /\ \A i \in Handler \ {h} : proc'[i] = proc[i]
        /\ proc'[h].pc = pc /\ proc'[h].copy = entry.val
    BY <2>0 DEF Got
  <2>2. Finite(entry.val.age)
    BY <1>a, <2>1 DEF Use, Entry, Positive
  <2>3. CacheOK'
    BY <1>a, <1>d, <2>1, <2>2
  <2>4. \A i \in Handler : HandlerOK(i)'
    BY <1>a, <2>1, <2>2
  <2> QED BY <1>b, <1>c, <1>k, <1>1, <2>3, <2>4
<1>2. ASSUME NEW h \in Handler, MessageMaxAge(h)
      PROVE  ExpiryInv'
  <2>1. Finite(proc[h].copy.age)
    BY <1>a, <1>2 DEF MessageMaxAge
  <2>2. UseProfile.val \in Interval /\ UseProfile.val > 0
    BY <1>a DEF UseProfile, Entry, TypeOK, Positive
  <2>3. PICK a : /\ proc' = [proc EXCEPT ![h] = [proc[h] EXCEPT !.pc = "set", !.copy = None,
                                                   !.age = a]]
                 /\ a > 0
    <3>1. CASE proc[h].copy.age # None
      <4>1. proc[h].copy.age \in MaxAge /\ proc[h].copy.age > 0
        BY <2>1, <3>1 DEF Finite
      <4>2. proc[h].copy.age # Unparsable
        BY <4>1
      <4>3. Goto(h, [proc[h] EXCEPT !.pc = "set", !.copy = None, !.age = proc[h].copy.age])
        BY <1>2, <3>1, <4>2 DEF MessageMaxAge
      <4> QED BY <4>1, <4>3
    <3>2. CASE proc[h].copy.age = None
      <4>2. Hour > 0
        OBVIOUS
      <4>3. CASE Goto(h, [proc[h] EXCEPT !.pc = "set", !.copy = None, !.age = Hour])
        BY <4>2, <4>3
      <4>4. CASE Goto(h, [proc[h] EXCEPT !.pc = "set", !.copy = None, !.age = UseProfile.val])
        BY <2>2, <4>4
      <4> QED BY <1>2, <3>2, <4>3, <4>4 DEF MessageMaxAge
    <3> QED BY <3>1, <3>2
  <2>4. KnownOK'
    BY <1>a, <1>2, <2>2 DEF MessageMaxAge
  <2>5. proc'[h].pc = "set" /\ proc'[h].age = a
    BY <1>d, <2>3 DEF Goroutine
  <2>6. \A i \in Handler : HandlerOK(i)'
    BY <1>a, <1>d, <2>3, <2>5
  <2>7. UNCHANGED <<key, cached>>
    BY <1>2 DEF MessageMaxAge
  <2> QED BY <1>a, <1>b, <1>c, <2>4, <2>6, <2>7
<1>3. ASSUME NEW h \in Handler, SetKeys(h)
      PROVE  ExpiryInv'
  <2>1. Expiration(proc[h].age) # Forever
    <3>1. proc[h].age \in Durations /\ proc[h].age > 0
      BY <1>a, <1>3 DEF SetKeys, TypeOK
    <3>2. proc[h].age \in Int
      <4>1. Durations \subseteq Int
        BY DEF Durations
      <4> QED BY <3>1, <4>1
    <3>3. ~ (proc[h].age <= 0)
      BY <3>1, <3>2
    <3>4. proc[h].age # Forever
      BY <3>2
    <3> QED BY <3>3, <3>4 DEF Expiration
  <2>2. KeysExpire'
    BY <1>a, <1>3, <2>1 DEF SetKeys, KeysExpire
  <2>3. UNCHANGED <<cached, known>>
    BY <1>3 DEF SetKeys
  <2> QED BY <1>a, <1>b, <1>e, <1>k, <1>3, <2>2, <2>3 DEF SetKeys
<1>4. ASSUME NEW h \in Handler, AnnotateDeviceJoined(h)
      PROVE  ExpiryInv'
  <2> DEFINE d == proc[h].d
             new == [proc[h].copy EXCEPT !.joined = TRUE]
  <2>1. Finite(new.age)
    BY <1>a, <1>4 DEF AnnotateDeviceJoined, TypeOK, Attributes
  <2>2. \/ cached' = [cached EXCEPT ![d] = Entry(new)]
        \/ cached' = [cached EXCEPT ![d] = None]
        \/ UNCHANGED cached
    BY <1>4 DEF AnnotateDeviceJoined
  <2>3. Entry(new).val = new
    BY DEF Entry
  <2> HIDE DEF d, new
  <2>4. CacheOK'
    BY <1>a, <1>d, <2>1, <2>2, <2>3
  <2> QED BY <1>b, <1>c, <1>e, <1>k, <1>4, <2>4 DEF AnnotateDeviceJoined
<1>5. ASSUME NEW h \in Handler, CallError(h)
      PROVE  ExpiryInv'
  BY <1>a, <1>b, <1>c, <1>e, <1>k, <1>5 DEF CallError
<1>6. CASE Tick
  <2>1. \A d \in Device : cached'[d] # None => cached[d] # None /\ cached'[d].val = cached[d].val
    <3> SUFFICES ASSUME NEW d \in Device, cached'[d] # None
                 PROVE  cached[d] # None /\ cached'[d].val = cached[d].val
      OBVIOUS
    <3>1. cached'[d] = [cached[d] EXCEPT !.left = @ - 1] /\ cached[d] # None
      BY <1>6 DEF Tick, Older
    <3> QED BY <1>d, <3>1
  <2>2. \A h \in Handler : /\ proc'[h].pc = proc[h].pc /\ proc'[h].copy = proc[h].copy
                           /\ proc'[h].age = proc[h].age
    BY <1>6, <1>d, IdleType DEF Tick, Goroutine
  <2>3. KeysExpire'
    <3> SUFFICES ASSUME NEW k \in Gateway \X Device PROVE key'[k] # Forever
      BY DEF KeysExpire
    <3>1. key[k] # Forever /\ key[k] \in (Nat \ {0}) \cup {Forever, None} /\ DOMAIN key = Gateway \X Device
      BY <1>a DEF KeysExpire, TypeOK
    <3>2. key'[k] \in Nat \cup {None}
      <4>1. key'[k] = CASE key[k] \in {Forever, None} -> key[k]
                        [] key[k] = 1 -> None
                        [] OTHER -> key[k] - 1
        BY <1>6, <3>1 DEF Tick
      <4>2. CASE key[k] = None
        BY <4>1, <4>2
      <4>3. CASE key[k] # None
        <5>1. key[k] \notin {Forever, None} /\ key[k] \in Nat \ {0}
          BY <3>1, <4>3
        <5> QED BY <4>1, <5>1
      <4> QED BY <4>2, <4>3
    <3> QED BY <3>2, TimeAssumption
  <2>4. KnownOK'
    BY <1>6, <1>a DEF Tick, Older, TypeOK
  <2> QED BY <1>a, <1>b, <2>1, <2>2, <2>3, <2>4
<1>7. CASE Evict
  <2>1. \A d \in Device : cached'[d] \in {None, cached[d]}
    BY <1>7, <1>d DEF Evict
  <2>2. KnownOK'
    BY <1>7, <1>a DEF Evict
  <2> QED BY <1>a, <1>b, <1>c, <1>7, <2>1, <2>2 DEF Evict
<1>8. CASE Restart
  BY <1>a, <1>b, <1>c, <1>d, <1>k, <1>8 DEF Restart
<1>9. CASE \/ \E d \in Device : EditDevice(d)
           \/ EditProfile \/ UNCHANGED vars
  <2>1. UNCHANGED <<cached, known, proc, key>>
    BY <1>9 DEF EditDevice, EditProfile, vars
  <2> QED BY <1>a, <1>b, <1>c, <1>k, <2>1
<1>10. CASE \E h \in Handler : HandleUplink(h) \/ HandleJoin(h)
  BY <1>1, <1>10 DEF HandleUplink, HandleJoin
<1> QED
  BY <1>2, <1>3, <1>4, <1>5, <1>6, <1>7, <1>8, <1>9, <1>10 DEF Next, Handle

\* A key lives for ever only because of a max age that cannot be parsed, is zero
\* or is negative, or of an interval of zero: if users write none of these,
\* whatever is cached, fails or is held by other handlers, every key expires
\* (HandleEvent).
THEOREM KeysExpireCorrect == Spec /\ []Positive => []KeysExpire
<1>1. Init => TypeOK /\ ExpiryInv
  <2>1. ASSUME Init PROVE ExpiryInv
    BY <2>1, IdleType, TimeAssumption DEF Init, ExpiryInv, KeysExpire
  <2> QED BY <2>1, InitType
<1>2. TypeOK /\ ExpiryInv /\ Positive /\ [Next]_vars => (TypeOK /\ ExpiryInv)'
  BY StepType, ExpiryStep
<1>3. ExpiryInv => KeysExpire
  BY DEF ExpiryInv
<1> QED
  BY <1>1, <1>2, <1>3, PTL DEF Spec
================================================================================
