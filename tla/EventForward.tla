----------------------------- MODULE EventForward -----------------------------
(***************************************************************************)
(* Events of ChirpStack and what they leave behind (api/event.go,          *)
(* controller/event.go): an uplink sets, for each gateway that heard it, a  *)
(* key in Redis that expires with the device's message max age; GatewaySync *)
(* links hubs and devices by these keys.  A join marks the device of the    *)
(* platform: the handler takes the device from a cache, adds an attribute   *)
(* and writes all of it.  The cache is outside the process and keeps        *)
(* devices and profiles for a minute.                                      *)
(*                                                                         *)
(* Time passes in ticks.  EventContent and DeviceTypes model the part of   *)
(* HandleEvent that learns the value's variables.                          *)
(***************************************************************************)
EXTENDS Integers, FiniteSets

CONSTANTS
  Device, Gateway,
  Handler,      \* goroutines of POST /event, and those they start
  MaxAge,       \* durations of the attribute last_message_max_age: any that
                \* time.ParseDuration accepts, negative ones too
  Interval,     \* uplink intervals of the device profile
  Minute,       \* what the cache keeps an entry
  Hour,         \* max age if the profile cannot be read
  Patience,     \* calls of the libraries return within this time
  CallsFail,    \* remote calls may fail or lose their reply
  MaxEdits,     \* bound on what users change
  Unparsable,   \* an attribute that time.ParseDuration refuses
  Forever, None

ASSUME TimeAssumption ==
  /\ MaxAge \subseteq Int /\ Interval \subseteq Nat
  /\ Minute \in Nat \ {0} /\ Hour \in Nat \ {0} /\ Patience \in Nat
  /\ MaxEdits \in Nat /\ CallsFail \in BOOLEAN
  /\ Unparsable # None /\ {Unparsable, None} \cap (MaxAge \cup Interval) = {}
  /\ Forever \notin Int \cup {None}

VARIABLES
  device,    \* device repository: the attributes that matter here
  interval,  \* ChirpStack: uplink interval of the profile
  cached,    \* memcached: a device and the time left for it
  known,     \* memcached: the interval and the time left for it
  key,       \* Redis: time left for "gateway_<gateway>_<device>"
  proc,      \* goroutines
  edited,    \* history: time since a user changed the device, kept short
  changed,   \* ... the profile's interval
  kept,      \* history: no handler has written away that change yet
  edits

vars == <<device, interval, cached, known, key, proc, edited, changed, kept, edits>>

-----------------------------------------------------------------------------
Attr == MaxAge \cup {Unparsable, None}
Attributes == [age : Attr, joined : BOOLEAN]
Durations == MaxAge \cup Interval \cup {0, Hour}
Window == Minute + Patience
Idle == [pc |-> "idle", d |-> None, copy |-> None, gws |-> {}, age |-> None, held |-> 0]

Goroutine ==
  [pc : {"idle", "age", "set", "join"}, d : Device \cup {None},
   copy : Attributes \cup {None}, gws : SUBSET Gateway,
   age : Durations \cup {None}, held : 0..Patience]

\* Goroutines hold what their next call needs, for Patience at most; a key that
\* is there has time left.
TypeOK ==
  /\ device \in [Device -> Attributes]
  /\ interval \in Interval
  /\ cached \in [Device -> [val : Attributes, left : 1..Minute] \cup {None}]
  /\ known \in [val : Interval, left : 1..Minute] \cup {None}
  /\ key \in [Gateway \X Device -> (Nat \ {0}) \cup {Forever, None}]
  /\ proc \in [Handler -> Goroutine]
  /\ \A h \in Handler :
       /\ proc[h].pc # "idle" => proc[h].d \in Device
       /\ proc[h].pc \in {"age", "join"} => proc[h].copy \in Attributes
       /\ proc[h].pc = "set" => proc[h].age \in Durations
  /\ edited \in [Device -> 0..Window] /\ changed \in 0..Window
  /\ kept \in [Device -> BOOLEAN]
  /\ edits \in 0..MaxEdits

At(h, p) == proc[h].pc = p
Goto(h, l) == proc' = [proc EXCEPT ![h] = l]
Entry(val) == [val |-> val, left |-> Minute]

-----------------------------------------------------------------------------
(* The cache.                                                              *)

\* Fault: a hit prolongs the entry's life.
UseSliding(entry, current) == Entry(IF entry # None THEN entry.val ELSE current)
\* What cache.Use has afterwards: the entry it has, or a new one.
Use(entry, current) == IF entry # None THEN entry ELSE Entry(current)

UseProfileSliding == Entry(IF known # None THEN known.val ELSE interval)
\* The same for lpc_device_profile_<id>.
UseProfile == IF known # None THEN known ELSE Entry(interval)

\* GetDeviceByLocalId of a handler that goes on at pc.
GetDevice(h, d, pc, gws) ==
  /\ At(h, "idle")
  /\ LET entry == Use(cached[d], device[d]) IN
     /\ cached' = [cached EXCEPT ![d] = entry]
     /\ Goto(h, [Idle EXCEPT !.pc = pc, !.d = d, !.gws = gws, !.copy = entry.val])

-----------------------------------------------------------------------------
(* An uplink: the goroutine of HandleEvent.                                *)

\* HandleEvent; without rxInfo (and for "status") nothing else happens here.
HandleUplink(h) ==
  /\ \E d \in Device, gws \in (SUBSET Gateway) \ {{}} : GetDevice(h, d, "age", gws)
  /\ UNCHANGED <<device, interval, known, key, edited, changed, kept, edits>>

\* Fault: an attribute that cannot be parsed is as good as none.
MessageMaxAgeLenient(h) ==
  /\ At(h, "age")
  /\ \/ /\ proc[h].copy.age \in MaxAge
        /\ Goto(h, [proc[h] EXCEPT !.pc = "set", !.copy = None, !.age = proc[h].copy.age])
        /\ UNCHANGED known
     \/ /\ proc[h].copy.age \notin MaxAge
        /\ known' = UseProfile
        /\ Goto(h, [proc[h] EXCEPT !.pc = "set", !.copy = None, !.age = known'.val])
  /\ UNCHANGED <<device, interval, cached, key, edited, changed, kept, edits>>

\* The expiration: the attribute's; zero if it cannot be parsed; without an
\* attribute that of the profile, or an hour if that cannot be read.
MessageMaxAge(h) ==
  /\ At(h, "age")
  /\ \/ /\ proc[h].copy.age # None
        /\ Goto(h, [proc[h] EXCEPT !.pc = "set", !.copy = None,
                      !.age = IF proc[h].copy.age = Unparsable THEN 0
                              ELSE proc[h].copy.age])
        /\ UNCHANGED known
     \/ /\ proc[h].copy.age = None
        /\ known' = UseProfile
        /\ Goto(h, [proc[h] EXCEPT !.pc = "set", !.copy = None, !.age = known'.val])
     \/ /\ CallsFail /\ proc[h].copy.age = None /\ known = None
        /\ Goto(h, [proc[h] EXCEPT !.pc = "set", !.copy = None, !.age = Hour])
        /\ UNCHANGED known
  /\ UNCHANGED <<device, interval, cached, key, edited, changed, kept, edits>>

\* Fault: the duration is taken for the time left whatever its sign.
SetKeysZero(h) ==
  /\ At(h, "set")
  /\ key' = [k \in Gateway \X Device |->
               IF k \in proc[h].gws \X {proc[h].d} THEN proc[h].age ELSE key[k]]
  /\ Goto(h, Idle)
  /\ UNCHANGED <<device, interval, cached, known, edited, changed, kept, edits>>

\* The client sends Redis an expiry only if it is positive; without one the key
\* stays for ever.
Expiration(age) == IF age <= 0 THEN Forever ELSE age
\* Set of each key.
SetKeys(h) ==
  /\ At(h, "set")
  /\ \E set \in SUBSET proc[h].gws :
       /\ set = proc[h].gws \/ CallsFail
       /\ key' = [k \in Gateway \X Device |->
            IF k \in set \X {proc[h].d}
            THEN Expiration(proc[h].age) ELSE key[k]]
  /\ Goto(h, Idle)
  /\ UNCHANGED <<device, interval, cached, known, edited, changed, kept, edits>>

-----------------------------------------------------------------------------
(* A join: AnnotateDeviceJoined.                                           *)

HandleJoin(h) ==
  /\ \E d \in Device : GetDevice(h, d, "join", {})
  /\ UNCHANGED <<device, interval, known, key, edited, changed, kept, edits>>

\* UpsertDeviceAttribute, and UpdateDevice whether or not that changed anything.
\* The library's cache has the new device afterwards, or none, or, if the reply
\* is lost, the one it had.
AnnotateDeviceJoined(h) ==
  /\ At(h, "join")
  /\ LET d == proc[h].d
         new == [proc[h].copy EXCEPT !.joined = TRUE]
     IN /\ device' = [device EXCEPT ![d] = new]
        /\ kept' = [kept EXCEPT ![d] = @ /\ new.age = device[d].age]
        /\ \/ cached' = [cached EXCEPT ![d] = Entry(new)]
           \/ cached' = [cached EXCEPT ![d] = None]
           \/ CallsFail /\ UNCHANGED cached
  /\ Goto(h, Idle)
  /\ UNCHANGED <<interval, known, key, edited, changed, edits>>

CallError(h) ==
  /\ CallsFail
  /\ At(h, "join")
  /\ Goto(h, Idle)
  /\ UNCHANGED <<device, interval, cached, known, key, edited, changed, kept, edits>>

-----------------------------------------------------------------------------
(* Environment.                                                            *)

\* A user changes the max age of a device, or the interval of the profile.
EditDevice(d) ==
  /\ edits < MaxEdits
  /\ \E a \in Attr \ {device[d].age} : device' = [device EXCEPT ![d].age = a]
  /\ edited' = [edited EXCEPT ![d] = 0]
  /\ kept' = [kept EXCEPT ![d] = TRUE]
  /\ edits' = edits + 1
  /\ UNCHANGED <<interval, cached, known, key, proc, changed>>
EditProfile ==
  /\ edits < MaxEdits
  /\ interval' \in Interval \ {interval}
  /\ changed' = 0
  /\ edits' = edits + 1
  /\ UNCHANGED <<device, cached, known, key, proc, edited, kept>>

\* Memcached drops entries when it likes.  The process may restart.
Evict ==
  /\ \/ \E d \in Device : cached[d] # None /\ cached' = [cached EXCEPT ![d] = None]
                            /\ UNCHANGED known
     \/ known # None /\ known' = None /\ UNCHANGED cached
  /\ UNCHANGED <<device, interval, key, proc, edited, changed, kept, edits>>
Restart ==
  /\ \E h \in Handler : proc[h] # Idle
  /\ proc' = [h \in Handler |-> Idle]
  /\ UNCHANGED <<device, interval, cached, known, key, edited, changed, kept, edits>>

Older(entry) ==
  IF entry = None \/ entry.left = 1 THEN None ELSE [entry EXCEPT !.left = @ - 1]
Later(n) == IF n < Window THEN n + 1 ELSE n
Tick ==
  /\ \A h \in Handler : proc[h] # Idle => proc[h].held < Patience
  /\ proc' = [h \in Handler |->
                IF proc[h] = Idle THEN Idle ELSE [proc[h] EXCEPT !.held = @ + 1]]
  /\ cached' = [d \in Device |-> Older(cached[d])]
  /\ known' = Older(known)
  /\ key' = [k \in DOMAIN key |->
               CASE key[k] \in {Forever, None} -> key[k]
                 [] key[k] = 1 -> None
                 [] OTHER -> key[k] - 1]
  /\ edited' = [d \in Device |-> Later(edited[d])]
  /\ changed' = Later(changed)
  /\ UNCHANGED <<device, interval, kept, edits>>

-----------------------------------------------------------------------------
Init ==
  /\ device \in [Device -> [age : Attr, joined : {FALSE}]]
  /\ interval \in Interval
  /\ cached = [d \in Device |-> None] /\ known = None
  /\ key = [k \in Gateway \X Device |-> None]
  /\ proc = [h \in Handler |-> Idle]
  /\ edited = [d \in Device |-> Window] /\ changed = Window
  /\ kept = [d \in Device |-> TRUE]
  /\ edits = 0

Handle(h) ==
  \/ HandleUplink(h) \/ MessageMaxAge(h) \/ SetKeys(h)
  \/ HandleJoin(h) \/ AnnotateDeviceJoined(h) \/ CallError(h)

Next ==
  \/ \E h \in Handler : Handle(h)
  \/ \E d \in Device : EditDevice(d)
  \/ EditProfile \/ Evict \/ Restart \/ Tick

Spec == Init /\ [][Next]_vars

-----------------------------------------------------------------------------
\* A user's change of a device that has outlived the cache's minute and the
\* handlers of that time is safe from joins, which write back whole devices from
\* copies: whatever overlaps, fails or is cached (AnnotateDeviceJoined).
EditLostOnlyEarly ==
  [][\A d \in Device :
       edits' = edits /\ kept[d] /\ device'[d].age # device[d].age
         => edited[d] < Window]_vars

\* What an uplink's keys live for, once neither device nor profile has changed
\* for that time: the device's max age, without one the profile's interval, or
\* an hour after a failed call (HandleEvent).
Due(age, uplink) ==
  CASE age = Unparsable -> {Forever}
    [] age = None -> {Hour, Expiration(uplink)}
    [] OTHER -> {Expiration(age)}
ChangeTakesEffect ==
  [][\A h \in Handler, g \in Gateway :
       LET d == proc[h].d IN
       At(h, "set") /\ At(h, "idle")' /\ g \in proc[h].gws
         /\ edited[d] = Window /\ changed = Window /\ kept[d]
         => key'[<<g, d>>] \in Due(device[d].age, interval) \cup {key[<<g, d>>]}]_vars

-----------------------------------------------------------------------------
(* Statements that do not hold of the code; see the README.                 *)

\* No join writes a user's change away.
EditKept == \A d \in Device : kept[d]

\* A device that is heard no more is forgotten.  (A max age that cannot be
\* parsed, is zero or is negative prevents it, and so does an interval of zero.)
KeysExpire == \A k \in Gateway \X Device : key[k] # Forever
=============================================================================
