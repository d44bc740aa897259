----------------------------- MODULE EventContent -----------------------------
(***************************************************************************)
(* What a device type knows of the values of one of its services           *)
(* (controller/sync_device_types.go): prepareContentVariable, which merges *)
(* the value of an event with the content variables that are known,        *)
(* ensureSyncedService around it, and the comparison with which the profile *)
(* sync decides whether to write the "status" service anew.                *)
(*                                                                         *)
(* JSON values and content variables are trees: functions of the paths, the *)
(* sequences of names, at which something stands.  A value has a type at   *)
(* each path, a variable a type and a note.  The elements of a list are    *)
(* named by their position.  One writer at a time: DeviceTypes models the  *)
(* races between writers.                                                  *)
(***************************************************************************)
EXTENDS Integers, Sequences, FiniteSets

CONSTANTS
  Name,         \* keys of objects and names of the elements of lists
  Scalar,       \* types of values that are neither objects nor lists
  Value,        \* values of uplinks
  StatusValue,  \* the values that postEvent makes of a status event
  Template,     \* root variable of the "status" service in prepareDeviceType
  MaxEdits,     \* bound on what users do to content variables
  Null, None

Nested == {"Structure", "List"}
Type == Nested \cup Scalar

VARIABLES
  status,   \* the service is "status", not a port
  content,  \* the root variable of the service's output, Nothing: no service
  event,    \* the value that HandleEvent is about to learn
  synced,   \* a profile sync has just run
  edits

vars == <<status, content, event, synced, edits>>

-----------------------------------------------------------------------------
(* Trees.                                                                  *)

Nothing == [p \in {} |-> None]

\* The paths on the way to p, and the paths of a tree that are one name longer.
Above(p) == {SubSeq(p, 1, k) : k \in 0..Len(p) - 1}
Children(t, p) == {c \in DOMAIN t : Len(c) = Len(p) + 1 /\ p \in Above(c)}

\* A value: finite, and only objects and lists have something in them.
IsValue(t) ==
  /\ t \in [DOMAIN t -> Type \cup {Null}]
  /\ IsFiniteSet(DOMAIN t) /\ DOMAIN t \subseteq Seq(Name)
  /\ <<>> \in DOMAIN t
  /\ \A p \in DOMAIN t : \A a \in Above(p) : a \in DOMAIN t /\ t[a] \in Nested

\* A content variable, which is no null.  The note stands for what the value
\* does not say: id, aspect, function, characteristic.
IsVariable(cv) ==
  /\ cv \in [DOMAIN cv -> [type : Type, note : BOOLEAN]]
  /\ IsValue([p \in DOMAIN cv |-> cv[p].type])

ASSUME NullAssumption == Null \notin Type /\ None \notin Type
ASSUME ContentAssumption ==
  /\ \A v \in Value \cup StatusValue : IsValue(v) /\ v # None
  /\ IsVariable(Template)
  /\ MaxEdits \in Nat

-----------------------------------------------------------------------------
(* prepareContentVariable of a value that is not null.                     *)

\* inferModelFromValue: null has no type.
Infer(type) == IF type = Null THEN None ELSE type

Note(base, p) == p \in DOMAIN base /\ base[p].note

\* The variables of the result.  The call for the part of the value at p makes
\* one for that part, one for each of its parts that is not null, with the
\* variable of the same name as base, and takes over what else the base has; the
\* last only if the part's type is one of keeping.
Variables(val, base, keeping) ==
  LET variables[p \in DOMAIN val] ==
        LET given == {c \in Children(val, p) : Infer(val[c]) # None}
            kept == IF Infer(val[p]) \in keeping
                    THEN Children(base, p) \ Children(val, p) ELSE {}
        IN {p} \cup (UNION {variables[c] : c \in given})
               \cup {q \in DOMAIN base : q \in kept \/ \E c \in kept : c \in Above(q)}
  IN variables[<<>>]

\* Type of the value, note of the base; what is taken over stays as it is.
Merged(val, base, keeping) ==
  [p \in Variables(val, base, keeping) |->
     IF p \in DOMAIN val THEN [type |-> Infer(val[p]), note |-> Note(base, p)]
     ELSE base[p]]

\* Faults: variables that the value lacks are dropped; those of a value that
\* has become a scalar are kept.
PrepareBare(val, base) == Merged(val, base, {})
PrepareKeeping(val, base) == Merged(val, base, Type)

\* What an object or a list does not mention is kept, what it says to be null is
\* dropped.
Prepare(val, base) == Merged(val, base, Nested)

-----------------------------------------------------------------------------
(* contentVariableNeedsUpdate: by name and type.                           *)

\* Fault: variables inside of variables are not looked at.
NeedsUpdateFlat(existing, new) ==
  \/ existing[<<>>] # new[<<>>]
  \/ \E c \in Children(new, <<>>) : c \notin DOMAIN existing

NeedsUpdate(existing, new) ==
  LET differs[p \in DOMAIN new] ==
        \/ existing[p].type # new[p].type \/ existing[p].note # new[p].note
        \/ \E c \in Children(new, p) :
             \/ c \notin DOMAIN existing \/ existing[c].type # new[c].type
             \/ differs[c]
  IN differs[<<>>]

-----------------------------------------------------------------------------
(* Actions.                                                                *)

\* POST /event with an uplink or a status; HandleEvent up to ensureSyncedService.
HandleEvent ==
  /\ event = None
  /\ event' \in IF status THEN StatusValue ELSE Value
  /\ synced' = FALSE
  /\ UNCHANGED <<status, content, edits>>

\* ensureSyncedService.  Null teaches nothing.
EnsureSyncedService ==
  /\ event # None
  /\ content' = IF Infer(event[<<>>]) = None THEN content ELSE Prepare(event, content)
  /\ event' = None
  /\ UNCHANGED <<status, synced, edits>>

\* A sync of the profile.  deviceTypeNeedsUpdate hands the lists of content
\* over in the other order: the template is "existing", the platform's "new".
\* "differs": something else of the device type has changed.
SyncProfile(differs) ==
  /\ status /\ event = None
  /\ content' = IF content = Nothing \/ differs \/ NeedsUpdate(Template, content)
                THEN Template ELSE content
  /\ synced' = TRUE
  /\ UNCHANGED <<status, event, edits>>

\* A user gives a variable a characteristic or takes it, or deletes a variable
\* with all that is in it.
EditVariable(path, drop) ==
  /\ edits < MaxEdits /\ event = None
  /\ drop => path # <<>>
  /\ content' = IF drop
                THEN [p \in {q \in DOMAIN content : q # path /\ path \notin Above(q)} |->
                        content[p]]
                ELSE [content EXCEPT ![path].note = ~@]
  /\ edits' = edits + 1
  /\ synced' = FALSE
  /\ UNCHANGED <<status, event>>

Init ==
  /\ status \in BOOLEAN
  /\ content = Nothing /\ event = None /\ synced = FALSE /\ edits = 0

Next ==
  \/ HandleEvent \/ EnsureSyncedService
  \/ \E differs \in BOOLEAN : SyncProfile(differs)
  \/ \E path \in DOMAIN content, drop \in BOOLEAN : EditVariable(path, drop)

Spec == Init /\ [][Next]_vars

-----------------------------------------------------------------------------
\* Variables are finite trees in which scalars have none below them.
TypeOK ==
  /\ status \in BOOLEAN /\ synced \in BOOLEAN
  /\ content = Nothing \/ IsVariable(content)
  /\ event = None \/ IsValue(event)
  /\ edits \in 0..MaxEdits

\* What the merge should make of a path, said without recursion: a type where
\* the value has one, nothing where it says null, and elsewhere what was known,
\* unless the value has something else than an object or a list on the way.
Overruled(val, p) == \E a \in Above(p) : a \in DOMAIN val /\ val[a] \notin Nested
Describes(val, p) == p \in DOMAIN val /\ val[p] # Null
Keeps(val, base, p) ==
  p \in DOMAIN base \ DOMAIN val /\ ~Overruled(val, p)
Learned(val, base, cv) ==
  /\ DOMAIN cv = {p \in DOMAIN val \cup DOMAIN base :
                    Describes(val, p) \/ Keeps(val, base, p)}
  /\ \A p \in DOMAIN cv :
       cv[p] = IF p \in DOMAIN val THEN [type |-> val[p], note |-> Note(base, p)]
               ELSE base[p]

\* However deep value and known variables are nested and whatever they are to
\* each other, learning an event describes all of its value, keeps the notes of
\* what it describes and everything the value does not speak about, and drops
\* nothing else (prepareContentVariable).
EventDescribed ==
  [][event # None /\ event' = None /\ event[<<>>] # Null =>
       Learned(event, content, content')]_vars

\* A profile sync leaves no variable in the "status" service that is not in the
\* template, wherever it came from, and none with another type or other notes
\* (deviceTypeNeedsUpdate, contentVariableNeedsUpdate).
SyncCleansStatus ==
  synced => \A p \in DOMAIN content :
              p \in DOMAIN Template /\ content[p] = Template[p]

-----------------------------------------------------------------------------
(* Statements that do not hold of the code; see the README.                 *)

\* After a profile sync the "status" service has all variables of the template.
SyncRestoresStatus == synced => DOMAIN Template \subseteq DOMAIN content

\* An event is forwarded with the id of a service that its device type has.
EventHasService ==
  [][event # None /\ event' = None => content' # Nothing]_vars
=============================================================================
