---------------------------- MODULE MCEventContent ----------------------------
(* Values of the constants of EventContent for TLC. *)
EXTENDS EventContent

CONSTANTS
  Field,   \* keys of JSON objects
  Index,   \* names of the elements of a list; a list begins with the first ones
  Plain,   \* types of what is neither object nor list
  Depth    \* of nested values

OneIndex == <<"0">>

\* The tree of a root and of the trees below it.
Node(root, sub) ==
  [p \in {<<>>} \cup UNION {{<<n>> \o q : q \in DOMAIN sub[n]} : n \in DOMAIN sub} |->
     IF p = <<>> THEN root ELSE sub[Head(p)][Tail(p)]]
Leaf(root) == [p \in {<<>>} |-> root]

RECURSIVE ValuesTo(_)
ValuesTo(depth) ==
  {Leaf(s) : s \in Plain \cup {Null}} \cup
  IF depth = 0 THEN {}
  ELSE {Node("Structure", sub) :
          sub \in UNION {[S -> ValuesTo(depth - 1)] : S \in SUBSET Field}}
       \cup {Node("List", sub) :
          sub \in UNION {[{Index[i] : i \in 1..n} -> ValuesTo(depth - 1)] :
                         n \in 0..Len(Index)}}
NestedValues == ValuesTo(Depth)

\* "battery_level" and "external_power_source"; JSON makes a float of a number.
StatusEvents ==
  {Node("Structure", [n \in {"level", "power"} |->
                        Leaf(IF n = "level" THEN "Float" ELSE "Boolean")])}
BatteryTemplate ==
  [p \in {<<>>, <<"level">>, <<"power">>} |->
     [type |-> IF p = <<>> THEN "Structure"
               ELSE IF p = <<"level">> THEN "Integer" ELSE "Boolean",
      note |-> p = <<"level">>]]
=============================================================================
