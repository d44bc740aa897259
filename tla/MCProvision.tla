----------------------------- MODULE MCProvision -----------------------------
(* Values of the constants of Provision for TLC. *)
EXTENDS Provision

CONSTANTS ann, joann   \* two of the email addresses

\* Every search finds the searched name only.
Exact == [e \in Email |-> {e}]
\* ChirpStack matches a substring: "ann@x" also finds "joann@x".
Substring == [e \in Email |-> IF e = ann THEN {ann, joann} ELSE {e}]
=============================================================================
