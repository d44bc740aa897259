---------------------------- MODULE MCEventForward ----------------------------
(* Values of the constants of EventForward for TLC. *)
EXTENDS EventForward, TLC

CONSTANTS h1, h2

\* Handlers are interchangeable.
Handlers == Permutations(Handler)

\* A user may write "-1m" as well as "1m".
Ages == {-1, 1}
=============================================================================
