---------------------------- MODULE MCTokenLock ------------------------------
(* Values of the constants of TokenLock for TLC. *)
EXTENDS TokenLock

CONSTANTS c1, c2, jan

\* Two goroutines of syncs and handlers, and DeleteOutdatedDevices.
Janitors == {jan}
Callers == {c1, c2} \cup Janitors
=============================================================================
