---------------------------- MODULE MCDeviceSync -----------------------------
(* Values of the constants of DeviceSync for TLC. *)
EXTENDS DeviceSync, TLC

CONSTANTS d1, ann, bob

\* Devices of one owner, or the first one of another.
SameOwner == [d \in Dev |-> ann]
TwoOwners == [d \in Dev |-> IF d = d1 THEN ann ELSE bob]
=============================================================================
