---------------------------- MODULE MCDeviceTypes ----------------------------
(* Values of the constants of DeviceTypes for TLC. *)
EXTENDS DeviceTypes, TLC

CONSTANTS t1, t2, t3, run1

\* Profile 1 can get two device types, profile 2 one.
TwoTypes == (t1 :> 1) @@ (t2 :> 1)
ThreeTypes == (t1 :> 1) @@ (t2 :> 1) @@ (t3 :> 2)
=============================================================================
