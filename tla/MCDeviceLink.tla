---------------------------- MODULE MCDeviceLink ----------------------------
(* Model checking of DeviceLink. *)
EXTENDS DeviceLink

FewFrames == [main |-> 2, timer |-> 1, others |-> 1]
=============================================================================
