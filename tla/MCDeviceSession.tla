--------------------------- MODULE MCDeviceSession ---------------------------
(* DeviceSession on a small instance. *)
EXTENDS DeviceSession

CONSTANTS t1, t2
=============================================================================
