---------------------------- MODULE MCDeviceLogin ----------------------------
(***************************************************************************)
(* A small instance of DeviceLogin for TLC: two devices and a package for  *)
(* both, renewed onto one for a single device; two requests at once, one   *)
(* next to the reconciler, or trials on two servers.                       *)
(***************************************************************************)
EXTENDS DeviceLogin

Limits == [n \in 1..MaxPlans |-> IF n = 1 THEN 2 ELSE 1]
=============================================================================
