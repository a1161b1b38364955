----------------------------- MODULE MCOpsAlerts -----------------------------
(* A day of four units, the last and the first of them quiet: the two hours,  *)
(* the twelve and the day the code compares with keep their order.           *)
EXTENDS OpsAlerts
=============================================================================
