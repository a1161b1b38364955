---------------------------- MODULE MCRouterAccess ----------------------------
(* One login and one zone, in each of the two ways.                           *)
EXTENDS RouterAccess
=============================================================================
