--------------------------- MODULE MCRouterHealth ---------------------------
(* Constants of the TLC runs of RouterHealth are in its .cfg files: one unit  *)
(* of time is five minutes.                                                  *)
EXTENDS RouterHealth
=============================================================================
