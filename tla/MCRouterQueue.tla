--------------------------- MODULE MCRouterQueue ----------------------------
(***************************************************************************)
(* Small instances of RouterQueue for TLC.                                 *)
(***************************************************************************)
EXTENDS RouterQueue
=============================================================================
