---------------------------- MODULE MCStkPayment ----------------------------
(***************************************************************************)
(* A small instance of StkPayment for TLC: two taps of the app on one      *)
(* phone and two devices, one of the portal and one of the top-up page.    *)
(* Troubles only add behaviours and the properties that depend on them     *)
(* name the ones that break them, so the largest sets are enough: every    *)
(* trouble, all that PaidCompletes and all that PendingEnds allow, and     *)
(* what taps of one phone may meet.                                        *)
(***************************************************************************)
EXTENDS StkReceipts

Entry  == <<"app", "app", "portal", "topup">>
Phone  == <<"a", "a", "b", "c">>
Device == <<"x", None, "y", None>>

Worst == {Troubles \ {"rivals"},
          {"noreply", "outage", "crash"},
          {"early", "lost", "noamount", "noreply"},
          {"rivals", "early", "noreply", "crash"}}
=============================================================================
