---------------------------- MODULE ReceiptBook -----------------------------
(***************************************************************************)
(* What the handlers of customers' payments promise: a book in which every *)
(* receipt is decided once.  No callbacks, queries, retries or requests    *)
(* that overlap: a receipt waits for staff, is given out or is kept, one   *)
(* at a time, and only if Safaricom has the money.  StkPayment and C2B     *)
(* both implement it.                                                      *)
(***************************************************************************)
CONSTANT Receipts

VARIABLES
  vouched,  \* receipts Safaricom has the money of
  fate,     \* what has become of each
  named     \* receipts recorded under Safaricom's own number

vars == <<vouched, fate, named>>

Init ==
  /\ vouched \subseteq Receipts /\ named \subseteq Receipts
  /\ fate \in [Receipts -> {"open", "waiting", "given"}]
  /\ \A r \in Receipts : fate[r] = "given" => r \in vouched \cap named

Vouch(r) ==
  /\ r \notin vouched /\ vouched' = vouched \cup {r}
  /\ UNCHANGED <<fate, named>>

Decide(r, from, to) ==
  /\ fate[r] \in from /\ fate' = [fate EXCEPT ![r] = to]
  /\ UNCHANGED vouched

\* Someone has to look at it.
Wait(r) == Decide(r, {"open"}, "waiting") /\ UNCHANGED named

\* The customer gets what it pays for; its number may come later.
Give(r) ==
  /\ r \in vouched /\ Decide(r, {"open", "waiting"}, "given")
  /\ named' \in {named, named \cup {r}}

\* Too little was paid: it is recorded for what it is and gives out nothing.
Keep(r) ==
  /\ r \in vouched /\ Decide(r, {"open"}, "kept")
  /\ named' = named \cup {r}

Name(r) ==
  /\ r \notin named /\ named' = named \cup {r}
  /\ UNCHANGED <<vouched, fate>>

Next == \E r \in Receipts : Vouch(r) \/ Wait(r) \/ Give(r) \/ Keep(r) \/ Name(r)

Spec == Init /\ [][Next]_vars
=============================================================================
