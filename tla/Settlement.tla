----------------------------- MODULE Settlement -----------------------------
(***************************************************************************)
(* What payouts promise the ISPs.  The money of a customer's payment waits *)
(* for one payout at a time, leaves with it once at most, and is not given *)
(* back to another payout once it has left.  No requests, replies,         *)
(* conversations, results, staff or crashes: one payout moves at a time.   *)
(***************************************************************************)
CONSTANTS Isps, Payments, IspOf, Payouts, Means, None

VARIABLES
  owed,    \* payments the platform owes their ISP
  holder,  \* the payout each is to leave with
  left     \* by which means the money of each has left

vars == <<owed, holder, left>>

Init ==
  /\ owed = {}
  /\ holder = [i \in Payments |-> None]
  /\ left = [i \in Payments |-> {}]

Held(p) == {i \in Payments : holder[i] = p}

Kept(p) == \A i \in Held(p) : left[i] = {}

Waiting(isp) == {i \in owed : holder[i] = None /\ IspOf[i] = isp}

Owe ==
  /\ \E due \in SUBSET (Payments \ owed) : due # {} /\ owed' = owed \cup due
  /\ UNCHANGED <<holder, left>>

\* A payout takes all that waits for its ISP.
Hold(p, isp) ==
  /\ Held(p) = {} /\ Waiting(isp) # {}
  /\ holder' = [i \in Payments |-> IF i \in Waiting(isp) THEN p ELSE holder[i]]
  /\ UNCHANGED <<owed, left>>

GiveBack(p) ==
  /\ Held(p) # {} /\ Kept(p)
  /\ holder' = [i \in Payments |-> IF i \in Held(p) THEN None ELSE holder[i]]
  /\ UNCHANGED <<owed, left>>

Leave(p, means) ==
  /\ Held(p) # {} /\ Kept(p)
  /\ left' = [i \in Payments |-> IF i \in Held(p) THEN {means} ELSE left[i]]
  /\ UNCHANGED <<owed, holder>>

Next ==
  \/ Owe
  \/ \E p \in Payouts :
       \/ \E isp \in Isps : Hold(p, isp)
       \/ GiveBack(p)
       \/ \E means \in Means : Leave(p, means)

Spec == Init /\ [][Next]_vars
=============================================================================
