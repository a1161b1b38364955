-------------------------- MODULE PayoutSettlement --------------------------
(* Payout implements Settlement while StaffWait holds.                        *)
EXTENDS Payout

\* What an ISP sees: which of its payments are in the ledger, and the transfers
\* and payments by hand that brought their money.
Owed == {i \in Payments : payment[i] = "owed"}
Left == [i \in Payments |-> SentFor(i) \cup PaidByHand(i)]

Owing == INSTANCE Settlement WITH
  Means <- Transfers \cup Payouts, owed <- Owed, holder <- claim, left <- Left

\* Payouts work as if one at a time and with Safaricom's answer at once.  However
\* creations, sends, lost replies, late results, staff decisions and crashes
\* overlap, a payment's money leaves once, with the payout that holds the
\* payment, and a payout whose money left never gives its payments back to be
\* paid again: "never sent twice and never lost track of" (payout.go:26-27).
SettlesSpec == Owing!Spec
=============================================================================
