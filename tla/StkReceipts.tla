---------------------------- MODULE StkReceipts -----------------------------
(* StkPayment implements ReceiptBook.                                         *)
EXTENDS StkPayment

\* What the book sees of a prompt's payment: the customer confirmed it, the row
\* is completed in full or for less, and it has M-Pesa's receipt.
Vouched == {p \in Payments : prompt[p] \in {"paid", "short"}}
Named   == {p \in Payments : row[p].receipt = "mpesa"}

FateOf(r, n) ==
  CASE r.status # "completed" /\ n = 0 -> "open"
    [] r = Underpaid(r) /\ n = 0 -> "kept"
    [] r.status = "completed" /\ r.amount = "full" /\ n = 1 -> "given"
    [] OTHER -> "muddled"

Fate == [p \in Payments |-> FateOf(row[p], granted[p])]

Receipt == INSTANCE ReceiptBook WITH
  Receipts <- Payments, vouched <- Vouched, fate <- Fate, named <- Named

\* Prompts are decided as if one at a time and by one hand: however callbacks,
\* polls, rounds of the reconciler, the tap's own writes and crashes overlap, a
\* payment is given out or kept once, only when the customer has paid, and for
\* good (ProcessPaymentSuccess, ProcessUnderpayment, ProcessPaymentFailure,
\* upgradePlaceholderReceipt).
StkReceiptSpec == Receipt!Spec
=============================================================================
