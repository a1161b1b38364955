---------------------------- MODULE C2BReceipts -----------------------------
(* C2B implements ReceiptBook.                                                *)
EXTENDS C2B

\* What the book sees of the three tables.  A receipt waits while it is in the
\* queue, also in the hands of a claim that has not credited it.
FateOf(given, status) ==
  CASE given = 0 /\ status = "none" -> "open"
    [] given = 0 /\ status # "none" -> "waiting"
    [] given = 1 /\ status # "pending" -> "given"
    [] OTHER -> "muddled"

Fate == [r \in Receipts |-> FateOf(credited[r], queue[r].status)]

Receipt == INSTANCE ReceiptBook WITH vouched <- Sound, fate <- Fate, named <- paid

\* Paybill payments are decided as if one at a time and by one hand: however
\* confirmations, Safaricom's answers, the job, staff, customers' claims, failing
\* statements and crashes overlap, a receipt enters the queue once and is given
\* out once, only if Safaricom's record or its token vouches for it, and for good
\* (creditC2B, ParkC2B, PlatformC2BUnmatchedResolve, PaymentVerifyCode).
C2BReceiptSpec == Receipt!Spec
=============================================================================
