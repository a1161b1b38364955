------------------------------- MODULE Payout -------------------------------
(***************************************************************************)
(* Payouts of services/payout.go: an ISP's share of what its customers     *)
(* paid on the platform's shortcode leaves through Safaricom's B2B API or  *)
(* by hand.  A payout claims payments; its status changes are conditional  *)
(* UPDATEs.  A request of the platform staff is modelled in the steps      *)
(* between which others run: the checks it makes without a lock, the       *)
(* transaction or transition, the HTTP request, and the handling of the    *)
(* reply.  Safaricom and the staff's reading of the M-Pesa statement are   *)
(* external.  Amounts are in cents; failure reasons and receipts are       *)
(* left out.                                                               *)
(***************************************************************************)
EXTENDS Integers, FiniteSets, Functions

CONSTANTS
  Isps,
  Payments,        \* payments on the shared shortcode
  IspOf,           \* the ISP each payment's zone belongs to
  Amount,          \* what each payment brought in
  Payouts,         \* payout ids, handed out in increasing order
  Transfers,       \* conversations Safaricom may open
  Requests,        \* staff requests the server runs at the same time
  Staff,
  Percents,        \* commission percentages in force
  Scale,           \* parts of a percent they are counted in
  MinPayout,       \* whole shillings below which nothing is paid out
  SecondApprover,  \* setting payouts_require_second_approver
  StaffWait,       \* staff settle a stuck payout only once its fate is known
  None

ASSUME PayoutAssumption ==
  /\ IspOf \in [Payments -> Isps]
  /\ Amount \in [Payments -> Nat]
  /\ Payouts \subseteq Nat
  /\ Percents \subseteq Int /\ Scale \in Nat \ {0}
  /\ MinPayout \in Nat
  /\ SecondApprover \in BOOLEAN /\ StaffWait \in BOOLEAN
  /\ None \notin Isps /\ None \notin Payouts /\ None \notin Transfers
  /\ None \notin Staff

VARIABLES
  payment,   \* "pending", "historic" (completed before payouts existed) or "owed"
  claim,     \* payments.payout_id
  payout,    \* the payouts table
  req,       \* staff requests in progress
  transfer,  \* Safaricom: the payout of each conversation, what became of it
  result,    \* Safaricom: results it has yet to deliver for the last time
  hand       \* payouts the staff paid outside the system

vars == <<payment, claim, payout, req, transfer, result, hand>>

-----------------------------------------------------------------------------
Statuses == {"pending", "processing", "completed", "failed", "cancelled"}
Open     == {"pending", "processing"}

\* A row of payouts; status "none" before it exists.  covers is what it
\* claimed when it was priced (payment_count, gross_amount).
Row(status, isp, covers, creator) ==
  [status |-> status, isp |-> isp, covers |-> covers,
   creator |-> creator, sender |-> None, conv |-> None]

NoPayout == Row("none", None, {}, None)

PayoutRow == [status : Statuses \cup {"none"}, isp : Isps \cup {None},
              covers : SUBSET Payments,
              creator : Staff \cup {None}, sender : Staff \cup {None},
              conv : Transfers \cup {None}]

\* A request: its stage, the ISP or payout it is about, who makes it and, in
\* stage "accepted", the conversation Safaricom's reply names.
Req(stage, isp, id, staff, conv) ==
  [stage |-> stage, isp |-> isp, id |-> id, staff |-> staff, conv |-> conv]

NoReq == Req("none", None, None, None, None)

Replies == {"accepted", "rejected", "unknown"}

Transfer == [of : Payouts \cup {None},
             state : {"unused", "queued", "paid", "refused"}]

Request == [stage : {"none", "create", "read", "taken"} \cup Replies,
            isp : Isps \cup {None}, id : Payouts \cup {None},
            staff : Staff \cup {None}, conv : Transfers \cup {None}]

-----------------------------------------------------------------------------
Whole == 100 * Scale

Clamp(pct) == IF pct < 0 THEN 0 ELSE IF pct > Whole THEN Whole ELSE pct

\* Price: commission and net to the cent, rounded half up, and the whole
\* shillings sent.
Commission(gross, pct) == (2 * gross * Clamp(pct) + Whole) \div (2 * Whole)
Price(gross, pct) ==
  LET net == gross - Commission(gross, pct)
  IN  [commission |-> Commission(gross, pct), net |-> net, pay |-> net \div 100]

Gross(S) == SumFunction([i \in S |-> Amount[i]])

\* Mutant: payments another payout has claimed are claimed again.
UnsettledPaymentsClaimed(isp) ==
  {i \in Payments : payment[i] = "owed" /\ IspOf[i] = isp}

UnsettledPayments(isp) ==
  {i \in Payments : payment[i] = "owed" /\ claim[i] = None /\ IspOf[i] = isp}

Covered(p) == {i \in Payments : claim[i] = p}

Release(p) == [i \in Payments |-> IF claim[i] = p THEN None ELSE claim[i]]

MayApprove(staff, p) == SecondApprover => payout[p].creator # staff

NextId == {p \in Payouts : /\ payout[p] = NoPayout
                           /\ \A q \in Payouts : payout[q] = NoPayout => p <= q}

-----------------------------------------------------------------------------
Init ==
  /\ payment \in [Payments -> {"pending", "historic"}]
  /\ claim = [i \in Payments |-> None]
  /\ payout = [p \in Payouts |-> NoPayout]
  /\ req = [r \in Requests |-> NoReq]
  /\ transfer = [t \in Transfers |-> [of |-> None, state |-> "unused"]]
  /\ result = {}
  /\ hand = {}

\* A customer's payment completes on the shared shortcode.
PaymentCompletes(i) ==
  /\ payment[i] = "pending"
  /\ payment' = [payment EXCEPT ![i] = "owed"]
  /\ UNCHANGED <<claim, payout, req, transfer, result, hand>>

\* PlatformPayoutBackfill: historic payments of an ISP enter the ledger.
Backfill(isp) ==
  /\ payment' = [i \in Payments |->
                   IF payment[i] = "historic" /\ IspOf[i] = isp /\ claim[i] = None
                     THEN "owed" ELSE payment[i]]
  /\ UNCHANGED <<claim, payout, req, transfer, result, hand>>

\* CreatePayout up to the transaction: the ISP has no open payout.
CreateCheck(r, isp, staff) ==
  /\ req[r] = NoReq
  /\ \A p \in Payouts : payout[p].isp = isp => payout[p].status \notin Open
  /\ req' = [req EXCEPT ![r] = Req("create", isp, None, staff, None)]
  /\ UNCHANGED <<payment, claim, payout, transfer, result, hand>>

\* What CreatePayout can pay of the payments it is about to claim.
Payable(isp, pct) ==
  LET pay == Price(Gross(UnsettledPayments(isp)), pct).pay
  IN  UnsettledPayments(isp) # {} /\ pay >= 1 /\ pay >= MinPayout

CreateCommit(r) ==
  LET isp == req[r].isp
      due == UnsettledPayments(isp)
  IN
  /\ req[r].stage = "create"
  /\ \E pct \in Percents, p \in NextId :
       /\ Payable(isp, pct)
       /\ claim' = [i \in Payments |-> IF i \in due THEN p ELSE claim[i]]
       /\ payout' = [payout EXCEPT ![p] =
                       Row("pending", isp, due, req[r].staff)]
  /\ req' = [req EXCEPT ![r] = NoReq]
  /\ UNCHANGED <<payment, transfer, result, hand>>

\* Nothing owed, or too little: the claim is rolled back.
CreateRefuse(r) ==
  /\ req[r].stage = "create"
  /\ \E pct \in Percents : ~Payable(req[r].isp, pct)
  /\ req' = [req EXCEPT ![r] = NoReq]
  /\ UNCHANGED <<payment, claim, payout, transfer, result, hand>>

\* PlatformPayoutSend and SendB2B up to the access token.
SendRead(r, p, staff) ==
  /\ req[r] = NoReq
  /\ MayApprove(staff, p)
  /\ payout[p].status = "pending"
  /\ req' = [req EXCEPT ![r] = Req("read", None, p, staff, None)]
  /\ UNCHANGED <<payment, claim, payout, transfer, result, hand>>

\* Mutant: the status is not checked again when the payout is taken.
SendTakeUnchecked(r) ==
  LET p == req[r].id IN
  /\ req[r].stage = "read"
  /\ payout' = [payout EXCEPT ![p].status = "processing",
                              ![p].sender = req[r].staff]
  /\ req' = [req EXCEPT ![r] = Req("taken", None, p, req[r].staff, None)]
  /\ UNCHANGED <<payment, claim, transfer, result, hand>>

\* The payout is taken out of "pending" so that nothing else can send it.
SendTake(r) ==
  LET p == req[r].id IN
  /\ req[r].stage = "read"
  /\ payout[p].status = "pending"
  /\ payout' = [payout EXCEPT ![p].status = "processing",
                              ![p].sender = req[r].staff]
  /\ req' = [req EXCEPT ![r] = Req("taken", None, p, req[r].staff, None)]
  /\ UNCHANGED <<payment, claim, transfer, result, hand>>

SendLate(r) ==
  /\ req[r].stage = "read"
  /\ payout[req[r].id].status # "pending"
  /\ req' = [req EXCEPT ![r] = NoReq]
  /\ UNCHANGED <<payment, claim, payout, transfer, result, hand>>

Replied(r, reply, t) ==
  req' = [req EXCEPT ![r] = Req(reply, None, req[r].id, req[r].staff, t)]

\* The HTTP request and its reply.  Safaricom opens a conversation or does
\* not; the reply may be lost or unclear either way.
SendPost(r) ==
  /\ req[r].stage = "taken"
  /\ \/ \E t \in Transfers :
          /\ transfer[t].state = "unused"
          /\ transfer' = [transfer EXCEPT ![t] =
                             [of |-> req[r].id, state |-> "queued"]]
          /\ Replied(r, "accepted", t) \/ Replied(r, "unknown", t)
     \/ /\ UNCHANGED transfer
        /\ Replied(r, "rejected", None) \/ Replied(r, "unknown", None)
  /\ UNCHANGED <<payment, claim, payout, result, hand>>

\* The conversation is stored whatever the payout's status is by now.
SendAccepted(r) ==
  /\ req[r].stage = "accepted"
  /\ payout' = [payout EXCEPT ![req[r].id].conv = req[r].conv]
  /\ req' = [req EXCEPT ![r] = NoReq]
  /\ UNCHANGED <<payment, claim, transfer, result, hand>>

\* revertToPending
SendRejected(r) ==
  LET p == req[r].id IN
  /\ req[r].stage = "rejected"
  /\ payout' = IF payout[p].status = "processing"
                 THEN [payout EXCEPT ![p].status = "pending",
                                     ![p].sender = None]
                 ELSE payout
  /\ req' = [req EXCEPT ![r] = NoReq]
  /\ UNCHANGED <<payment, claim, transfer, result, hand>>

\* noteUnknown: the payout is left processing for the staff.
SendUnknown(r) ==
  /\ req[r].stage = "unknown"
  /\ req' = [req EXCEPT ![r] = NoReq]
  /\ UNCHANGED <<payment, claim, payout, transfer, result, hand>>

\* A database error, or the server dies.
Crash(r) ==
  /\ req[r] # NoReq
  /\ req' = [req EXCEPT ![r] = NoReq]
  /\ UNCHANGED <<payment, claim, payout, transfer, result, hand>>

-----------------------------------------------------------------------------
\* Safaricom executes a transfer, or gives it up, and reports it.
Execute(t) ==
  /\ transfer[t].state = "queued"
  /\ \E outcome \in {"paid", "refused"} :
       transfer' = [transfer EXCEPT ![t].state = outcome]
  /\ result' = result \cup {t}
  /\ UNCHANGED <<payment, claim, payout, req, hand>>

\* HandleB2BResult, on the payout that has stored the conversation.
Settle(p, outcome) ==
  IF outcome = "paid"
    THEN /\ payout' = [payout EXCEPT ![p].status = "completed"]
         /\ UNCHANGED claim
    ELSE /\ payout' = [payout EXCEPT ![p].status = "failed"]
         /\ claim' = Release(p)

\* Mutant: the result is applied whatever the payout's status.
AwaitingInAnyState(t) == {p \in Payouts : payout[p].conv = t}

\* Mutant: the result is looked for among payouts not sent yet.
AwaitingPending(t) == {p \in Payouts : /\ payout[p].conv = t
                                       /\ payout[p].status = "pending"}

Awaiting(t) == {p \in Payouts : /\ payout[p].conv = t
                                /\ payout[p].status = "processing"}

\* The result callback arrives, not necessarily for the last time.
B2BResult(t, last) ==
  /\ t \in result
  /\ IF Awaiting(t) = {}
       THEN UNCHANGED <<payout, claim>>
       ELSE \E p \in Awaiting(t) : Settle(p, transfer[t].state)
  /\ result' = IF last THEN result \ {t} ELSE result
  /\ UNCHANGED <<payment, req, transfer, hand>>

-----------------------------------------------------------------------------
Cancel(p) ==
  /\ payout[p].status = "pending"
  /\ payout' = [payout EXCEPT ![p].status = "cancelled"]
  /\ claim' = Release(p)
  /\ UNCHANGED <<payment, req, transfer, result, hand>>

\* Transfers for p that the M-Pesa statement shows, and whether the fate of
\* one that may be on its way is still open.
OnStatement(p) ==
  {t \in Transfers : transfer[t].of = p /\ transfer[t].state = "paid"}
Underway(p) ==
  \/ \E t \in Transfers : transfer[t].of = p /\ transfer[t].state = "queued"
  \/ \E r \in Requests : req[r].id = p /\ req[r].stage = "taken"

\* Fail: the staff find no transfer on the statement, and with StaffWait they
\* know that none is on its way.
Fail(p) ==
  /\ StaffWait => OnStatement(p) = {} /\ ~Underway(p)
  /\ payout[p].status = "processing"
  /\ payout' = [payout EXCEPT ![p].status = "failed"]
  /\ claim' = Release(p)
  /\ UNCHANGED <<payment, req, transfer, result, hand>>

\* MarkPaid: the code asks for no more than an open payout. The staff found the
\* transfer on the statement, or paid by hand, which they do only where no
\* transfer can be on its way; with StaffWait they do nothing else.
MarkPaid(p, staff) ==
  /\ StaffWait => OnStatement(p) # {} \/ ~Underway(p)
  /\ MayApprove(staff, p)
  /\ payout[p].status \in Open
  /\ payout' = [payout EXCEPT ![p].status = "completed", ![p].sender = staff]
  /\ hand' = IF OnStatement(p) = {} /\ ~Underway(p) THEN hand \cup {p} ELSE hand
  /\ UNCHANGED <<payment, claim, req, transfer, result>>

-----------------------------------------------------------------------------
\* What the server does next with a request.
Serve(r) ==
  \/ CreateCommit(r) \/ CreateRefuse(r)
  \/ SendTake(r) \/ SendLate(r) \/ SendPost(r)
  \/ SendAccepted(r) \/ SendRejected(r) \/ SendUnknown(r)

Ask(r) ==
  \E staff \in Staff :
    \/ \E isp \in Isps : CreateCheck(r, isp, staff)
    \/ \E p \in Payouts : SendRead(r, p, staff)

Decide(p) == Cancel(p) \/ Fail(p) \/ \E staff \in Staff : MarkPaid(p, staff)

Run ==
  \/ \E i \in Payments : PaymentCompletes(i)
  \/ \E isp \in Isps : Backfill(isp)
  \/ \E r \in Requests : Ask(r) \/ Serve(r)
  \/ \E p \in Payouts : Decide(p)
  \/ \E t \in Transfers, last \in BOOLEAN : Execute(t) \/ B2BResult(t, last)

Next == Run \/ \E r \in Requests : Crash(r)

Spec == Init /\ [][Next]_vars

\* Handlers run to their end (the HTTP client gives up after its timeout),
\* Safaricom executes what it queued and delivers each result.
Fairness ==
  /\ \A r \in Requests : WF_vars(Serve(r))
  /\ \A t \in Transfers : WF_vars(Execute(t)) /\ WF_vars(B2BResult(t, TRUE))

FairSpec == Spec /\ Fairness

-----------------------------------------------------------------------------
\* Type invariant.
TypeOK ==
  /\ payment \in [Payments -> {"pending", "historic", "owed"}]
  /\ claim \in [Payments -> Payouts \cup {None}]
  /\ payout \in [Payouts -> PayoutRow]
  /\ req \in [Requests -> Request]
  /\ transfer \in [Transfers -> Transfer]
  /\ result \subseteq Transfers
  /\ hand \subseteq Payouts

\* A payout that is open or paid holds exactly the payments it was priced on,
\* one that was cancelled or failed holds none, however creations, sends,
\* results and staff decisions overlap (payout.go:29-32, models/payout.go:5-7).
ClaimsExact ==
  \A p \in Payouts :
    Covered(p) = IF payout[p].status \in Open \cup {"completed"}
                   THEN payout[p].covers ELSE {}

\* A payout is sent again only if no earlier request of it got through: while
\* it is pending Safaricom has no transfer for it (payout.go:33-34, 378-381).
RetryIsSafe ==
  \A p \in Payouts, t \in Transfers :
    transfer[t].of = p => payout[p].status # "pending"

\* The transfers and payments by hand that carried payment i to its ISP.
SentFor(i) ==
  {t \in Transfers : /\ transfer[t].state = "paid"
                     /\ i \in payout[transfer[t].of].covers}
PaidByHand(i) == {p \in hand : i \in payout[p].covers}

\* Money is never sent twice (payout.go:26-27): each payment leaves in one
\* transfer or one payment by hand at most, across payouts, retries, lost
\* replies, late results and failed payouts whose payments are claimed again.
NeverSentTwice ==
  \A i \in Payments :
    /\ \A t, u \in SentFor(i) : t = u
    /\ \A p, q \in PaidByHand(i) : p = q
    /\ SentFor(i) = {} \/ PaidByHand(i) = {}

\* With the two-person rule on, whoever created a payout did not send it or
\* mark it paid (platform_payouts.go:49-52), whatever the staff click at once.
TwoPeople ==
  SecondApprover =>
    \A p \in Payouts : payout[p].status \in {"processing", "completed"} =>
                         payout[p].sender \notin {None, payout[p].creator}

\* What is settled stays settled: a completed, failed or cancelled payout
\* keeps its status and what it covers, whatever arrives late.
Final == {"completed", "failed", "cancelled"}
SettledStays ==
  [][\A p \in Payouts : payout[p].status \in Final =>
       /\ payout'[p].status = payout[p].status
       /\ payout'[p].covers = payout[p].covers
       /\ Covered(p)' = Covered(p)]_vars

\* A payout whose conversation is stored before Safaricom's last report of it
\* leaves "processing" without anyone's help (models/payout.go:12-15).
AcceptedSettles ==
  \A p \in Payouts, t \in Transfers :
    (/\ payout[p].status = "processing" /\ payout[p].conv = t
     /\ transfer[t].state = "queued" \/ t \in result)
      ~> payout[p].status \in Final
=============================================================================
