---------------------------- MODULE PayoutProofs ----------------------------
(***************************************************************************)
(* Machine-checked proofs about Payout, for any ISPs, payments, payouts,   *)
(* staff and concurrent requests.                                          *)
(***************************************************************************)
EXTENDS PayoutSettlement, TLAPS

-----------------------------------------------------------------------------
(* Price *)

\* Rounding half up by a divisor that is even.
LEMMA Rounded ==
  ASSUME NEW m \in Nat, NEW w \in Nat \ {0}
  PROVE  /\ (2 * m + w) \div (2 * w) \in Nat
         /\ 2 * w * ((2 * m + w) \div (2 * w)) <= 2 * m + w
         /\ 2 * m < 2 * w * ((2 * m + w) \div (2 * w)) + w
<1> DEFINE n == 2 * m + w
           d == 2 * w
           q == n \div d
<1>1. n \in Nat /\ d \in Nat \ {0}
  OBVIOUS
<1>2. q \in Int /\ q >= 0
  <2> HIDE DEF n, d
  <2>1. n \div d \in Int
    BY <1>1
  <2>2. n \div d >= 0
    BY <1>1
  <2>3. QED
    BY <2>1, <2>2
<1>3. d * q <= n
  <2> HIDE DEF n, d
  <2>1. QED
    BY <1>1
<1>4. n < d * q + d
  <2> HIDE DEF n, d
  <2>1. QED
    BY <1>1
<1> HIDE DEF q
<1>5. q \in Nat /\ 2 * w * q <= 2 * m + w /\ 2 * m < 2 * w * q + w
  <2>1. d * q = 2 * w * q
    BY <1>2
  <2>2. 2 * w * q \in Int
    BY <1>2
  <2> HIDE DEF q
  <2>3. QED
    BY <1>2, <1>3, <1>4, <2>1, <2>2
<1>6. QED
  BY <1>5 DEF q

\* Price splits an amount for every percentage, in parts of a percent as small as
\* one likes: commission and net make up the gross, neither is negative, the
\* commission is the percentage of the gross to the nearest cent, and what is
\* sent falls short of the net by less than a shilling.
THEOREM PriceSplits ==
  ASSUME NEW gross \in Nat, NEW pct \in Int
  PROVE  LET c == Price(gross, pct) IN
         /\ c.commission + c.net = gross
         /\ c.commission >= 0 /\ c.net >= 0
         /\ 2 * Whole * c.commission <= 2 * (gross * Clamp(pct)) + Whole
         /\ 2 * (gross * Clamp(pct)) < 2 * Whole * c.commission + Whole
         /\ 100 * c.pay <= c.net /\ c.net < 100 * c.pay + 100
<1> DEFINE m == gross * Clamp(pct)
           q == (2 * m + Whole) \div (2 * Whole)
<1>1. Whole \in Nat \ {0} /\ Clamp(pct) \in 0..Whole
  BY PayoutAssumption DEF Whole, Clamp
<1>2. m \in Nat /\ m <= gross * Whole
  <2>1. \A w \in Nat : \A k \in 0..w : gross * k \in Nat /\ gross * k <= gross * w
    OBVIOUS
  <2>2. QED
    BY <1>1, <2>1
<1>3. 2 * gross * Clamp(pct) = 2 * m
  BY <1>1
<1>4. Commission(gross, pct) = q
  BY <1>3 DEF Commission
<1> HIDE DEF m
<1>5. q \in Nat /\ 2 * Whole * q <= 2 * m + Whole /\ 2 * m < 2 * Whole * q + Whole
  BY <1>1, <1>2, Rounded
<1> HIDE DEF q
<1>6. q <= gross
  <2>1. \A w \in Nat \ {0} : gross < q => w * gross + w <= w * q
    BY <1>5
  <2>2. SUFFICES ASSUME gross < q PROVE FALSE
    BY <1>5
  <2>3. Whole * gross + Whole <= Whole * q
    BY <1>1, <2>1, <2>2
  <2>4. QED
    BY <1>1, <1>2, <1>5, <2>3
<1>7. \A net \in Nat : /\ 100 * (net \div 100) <= net
                       /\ net < 100 * (net \div 100) + 100
  OBVIOUS
<1>8. QED
  BY <1>4, <1>5, <1>6, <1>7 DEF Price, m

-----------------------------------------------------------------------------
(* The inductive invariant.  A request in one of the stages Sending holds  *)
(* the payout it has taken out of "pending".                               *)

Sending == {"taken"} \cup Replies

RequestOK(r) ==
  /\ req[r].stage = "none" => req[r] = NoReq
  /\ req[r].stage = "create" => req[r].isp \in Isps /\ req[r].staff \in Staff
  /\ req[r].stage = "read" =>
       /\ req[r].id \in Payouts /\ req[r].staff \in Staff
       /\ payout[req[r].id].status # "none"
       /\ MayApprove(req[r].staff, req[r].id)
  /\ req[r].stage \in Sending =>
       /\ req[r].id \in Payouts
       /\ payout[req[r].id].status \notin {"none", "pending"}
       /\ \A q \in Requests :
            req[q].stage \in Sending /\ req[q].id = req[r].id => q = r
  /\ req[r].stage \in {"taken", "rejected"} =>
       \A t \in Transfers : transfer[t].of # req[r].id
  /\ req[r].stage = "taken" /\ StaffWait =>
       payout[req[r].id].status = "processing"
  /\ req[r].stage = "accepted" =>
       req[r].conv \in Transfers /\ transfer[req[r].conv].of = req[r].id

RequestsOK == \A r \in Requests : RequestOK(r)

TransfersOK ==
  \A t \in Transfers :
    /\ transfer[t].of = None <=> transfer[t].state = "unused"
    /\ t \in result => transfer[t].state \in {"paid", "refused"}
    /\ transfer[t].of \in Payouts =>
         payout[transfer[t].of].status \notin {"none", "pending"}
    /\ \A u \in Transfers :
         transfer[t].of = transfer[u].of /\ transfer[t].of # None => t = u

PayoutsOK ==
  \A p \in Payouts :
    /\ payout[p].conv # None => transfer[payout[p].conv].of = p
    /\ payout[p].status # "none" => payout[p].creator \in Staff

\* A payout whose money left, or may still leave, keeps its payments.
MoneyHeld ==
  /\ \A p \in hand :
       /\ payout[p].status = "completed"
       /\ \A t \in Transfers : transfer[t].of = p => transfer[t].state = "refused"
       /\ \A r \in Requests : req[r].stage = "taken" => req[r].id # p
  /\ StaffWait =>
       \A t \in Transfers :
         transfer[t].state \in {"queued", "paid"} =>
           payout[transfer[t].of].status \in {"processing", "completed"}

IInv == /\ TypeOK /\ ClaimsExact /\ TwoPeople
        /\ RequestsOK /\ TransfersOK /\ PayoutsOK /\ MoneyHeld

-----------------------------------------------------------------------------
(* Every action preserves the invariant. *)

\* The updates the handlers make keep a row of the payouts table a row.
LEMMA RowUpdates ==
  ASSUME NEW row \in PayoutRow
  PROVE  /\ \A status \in Statuses :
              /\ [row EXCEPT !.status = status] \in PayoutRow
              /\ \A sender \in Staff \cup {None} :
                   [row EXCEPT !.status = status, !.sender = sender] \in PayoutRow
         /\ \A conv \in Transfers : [row EXCEPT !.conv = conv] \in PayoutRow
  BY DEF PayoutRow

LEMMA PaymentStep ==
  ASSUME IInv, UNCHANGED <<claim, payout, req, transfer, result, hand>>,
         TypeOK'
  PROVE  IInv'
<1> USE DEF IInv
<1>1. TypeOK'
  OBVIOUS
<1>2. ClaimsExact'
  BY DEF ClaimsExact, Covered
<1>3. TwoPeople'
  BY DEF TwoPeople
<1>4. RequestsOK'
  BY DEF RequestsOK, RequestOK, MayApprove
<1>5. TransfersOK'
  BY DEF TransfersOK
<1>6. PayoutsOK'
  BY DEF PayoutsOK
<1>7. MoneyHeld'
  BY DEF MoneyHeld
<1>8. QED
  BY <1>1, <1>2, <1>3, <1>4, <1>5, <1>6, <1>7

LEMMA CreateCheckStep ==
  ASSUME IInv, NEW r \in Requests, NEW isp \in Isps, NEW staff \in Staff,
         CreateCheck(r, isp, staff)
  PROVE  IInv'
<1> USE DEF IInv, CreateCheck, Req, NoReq
<1>1. TypeOK'
  BY PayoutAssumption DEF TypeOK, Request, Transfer, Replies
<1>2. ClaimsExact'
  BY DEF ClaimsExact, Covered
<1>3. TwoPeople'
  BY DEF TwoPeople
<1>4. RequestsOK'
  BY PayoutAssumption
     DEF TypeOK, RequestsOK, RequestOK, Sending, Replies, MayApprove
<1>5. TransfersOK'
  BY DEF TransfersOK
<1>6. PayoutsOK'
  BY DEF PayoutsOK
<1>7. MoneyHeld'
  BY DEF TypeOK, MoneyHeld
<1>8. QED
  BY <1>1, <1>2, <1>3, <1>4, <1>5, <1>6, <1>7

LEMMA CreateCommitStep ==
  ASSUME IInv, NEW r \in Requests,
         CreateCommit(r)
  PROVE  IInv'
<1> USE DEF IInv, CreateCommit, NoReq, Req
<1> DEFINE isp == req[r].isp
<1> DEFINE due == UnsettledPayments(isp)
<1>a. req[r].stage = "create" /\ isp \in Isps /\ req[r].staff \in Staff
  BY DEF RequestsOK, RequestOK
<1>b. PICK p \in Payouts :
         /\ payout[p].status = "none" /\ p # None
         /\ claim' = [i \in Payments |-> IF i \in due THEN p ELSE claim[i]]
         /\ payout' = [payout EXCEPT ![p] = Row("pending", isp, due, req[r].staff)]
  <2>1. PICK p \in NextId :
          /\ claim' = [i \in Payments |-> IF i \in due THEN p ELSE claim[i]]
          /\ payout' = [payout EXCEPT ![p] = Row("pending", isp, due, req[r].staff)]
    OBVIOUS
  <2>2. p \in Payouts /\ payout[p].status = "none" /\ p # None
    BY PayoutAssumption DEF NextId, NoPayout, Row
  <2>3. QED
    BY <2>1, <2>2
<1>c. /\ Row("pending", isp, due, req[r].staff) \in PayoutRow
      /\ payout'[p].status = "pending" /\ payout'[p].covers = due
      /\ payout'[p].creator = req[r].staff /\ payout'[p].conv = None
      /\ payout'[p].sender = None
      /\ \A q \in Payouts : q # p => payout'[q] = payout[q]
  BY <1>a, <1>b DEF Row, UnsettledPayments, PayoutRow, Statuses, TypeOK
<1>d. /\ req' = [req EXCEPT ![r] = NoReq]
      /\ UNCHANGED <<payment, transfer, result, hand>>
  OBVIOUS
<1>1. TypeOK'
  BY <1>b, <1>c, <1>d, PayoutAssumption DEF TypeOK, Request
<1>2. ClaimsExact'
  <2>1. /\ claim' = [i \in Payments |-> IF i \in due THEN p ELSE claim[i]]
        /\ \A i \in Payments : claim[i] # p
    BY <1>b DEF ClaimsExact, Covered, TypeOK, Open, UnsettledPayments
  <2>2. Covered(p)' = due
    BY <2>1, PayoutAssumption DEF Covered, TypeOK, UnsettledPayments
  <2>3. \A q \in Payouts : q # p => Covered(q)' = Covered(q)
    BY <2>1, PayoutAssumption DEF Covered, TypeOK, UnsettledPayments
  <2>4. QED
    BY <2>2, <2>3, <1>c DEF ClaimsExact, Open
<1>3. TwoPeople'
  BY <1>c DEF TypeOK, TwoPeople, PayoutRow
<1>4. RequestsOK'
  BY <1>b, <1>c, <1>d
     DEF TypeOK, RequestsOK, RequestOK, MayApprove, Request, Sending,
         Replies
<1>5. TransfersOK'
  BY <1>b, <1>c, <1>d DEF TransfersOK
<1>6. PayoutsOK'
  BY <1>a, <1>c, <1>d, PayoutAssumption DEF PayoutsOK
<1>7. MoneyHeld'
  BY <1>b, <1>c, <1>d, PayoutAssumption
     DEF TypeOK, TransfersOK, MoneyHeld, Transfer, Request
<1>8. QED
  BY <1>1, <1>2, <1>3, <1>4, <1>5, <1>6, <1>7

LEMMA SendReadStep ==
  ASSUME IInv, NEW r \in Requests, NEW p \in Payouts, NEW staff \in Staff,
         SendRead(r, p, staff)
  PROVE  IInv'
<1> USE DEF IInv, SendRead, Req, NoReq
<1>1. TypeOK'
  BY PayoutAssumption DEF TypeOK, Request, Transfer, Replies
<1>2. ClaimsExact'
  BY DEF ClaimsExact, Covered
<1>3. TwoPeople'
  BY DEF TwoPeople
<1>4. RequestsOK'
  BY PayoutAssumption
     DEF TypeOK, RequestsOK, RequestOK, Sending, Replies, MayApprove
<1>5. TransfersOK'
  BY DEF TransfersOK
<1>6. PayoutsOK'
  BY DEF PayoutsOK
<1>7. MoneyHeld'
  BY DEF TypeOK, MoneyHeld
<1>8. QED
  BY <1>1, <1>2, <1>3, <1>4, <1>5, <1>6, <1>7

LEMMA SendTakeStep ==
  ASSUME IInv, NEW r \in Requests,
         SendTake(r)
  PROVE  IInv'
<1> USE DEF IInv, SendTake, Req, NoReq
<1> DEFINE p == req[r].id
<1>a. /\ p \in Payouts /\ req[r].staff \in Staff /\ payout[p].status = "pending"
      /\ MayApprove(req[r].staff, p)
  BY DEF RequestsOK, RequestOK
<1>b. [payout[p] EXCEPT !.status = "processing", !.sender = req[r].staff] \in PayoutRow
  <2>1. payout[p] \in PayoutRow /\ {"pending", "processing"} \subseteq Statuses
    BY <1>a DEF TypeOK, Statuses
  <2>2. QED
    BY <1>a, <2>1, RowUpdates
<1>1. TypeOK'
  BY <1>a, <1>b DEF TypeOK, Request
<1>2. ClaimsExact'
  BY <1>a DEF TypeOK, ClaimsExact, Covered, PayoutRow, Open
<1>3. TwoPeople'
  BY <1>a, PayoutAssumption DEF TypeOK, TwoPeople, PayoutRow, MayApprove
<1>4. RequestsOK'
  <2>1. /\ \A b \in Payouts \ {p} : payout'[b] = payout[b]
        /\ payout'[p].status = "processing" /\ payout'[p].creator = payout[p].creator
        /\ \A b \in Payouts : MayApprove(req[r].staff, b)' <=> MayApprove(req[r].staff, b)
    BY <1>a DEF TypeOK, PayoutRow, MayApprove
  <2>2. /\ req'[r].stage = "taken" /\ req'[r].id = p /\ transfer' = transfer
        /\ \A q \in Requests \ {r} : req'[q] = req[q]
    BY DEF TypeOK
  <2>3. \A q \in Requests \ {r} : req[q].stage \in Sending => req[q].id # p
    BY <1>a DEF RequestsOK, RequestOK
  <2>4. \A t \in Transfers : transfer[t].of # p
    BY <1>a DEF TransfersOK
  <2>5. RequestOK(r)'
    <3>1. \A q \in Requests : req'[q].stage \in Sending /\ req'[q].id = p => q = r
      BY <2>2, <2>3
    <3>2. QED
      BY <1>a, <2>1, <2>2, <2>4, <3>1 DEF RequestOK
  <2>6. ASSUME NEW q \in Requests \ {r} PROVE RequestOK(q)'
    <3>1. RequestOK(q)
      BY DEF RequestsOK
    <3>2. \A b \in Payouts : MayApprove(req[q].staff, b)' <=> MayApprove(req[q].staff, b)
      BY <2>1, <2>2 DEF MayApprove
    <3>3. CASE req[q].stage \in Sending
      <4>1. req[q].id \in Payouts \ {p}
        BY <2>3, <3>1, <3>3 DEF RequestOK
      <4>2. /\ req'[q] = req[q] /\ payout'[req[q].id] = payout[req[q].id] /\ transfer' = transfer
            /\ \A b \in Requests : req'[b].stage \in Sending /\ req'[b].id = req[q].id =>
                                   req[b].stage \in Sending /\ req[b].id = req[q].id
        BY <2>1, <2>2, <4>1 DEF Sending, Replies
      <4>3. QED
        BY <3>1, <3>3, <4>2 DEF RequestOK, Sending, Replies
    <3>4. CASE req[q].stage \notin Sending
      <4>1. req[q].stage \notin {"taken", "rejected", "accepted"}
        BY <3>4 DEF Sending, Replies
      <4>2. req[q].id \in Payouts /\ payout[req[q].id].status # "none" => payout'[req[q].id].status # "none"
        BY <1>a, <2>1
      <4>3. QED
        BY <2>2, <3>1, <3>2, <3>4, <4>1, <4>2 DEF RequestOK
    <3>5. QED
      BY <3>3, <3>4
  <2>7. QED
    BY <2>5, <2>6 DEF RequestsOK
<1>5. TransfersOK'
  BY <1>a DEF TypeOK, TransfersOK, PayoutRow
<1>6. PayoutsOK'
  BY <1>a DEF TypeOK, PayoutsOK, PayoutRow
<1>7. MoneyHeld'
  BY <1>a, PayoutAssumption
     DEF TypeOK, RequestsOK, RequestOK, TransfersOK, MoneyHeld, Transfer,
         PayoutRow, Sending
<1>8. QED
  BY <1>1, <1>2, <1>3, <1>4, <1>5, <1>6, <1>7

LEMMA SendPostStep ==
  ASSUME IInv, NEW r \in Requests,
         SendPost(r)
  PROVE  IInv'
<1> USE DEF IInv, SendPost, Replied, Req, NoReq
<1> DEFINE p == req[r].id
<1>a. /\ p \in Payouts /\ payout[p].status \notin {"none", "pending"}
      /\ \A t \in Transfers : transfer[t].of # p
      /\ \A q \in Requests : req[q].stage \in Sending /\ req[q].id = p => q = r
      /\ StaffWait => payout[p].status = "processing"
  BY DEF RequestsOK, RequestOK, Sending
<1>b. PICK reply \in Replies, t \in Transfers \cup {None} :
         /\ req' = [req EXCEPT ![r] = Req(reply, None, p, req[r].staff, t)]
         /\ reply = "accepted" =>
              /\ t \in Transfers
              /\ transfer[t].state = "unused"
              /\ transfer' = [transfer EXCEPT ![t] = [of |-> p, state |-> "queued"]]
         /\ reply = "rejected" => UNCHANGED transfer
         /\ \/ UNCHANGED transfer
            \/ \E u \in Transfers :
                 /\ transfer[u].state = "unused"
                 /\ transfer' = [transfer EXCEPT ![u] = [of |-> p, state |-> "queued"]]
  BY DEF Replies
<1>c. /\ \A u \in Transfers : transfer[u].of # None => transfer'[u] = transfer[u]
      /\ \A u \in Transfers : transfer'[u].of \in {transfer[u].of, p}
  <2>1. CASE UNCHANGED transfer
    BY <2>1
  <2>2. ASSUME NEW v \in Transfers, transfer[v].state = "unused",
               transfer' = [transfer EXCEPT ![v] = [of |-> p, state |-> "queued"]]
        PROVE  /\ \A u \in Transfers : transfer[u].of # None => transfer'[u] = transfer[u]
               /\ \A u \in Transfers : transfer'[u].of \in {transfer[u].of, p}
    <3>1. transfer[v].of = None
      BY <2>2 DEF TransfersOK
    <3>2. QED
      BY <2>2, <3>1 DEF TypeOK
  <2>3. QED
    BY <1>b, <2>1, <2>2
<1>d. \A q \in Requests : q # r => req'[q] = req[q]
  BY <1>b
<1>e. /\ req'[r].stage = reply /\ req'[r].id = p /\ req'[r].conv = t
      /\ req[r].stage \in Sending
  BY <1>b DEF TypeOK, Sending
<1>1. TypeOK'
  <2>1. [of |-> p, state |-> "queued"] \in Transfer
    BY <1>a DEF Transfer
  <2>2. transfer' \in [Transfers -> Transfer]
    BY <1>b, <2>1 DEF TypeOK
  <2>3. Req(reply, None, p, req[r].staff, t) \in Request
    BY <1>a DEF TypeOK, Request
  <2>4. QED
    BY <1>b, <2>2, <2>3 DEF TypeOK
<1>2. ClaimsExact'
  BY DEF ClaimsExact, Covered
<1>3. TwoPeople'
  BY DEF TwoPeople
<1>4. RequestsOK'
  <2>1. SUFFICES ASSUME NEW q \in Requests PROVE RequestOK(q)'
    BY DEF RequestsOK
  <2>2. RequestOK(q)
    BY DEF RequestsOK
  <2>3. CASE q # r
    <3>1. req[q].stage \in Sending => req[q].id # p
      BY <1>a, <2>3
    <3>2. req'[q] = req[q] /\ UNCHANGED payout
      BY <1>d, <2>3
    <3>3. \A s \in Requests :
            req'[s].stage \in Sending /\ req'[s].id = req[q].id /\ req[q].stage \in Sending
              => s = q
      BY <1>d, <1>e, <2>2, <3>1, <3>2 DEF RequestOK
    <3>4. req[q].stage \in {"taken", "rejected"} =>
            \A u \in Transfers : transfer'[u].of # req[q].id
      BY <1>c, <2>2, <3>1 DEF RequestOK, Sending, Replies
    <3>5. req[q].stage = "accepted" =>
            req[q].conv \in Transfers /\ transfer'[req[q].conv].of = req[q].id
      BY <1>c, <2>2, PayoutAssumption DEF RequestOK, Sending, Replies
    <3>6. MayApprove(req[q].staff, req[q].id)' <=> MayApprove(req[q].staff, req[q].id)
      BY <3>2 DEF MayApprove
    <3>7. QED
      BY <2>2, <3>2, <3>3, <3>4, <3>5, <3>6 DEF RequestOK
  <2>4. CASE q = r
    <3>1. \A s \in Requests : req'[s].stage \in Sending /\ req'[s].id = p => s = r
      BY <1>a, <1>d
    <3>2. reply = "rejected" => \A u \in Transfers : transfer'[u].of # p
      BY <1>a, <1>b
    <3>3. reply = "accepted" => t \in Transfers /\ transfer'[t].of = p
      BY <1>b DEF TypeOK
    <3>4. UNCHANGED payout
      OBVIOUS
    <3>5. reply \in {"accepted", "rejected", "unknown"}
      BY DEF Replies
    <3>6. QED
      BY <1>a, <1>e, <2>4, <3>1, <3>2, <3>3, <3>4, <3>5 DEF RequestOK
  <2>5. QED
    BY <2>3, <2>4
<1>5. TransfersOK'
  <2>1. CASE UNCHANGED transfer
    BY <2>1 DEF TransfersOK
  <2>2. ASSUME NEW v \in Transfers, transfer[v].state = "unused",
               transfer' = [transfer EXCEPT ![v] = [of |-> p, state |-> "queued"]]
        PROVE  TransfersOK'
    <3>1. transfer'[v].of = p /\ transfer'[v].state = "queued" /\ v \notin result
      BY <2>2 DEF TypeOK, TransfersOK
    <3>2. \A u \in Transfers : u # v => transfer'[u] = transfer[u]
      BY <2>2 DEF TypeOK
    <3>3. QED
      BY <1>a, <3>1, <3>2, PayoutAssumption DEF TransfersOK
  <2>3. QED
    BY <1>b, <2>1, <2>2
<1>6. PayoutsOK'
  BY <1>c, PayoutAssumption DEF TypeOK, PayoutsOK, PayoutRow
<1>7. MoneyHeld'
  <2>1. p \notin hand
    BY DEF MoneyHeld
  <2>2. \A h \in hand : \A u \in Transfers : transfer'[u].of = h => transfer'[u] = transfer[u]
    BY <1>c, <2>1, PayoutAssumption DEF TypeOK
  <2>3. \A s \in Requests : req'[s].stage = "taken" => req'[s].stage = req[s].stage /\ req'[s].id = req[s].id
    BY <1>d, <1>e DEF Replies
  <2>4. \A u \in Transfers : transfer'[u] = transfer[u] \/ transfer'[u].of = p
    BY <1>b DEF TypeOK
  <2>5. UNCHANGED <<hand, payout>>
    OBVIOUS
  <2>6. QED
    BY <1>a, <2>2, <2>3, <2>4, <2>5 DEF MoneyHeld
<1>8. QED
  BY <1>1, <1>2, <1>3, <1>4, <1>5, <1>6, <1>7

LEMMA SendAcceptedStep ==
  ASSUME IInv, NEW r \in Requests,
         SendAccepted(r)
  PROVE  IInv'
<1> USE DEF IInv, SendAccepted, Req, NoReq
<1> DEFINE p == req[r].id
<1>a. /\ p \in Payouts /\ req[r].conv \in Transfers
      /\ transfer[req[r].conv].of = p
  BY DEF RequestsOK, RequestOK, Sending, Replies
<1>b. [payout[p] EXCEPT !.conv = req[r].conv] \in PayoutRow
  <2>1. payout[p] \in PayoutRow /\ {"pending", "processing"} \subseteq Statuses
    BY <1>a DEF TypeOK, Statuses
  <2>2. QED
    BY <1>a, <2>1, RowUpdates
<1>1. TypeOK'
  BY <1>a, <1>b DEF TypeOK, Request
<1>2. ClaimsExact'
  BY <1>a DEF TypeOK, ClaimsExact, Covered, PayoutRow, Open
<1>3. TwoPeople'
  BY <1>a, PayoutAssumption DEF TypeOK, TwoPeople, PayoutRow, MayApprove
<1>4. RequestsOK'
  BY <1>a, PayoutAssumption
     DEF TypeOK, RequestsOK, RequestOK, TransfersOK, Sending, Replies,
         MayApprove, Request, PayoutRow, Transfer
<1>5. TransfersOK'
  BY <1>a DEF TypeOK, TransfersOK, PayoutRow
<1>6. PayoutsOK'
  BY <1>a DEF TypeOK, PayoutsOK, PayoutRow
<1>7. MoneyHeld'
  BY <1>a, PayoutAssumption
     DEF TypeOK, RequestsOK, RequestOK, TransfersOK, MoneyHeld, Transfer,
         PayoutRow, Sending
<1>8. QED
  BY <1>1, <1>2, <1>3, <1>4, <1>5, <1>6, <1>7

LEMMA SendRejectedStep ==
  ASSUME IInv, NEW r \in Requests,
         SendRejected(r)
  PROVE  IInv'
<1> USE DEF IInv, SendRejected, Req, NoReq
<1> DEFINE p == req[r].id
<1>a. p \in Payouts /\ \A t \in Transfers : transfer[t].of # p
  BY DEF RequestsOK, RequestOK, Sending, Replies
<1>b. [payout[p] EXCEPT !.status = "pending", !.sender = None] \in PayoutRow
  <2>1. payout[p] \in PayoutRow /\ {"pending", "processing"} \subseteq Statuses
    BY <1>a DEF TypeOK, Statuses
  <2>2. QED
    BY <1>a, <2>1, RowUpdates
<1>1. TypeOK'
  BY <1>a, <1>b DEF TypeOK, Request
<1>2. ClaimsExact'
  BY <1>a DEF TypeOK, ClaimsExact, Covered, PayoutRow, Open
<1>3. TwoPeople'
  BY <1>a, PayoutAssumption DEF TypeOK, TwoPeople, PayoutRow, MayApprove
<1>4. RequestsOK'
  <2>1. /\ \A b \in Payouts \ {p} : payout'[b] = payout[b]
        /\ payout'[p].creator = payout[p].creator /\ transfer' = transfer
    BY <1>a DEF TypeOK, PayoutRow
  <2>2. /\ req'[r].stage = "none" /\ req'[r] = NoReq
        /\ \A q \in Requests \ {r} : req'[q] = req[q]
    BY DEF TypeOK
  <2>3. \A q \in Requests \ {r} : req[q].stage \in Sending => req[q].id # p
    BY <1>a DEF RequestsOK, RequestOK, Sending, Replies
  <2>4. payout[p].status # "none" /\ payout'[p].status # "none"
    BY <1>a DEF RequestsOK, RequestOK, Sending, Replies, TypeOK, PayoutRow
  <2>5. RequestOK(r)'
    BY <2>2 DEF RequestOK, Sending, Replies
  <2>6. ASSUME NEW q \in Requests \ {r} PROVE RequestOK(q)'
    <3>1. RequestOK(q)
      BY DEF RequestsOK
    <3>2. \A b \in Payouts : MayApprove(req[q].staff, b)' <=> MayApprove(req[q].staff, b)
      BY <1>a, <2>1, <2>2 DEF MayApprove
    <3>3. CASE req[q].stage \in Sending
      <4>1. req[q].id \in Payouts \ {p}
        BY <2>3, <3>1, <3>3 DEF RequestOK
      <4>2. /\ req'[q] = req[q] /\ payout'[req[q].id] = payout[req[q].id] /\ transfer' = transfer
            /\ \A b \in Requests : req'[b].stage \in Sending /\ req'[b].id = req[q].id =>
                                   req[b].stage \in Sending /\ req[b].id = req[q].id
        BY <2>1, <2>2, <4>1 DEF Sending, Replies
      <4>3. QED
        BY <3>1, <3>3, <4>2 DEF RequestOK, Sending, Replies
    <3>4. CASE req[q].stage \notin Sending
      <4>1. req[q].stage \notin {"taken", "rejected", "accepted"}
        BY <3>4 DEF Sending, Replies
      <4>2. req[q].id \in Payouts /\ payout[req[q].id].status # "none" => payout'[req[q].id].status # "none"
        BY <1>a, <2>1, <2>4
      <4>3. QED
        BY <2>2, <3>1, <3>2, <3>4, <4>1, <4>2 DEF RequestOK
    <3>5. QED
      BY <3>3, <3>4
  <2>7. QED
    BY <2>5, <2>6 DEF RequestsOK
<1>5. TransfersOK'
  BY <1>a DEF TypeOK, TransfersOK, PayoutRow
<1>6. PayoutsOK'
  BY <1>a DEF TypeOK, PayoutsOK, PayoutRow
<1>7. MoneyHeld'
  BY <1>a, PayoutAssumption
     DEF TypeOK, RequestsOK, RequestOK, TransfersOK, MoneyHeld, Transfer,
         PayoutRow, Sending
<1>8. QED
  BY <1>1, <1>2, <1>3, <1>4, <1>5, <1>6, <1>7

LEMMA DropStep ==
  ASSUME IInv, NEW r \in Requests,
         req' = [req EXCEPT ![r] = NoReq],
         UNCHANGED <<payment, claim, payout, transfer, result, hand>>
  PROVE  IInv'
<1> USE DEF IInv, Req, NoReq
<1>1. TypeOK'
  BY PayoutAssumption DEF TypeOK, Request, Transfer, Replies
<1>2. ClaimsExact'
  BY DEF ClaimsExact, Covered
<1>3. TwoPeople'
  BY DEF TwoPeople
<1>4. RequestsOK'
  BY PayoutAssumption
     DEF TypeOK, RequestsOK, RequestOK, Sending, Replies, MayApprove
<1>5. TransfersOK'
  BY DEF TransfersOK
<1>6. PayoutsOK'
  BY DEF PayoutsOK
<1>7. MoneyHeld'
  BY DEF TypeOK, MoneyHeld
<1>8. QED
  BY <1>1, <1>2, <1>3, <1>4, <1>5, <1>6, <1>7

LEMMA ExecuteStep ==
  ASSUME IInv, NEW t \in Transfers,
         Execute(t)
  PROVE  IInv'
<1> USE DEF IInv, Execute
<1>1. TypeOK'
  BY DEF TypeOK, Transfer
<1>2. ClaimsExact'
  BY DEF ClaimsExact, Covered
<1>3. TwoPeople'
  BY DEF TwoPeople
<1>4. RequestsOK'
  BY DEF TypeOK, RequestsOK, RequestOK, MayApprove, Transfer
<1>5. TransfersOK'
  BY DEF TypeOK, TransfersOK, Transfer
<1>6. PayoutsOK'
  BY PayoutAssumption DEF TypeOK, PayoutsOK, PayoutRow, Transfer
<1>7. MoneyHeld'
  BY DEF TypeOK, TransfersOK, MoneyHeld, Transfer
<1>8. QED
  BY <1>1, <1>2, <1>3, <1>4, <1>5, <1>6, <1>7

LEMMA ReleaseStep ==
  ASSUME IInv, NEW p \in Payouts, NEW status \in {"failed", "cancelled"},
         payout[p].status \in Open,
         payout' = [payout EXCEPT ![p].status = status],
         claim' = Release(p), result' \subseteq result,
         UNCHANGED <<payment, req, transfer, hand>>,
         StaffWait =>
           /\ \A t \in Transfers :
                transfer[t].of = p => transfer[t].state = "refused"
           /\ \A r \in Requests : req[r].stage = "taken" => req[r].id # p
  PROVE  IInv'
<1> USE DEF IInv, Release
<1>a. [payout[p] EXCEPT !.status = status] \in PayoutRow
  <2>1. payout[p] \in PayoutRow /\ {"completed", "failed", "cancelled"} \subseteq Statuses
    BY DEF TypeOK, Statuses
  <2>2. QED
    BY <2>1, RowUpdates
<1>b. /\ payout'[p].status = status /\ payout'[p].conv = payout[p].conv
      /\ payout'[p].creator = payout[p].creator
      /\ \A q \in Payouts : q # p => payout'[q] = payout[q]
      /\ payout[p].status # "none"
  BY DEF TypeOK, PayoutRow, Open
<1>1. TypeOK'
  BY <1>a DEF TypeOK
<1>2. ClaimsExact'
  BY PayoutAssumption DEF TypeOK, ClaimsExact, Covered, PayoutRow, Open
<1>3. TwoPeople'
  BY PayoutAssumption DEF TypeOK, TwoPeople, PayoutRow, MayApprove, Open
<1>4. RequestsOK'
  BY DEF TypeOK, RequestsOK, RequestOK, MayApprove, PayoutRow, Open,
         Sending, Replies
<1>5. TransfersOK'
  BY DEF TypeOK, TransfersOK, PayoutRow, Open
<1>6. PayoutsOK'
  BY <1>b DEF PayoutsOK
<1>7. MoneyHeld'
  BY PayoutAssumption
     DEF TypeOK, TransfersOK, MoneyHeld, Transfer, PayoutRow, Open
<1>8. QED
  BY <1>1, <1>2, <1>3, <1>4, <1>5, <1>6, <1>7

LEMMA CompleteStep ==
  ASSUME IInv, NEW p \in Payouts,
         payout[p].status = "processing",
         payout' = [payout EXCEPT ![p].status = "completed"],
         \A r \in Requests : req[r].stage = "taken" => req[r].id # p,
         UNCHANGED <<payment, claim, req, transfer, hand>>, result' \subseteq result
  PROVE  IInv'
<1> USE DEF IInv
<1>a. [payout[p] EXCEPT !.status = "completed"] \in PayoutRow
  <2>1. payout[p] \in PayoutRow /\ {"completed", "failed", "cancelled"} \subseteq Statuses
    BY DEF TypeOK, Statuses
  <2>2. QED
    BY <2>1, RowUpdates
<1>1. TypeOK'
  BY <1>a DEF TypeOK
<1>2. ClaimsExact'
  BY PayoutAssumption DEF TypeOK, ClaimsExact, Covered, PayoutRow, Open
<1>3. TwoPeople'
  BY PayoutAssumption DEF TypeOK, TwoPeople, PayoutRow, MayApprove, Open
<1>4. RequestsOK'
  BY DEF TypeOK, RequestsOK, RequestOK, MayApprove, PayoutRow, Open,
         Sending, Replies
<1>5. TransfersOK'
  BY DEF TypeOK, TransfersOK, PayoutRow, Open
<1>6. PayoutsOK'
  BY PayoutAssumption
     DEF TypeOK, RequestsOK, RequestOK, TransfersOK, PayoutsOK, Transfer,
         Request, PayoutRow
<1>7. MoneyHeld'
  BY PayoutAssumption
     DEF TypeOK, TransfersOK, MoneyHeld, Transfer, PayoutRow, Open
<1>8. QED
  BY <1>1, <1>2, <1>3, <1>4, <1>5, <1>6, <1>7

LEMMA MarkPaidStep ==
  ASSUME IInv, NEW p \in Payouts, NEW staff \in Staff,
         MarkPaid(p, staff)
  PROVE  IInv'
<1> USE DEF IInv, MarkPaid, OnStatement, Underway
<1>a. [payout[p] EXCEPT !.status = "completed", !.sender = staff] \in PayoutRow
  BY RowUpdates DEF TypeOK, Statuses
<1>b. /\ payout'[p].status = "completed" /\ payout'[p].conv = payout[p].conv
      /\ payout'[p].creator = payout[p].creator
      /\ \A q \in Payouts : q # p => payout'[q] = payout[q]
      /\ payout[p].status # "none"
  BY DEF TypeOK, PayoutRow, Open
<1>1. TypeOK'
  BY <1>a DEF TypeOK
<1>2. ClaimsExact'
  BY PayoutAssumption DEF TypeOK, ClaimsExact, Covered, PayoutRow, Open
<1>3. TwoPeople'
  BY PayoutAssumption
     DEF TypeOK, TwoPeople, PayoutRow, MayApprove, Open, PayoutsOK
<1>4. RequestsOK'
  BY DEF TypeOK, RequestsOK, RequestOK, MayApprove, PayoutRow, Open,
         Sending, Replies
<1>5. TransfersOK'
  BY DEF TypeOK, TransfersOK, PayoutRow, Open
<1>6. PayoutsOK'
  BY <1>b DEF PayoutsOK
<1>7. MoneyHeld'
  BY PayoutAssumption
     DEF TypeOK, TransfersOK, MoneyHeld, Transfer, PayoutRow, Open
<1>8. QED
  BY <1>1, <1>2, <1>3, <1>4, <1>5, <1>6, <1>7

-----------------------------------------------------------------------------
(* The theorems *)

LEMMA InitHolds == Init => IInv
<1> SUFFICES ASSUME Init PROVE IInv
  OBVIOUS
<1> USE DEF Init, NoReq, Req, NoPayout, Row
<1>1. TypeOK
  BY DEF TypeOK, Request, Transfer, PayoutRow
<1>2. ClaimsExact
  BY PayoutAssumption DEF ClaimsExact, Covered, Open
<1>3. TwoPeople
  BY DEF TwoPeople
<1>4. RequestsOK /\ TransfersOK /\ PayoutsOK /\ MoneyHeld
  BY PayoutAssumption
     DEF RequestsOK, RequestOK, TransfersOK, PayoutsOK, MoneyHeld, Sending,
         Replies
<1>5. QED
  BY <1>1, <1>2, <1>3, <1>4 DEF IInv

\* A result that finds its payout in "processing" settles it; any other
\* changes nothing.
LEMMA ResultStep ==
  ASSUME IInv, NEW t \in Transfers, NEW last \in BOOLEAN, B2BResult(t, last)
  PROVE  IInv'
<1>1. /\ t \in result /\ result' \subseteq result
      /\ UNCHANGED <<payment, req, transfer, hand>>
      /\ transfer[t].state \in {"paid", "refused"}
  BY DEF B2BResult, IInv, TransfersOK
<1>2. CASE Awaiting(t) = {}
  <2>1. UNCHANGED <<payment, claim, payout, req, transfer, hand>>
    BY <1>2 DEF B2BResult
  <2>2. QED
    BY <1>1, <2>1
       DEF IInv, TypeOK, ClaimsExact, Covered, TwoPeople, RequestsOK,
           RequestOK, MayApprove, TransfersOK, PayoutsOK, MoneyHeld
<1>3. CASE Awaiting(t) # {}
  <2>1. PICK p \in Awaiting(t) : Settle(p, transfer[t].state)
    BY <1>3 DEF B2BResult
  <2>2. p \in Payouts /\ payout[p].status = "processing" /\ payout[p].conv = t
    BY DEF Awaiting
  <2>3. transfer[t].of = p
    BY <2>2, PayoutAssumption DEF IInv, PayoutsOK
  <2>4. \A r \in Requests : req[r].stage = "taken" => req[r].id # p
    BY <2>3 DEF IInv, RequestsOK, RequestOK
  <2>5. CASE transfer[t].state = "paid"
    <3>1. payout' = [payout EXCEPT ![p].status = "completed"] /\ claim' = claim
      BY <2>1, <2>5 DEF Settle
    <3>2. QED
      BY <1>1, <2>2, <2>4, <3>1, CompleteStep
  <2>6. CASE transfer[t].state = "refused"
    <3>1. /\ payout' = [payout EXCEPT ![p].status = "failed"]
          /\ claim' = Release(p)
      BY <2>1, <2>6 DEF Settle
    <3>2. \A u \in Transfers : transfer[u].of = p => transfer[u].state = "refused"
      BY <2>3, <2>6, <2>2, PayoutAssumption DEF IInv, TransfersOK
    <3>3. payout[p].status \in Open
      BY <2>2 DEF Open
    <3>4. QED
      BY <1>1, <2>2, <2>4, <3>1, <3>2, <3>3, ReleaseStep
  <2>7. QED
    BY <1>1, <2>5, <2>6
<1>4. QED
  BY <1>2, <1>3

\* Nothing has been sent of a payout that is pending.
LEMMA CancelStep ==
  ASSUME IInv, NEW p \in Payouts, Cancel(p)
  PROVE  IInv'
<1>1. /\ payout[p].status = "pending" /\ payout[p].status \in Open
      /\ payout' = [payout EXCEPT ![p].status = "cancelled"]
      /\ claim' = Release(p) /\ result' = result
      /\ UNCHANGED <<payment, req, transfer, hand>>
  BY DEF Cancel, Open
<1>2. \A t \in Transfers : transfer[t].of # p
  BY <1>1 DEF IInv, TransfersOK
<1>3. \A r \in Requests : req[r].stage = "taken" => req[r].id # p
  BY <1>1 DEF IInv, RequestsOK, RequestOK, Sending
<1>4. QED
  BY <1>1, <1>2, <1>3, ReleaseStep

\* With StaffWait nothing is on its way of a payout the staff fail.
LEMMA FailStep ==
  ASSUME IInv, NEW p \in Payouts, Fail(p)
  PROVE  IInv'
<1>1. /\ payout[p].status \in Open
      /\ payout' = [payout EXCEPT ![p].status = "failed"]
      /\ claim' = Release(p) /\ result' = result
      /\ UNCHANGED <<payment, req, transfer, hand>>
  BY DEF Fail, Open
<1>2. ASSUME StaffWait, NEW t \in Transfers, transfer[t].of = p
      PROVE  transfer[t].state = "refused"
  BY <1>2, PayoutAssumption
     DEF Fail, Underway, OnStatement, IInv, TypeOK, TransfersOK, Transfer
<1>3. ASSUME StaffWait, NEW r \in Requests, req[r].stage = "taken"
      PROVE  req[r].id # p
  BY <1>3 DEF Fail, Underway
<1>4. QED
  BY <1>1, <1>2, <1>3, ReleaseStep

LEMMA NextHolds == IInv /\ [Next]_vars => IInv'
<1> SUFFICES ASSUME IInv, [Next]_vars PROVE IInv'
  OBVIOUS
<1>1. ASSUME NEW i \in Payments, PaymentCompletes(i) PROVE IInv'
  <2>1. TypeOK' /\ UNCHANGED <<claim, payout, req, transfer, result, hand>>
    BY <1>1 DEF PaymentCompletes, IInv, TypeOK
  <2>2. QED
    BY <2>1, PaymentStep
<1>2. ASSUME NEW isp \in Isps, Backfill(isp) PROVE IInv'
  <2>1. TypeOK' /\ UNCHANGED <<claim, payout, req, transfer, result, hand>>
    BY <1>2 DEF Backfill, IInv, TypeOK
  <2>2. QED
    BY <2>1, PaymentStep
<1>3. ASSUME NEW r \in Requests, Ask(r) PROVE IInv'
  BY <1>3, CreateCheckStep, SendReadStep DEF Ask
<1>4. ASSUME NEW r \in Requests, CreateRefuse(r) \/ SendLate(r) \/
                                 SendUnknown(r) \/ Crash(r)
      PROVE  IInv'
  <2>1. /\ req' = [req EXCEPT ![r] = NoReq]
        /\ UNCHANGED <<payment, claim, payout, transfer, result, hand>>
    BY <1>4 DEF CreateRefuse, SendLate, SendUnknown, Crash
  <2>2. QED
    BY <2>1, DropStep
<1>5. ASSUME NEW r \in Requests, Serve(r) PROVE IInv'
  BY <1>4, <1>5, CreateCommitStep, SendTakeStep, SendPostStep,
     SendAcceptedStep, SendRejectedStep DEF Serve
<1>6. ASSUME NEW p \in Payouts, Decide(p) PROVE IInv'
  BY <1>6, CancelStep, FailStep, MarkPaidStep DEF Decide
<1>7. ASSUME NEW t \in Transfers, NEW last \in BOOLEAN,
             Execute(t) \/ B2BResult(t, last)
      PROVE  IInv'
  BY <1>7, ExecuteStep, ResultStep
<1>8. ASSUME UNCHANGED vars PROVE IInv'
  <2>1. TypeOK' /\ UNCHANGED <<claim, payout, req, transfer, result, hand>>
    BY <1>8 DEF vars, IInv, TypeOK
  <2>2. QED
    BY <2>1, PaymentStep
<1>9. QED
  BY <1>1, <1>2, <1>3, <1>4, <1>5, <1>6, <1>7, <1>8 DEF Next, Run

\* The invariant holds in every behaviour.
THEOREM Inductive == Spec => []IInv
  BY InitHolds, NextHolds, PTL DEF Spec

\* Type correctness of the payouts table, the requests and the transfers.
THEOREM TypeCorrect == Spec => []TypeOK
<1>1. IInv => TypeOK
  BY DEF IInv
<1>2. QED
  BY <1>1, Inductive, PTL

\* An open or completed payout holds exactly the payments it was priced on
\* and a cancelled or failed one none (CreatePayout, finishAndRelease).
THEOREM ClaimsHold == Spec => []ClaimsExact
<1>1. IInv => ClaimsExact
  BY DEF IInv
<1>2. QED
  BY <1>1, Inductive, PTL

\* A payout that can be sent has no transfer at Safaricom (SendB2B,
\* revertToPending).
THEOREM RetriesAreSafe == Spec => []RetryIsSafe
<1>1. IInv => RetryIsSafe
  BY DEF IInv, TransfersOK, RetryIsSafe
<1>2. QED
  BY <1>1, Inductive, PTL

\* The two-person rule survives every interleaving (payoutSecondApprover and
\* the transitions of SendB2B and MarkPaid).
THEOREM TwoPeopleHold == Spec => []TwoPeople
<1>1. IInv => TwoPeople
  BY DEF IInv
<1>2. QED
  BY <1>1, Inductive, PTL

\* What carried a payment's money is of the payout that holds the payment.
LEMMA Carried ==
  ASSUME StaffWait, IInv, NEW i \in Payments
  PROVE  /\ \A t \in SentFor(i) :
              /\ t \in Transfers /\ transfer[t].state = "paid"
              /\ transfer[t].of \in Payouts /\ claim[i] = transfer[t].of
         /\ \A p \in PaidByHand(i) : p \in hand /\ p \in Payouts /\ claim[i] = p
<1>1. ASSUME NEW p \in Payouts, payout[p].status \in {"processing", "completed"},
             i \in payout[p].covers
      PROVE  claim[i] = p
  BY <1>1 DEF IInv, ClaimsExact, Covered, Open
<1>2. ASSUME NEW t \in SentFor(i)
      PROVE  /\ t \in Transfers /\ transfer[t].state = "paid"
             /\ transfer[t].of \in Payouts /\ claim[i] = transfer[t].of
  <2>1. t \in Transfers /\ transfer[t].state = "paid"
    BY DEF SentFor
  <2>2. transfer[t].of \in Payouts
    BY <2>1 DEF IInv, TypeOK, TransfersOK, Transfer
  <2>3. payout[transfer[t].of].status \in {"processing", "completed"}
    BY <2>1 DEF IInv, MoneyHeld
  <2>4. QED
    BY <1>1, <2>1, <2>2, <2>3 DEF SentFor
<1>3. ASSUME NEW p \in PaidByHand(i)
      PROVE  p \in hand /\ p \in Payouts /\ claim[i] = p
  <2>1. p \in hand /\ p \in Payouts /\ i \in payout[p].covers
    BY DEF PaidByHand, IInv, TypeOK
  <2>2. payout[p].status = "completed"
    BY <2>1 DEF IInv, MoneyHeld
  <2>3. QED
    BY <1>1, <2>1, <2>2
<1>4. QED
  BY <1>2, <1>3

LEMMA SentOnce == StaffWait /\ IInv => NeverSentTwice
<1> SUFFICES ASSUME StaffWait, IInv, NEW i \in Payments
             PROVE  /\ \A t, u \in SentFor(i) : t = u
                    /\ \A p, q \in PaidByHand(i) : p = q
                    /\ SentFor(i) = {} \/ PaidByHand(i) = {}
  BY DEF NeverSentTwice
<1>2. ASSUME NEW t \in SentFor(i)
      PROVE  /\ t \in Transfers /\ transfer[t].state = "paid"
             /\ transfer[t].of \in Payouts /\ claim[i] = transfer[t].of
  BY Carried
<1>3. ASSUME NEW p \in PaidByHand(i)
      PROVE  p \in hand /\ claim[i] = p
  BY Carried
<1>4. ASSUME NEW t \in SentFor(i), NEW u \in SentFor(i) PROVE t = u
  BY <1>2, PayoutAssumption DEF IInv, TransfersOK
<1>5. ASSUME NEW t \in SentFor(i), NEW p \in PaidByHand(i) PROVE FALSE
  BY <1>2, <1>3 DEF IInv, MoneyHeld
<1>6. QED
  BY <1>3, <1>4, <1>5

\* As long as the staff settle a stuck payout only once its fate is known, no
\* payment leaves twice, whatever is lost, late, retried or claimed again.
THEOREM NeverTwice ==
  ASSUME StaffWait
  PROVE  Spec => []NeverSentTwice
<1>1. IInv => NeverSentTwice
  BY SentOnce
<1>2. QED
  BY <1>1, Inductive, PTL

\* No step undoes a final status or moves what a final payout covers.
LEMMA FinalKept ==
  ASSUME IInv, [Next]_vars, NEW p \in Payouts, payout[p].status \in Final
  PROVE  /\ payout'[p].status = payout[p].status
         /\ payout'[p].covers = payout[p].covers
         /\ Covered(p)' = Covered(p)
<1>1. /\ payout[p].status \notin {"none", "pending", "processing"}
      /\ payout \in [Payouts -> PayoutRow] /\ claim \in [Payments -> Payouts \cup {None}]
  BY DEF Final, IInv, TypeOK
<1>2. ASSUME NEW r \in Requests, CreateCommit(r)
      PROVE  /\ payout'[p] = payout[p]
             /\ Covered(p)' = Covered(p)
  <2>1. PICK q \in NextId :
          /\ claim' = [i \in Payments |->
                         IF i \in UnsettledPayments(req[r].isp) THEN q ELSE claim[i]]
          /\ payout' = [payout EXCEPT ![q] =
               Row("pending", req[r].isp, UnsettledPayments(req[r].isp), req[r].staff)]
    BY <1>2 DEF CreateCommit
  <2>2. q # p
    BY <1>1 DEF NextId, NoPayout, Row
  <2>3. \A i \in Payments : claim'[i] = p <=> claim[i] = p
    BY <2>1, <2>2, PayoutAssumption DEF UnsettledPayments
  <2>4. QED
    BY <1>1, <2>1, <2>2, <2>3 DEF Covered
<1>3. ASSUME NEW r \in Requests, SendTake(r) \/ SendRejected(r)
      PROVE  payout'[p] = payout[p] /\ UNCHANGED claim
  BY <1>1, <1>3 DEF SendTake, SendRejected
<1>4. ASSUME NEW r \in Requests, SendAccepted(r)
      PROVE  /\ payout'[p].status = payout[p].status
             /\ payout'[p].covers = payout[p].covers
             /\ UNCHANGED claim
  BY <1>1, <1>4 DEF SendAccepted, PayoutRow
<1>5. ASSUME NEW q \in Payouts, q # p, NEW status,
             payout' = [payout EXCEPT ![q].status = status],
             claim' = Release(q)
      PROVE  payout'[p] = payout[p] /\ Covered(p)' = Covered(p)
  BY <1>1, <1>5, PayoutAssumption DEF Release, Covered
<1>6. ASSUME NEW t \in Transfers, NEW last \in BOOLEAN, B2BResult(t, last)
      PROVE  payout'[p] = payout[p] /\ Covered(p)' = Covered(p)
  <2>1. CASE Awaiting(t) = {}
    BY <1>6, <2>1 DEF B2BResult, Covered
  <2>2. CASE Awaiting(t) # {}
    <3>1. PICK q \in Awaiting(t) : Settle(q, transfer[t].state)
      BY <1>6, <2>2 DEF B2BResult
    <3>2. q \in Payouts /\ q # p
      BY <1>1 DEF Awaiting
    <3>3. QED
      BY <1>1, <1>5, <3>1, <3>2 DEF Settle, Covered
  <2>3. QED
    BY <2>1, <2>2
<1>7. ASSUME NEW q \in Payouts, Decide(q)
      PROVE  payout'[p] = payout[p] /\ Covered(p)' = Covered(p)
  <2>1. q # p
    BY <1>1, <1>7 DEF Decide, Cancel, Fail, MarkPaid, Open
  <2>2. CASE Cancel(q) \/ Fail(q)
    BY <1>5, <2>1, <2>2 DEF Cancel, Fail
  <2>3. CASE \E staff \in Staff : MarkPaid(q, staff)
    BY <1>1, <2>1, <2>3 DEF MarkPaid, Covered
  <2>4. QED
    BY <1>7, <2>2, <2>3 DEF Decide
<1>8. ASSUME UNCHANGED <<payout, claim>>
      PROVE  payout'[p] = payout[p] /\ Covered(p)' = Covered(p)
  BY <1>8 DEF Covered
<1>9. CASE UNCHANGED <<payout, claim>>
  BY <1>8, <1>9
<1>10. CASE ~UNCHANGED <<payout, claim>>
  <2>1. \/ \E r \in Requests : \/ CreateCommit(r) \/ SendTake(r)
                               \/ SendRejected(r) \/ SendAccepted(r)
        \/ \E t \in Transfers, last \in BOOLEAN : B2BResult(t, last)
        \/ \E q \in Payouts : Decide(q)
    BY <1>10
       DEF Next, Run, vars, PaymentCompletes, Backfill, Ask, CreateCheck,
           SendRead, Serve, CreateRefuse, SendLate, SendPost, SendUnknown,
           Execute, Crash
  <2>2. QED
    BY <2>1, <1>2, <1>3, <1>4, <1>6, <1>7 DEF Covered
<1>11. QED
  BY <1>9, <1>10

\* A completed, failed or cancelled payout stays as it is, whatever arrives
\* late (transition, finishAndRelease, HandleB2BResult).
THEOREM SettledHolds == Spec => SettledStays
<1>1. IInv /\ [Next]_vars =>
        [\A p \in Payouts : payout[p].status \in Final =>
           /\ payout'[p].status = payout[p].status
           /\ payout'[p].covers = payout[p].covers
           /\ Covered(p)' = Covered(p)]_vars
  BY FinalKept
<1>2. QED
  BY <1>1, Inductive, PTL DEF Spec, SettledStays

-----------------------------------------------------------------------------
(* Under StaffWait Payout implements Settlement. *)

\* What the ISP sees of a step that opens and pays no transfer, pays nothing by
\* hand and prices no payout again.
LEMMA LeftStays ==
  ASSUME IInv, UNCHANGED <<transfer, hand>>,
         \A p \in Payouts : payout[p].status # "none" => payout'[p].covers = payout[p].covers
  PROVE  Left' = Left
<1> SUFFICES ASSUME NEW i \in Payments
             PROVE  SentFor(i)' = SentFor(i) /\ PaidByHand(i)' = PaidByHand(i)
  BY DEF Left
<1>1. \A t \in Transfers : transfer[t].state = "paid" =>
        payout'[transfer[t].of].covers = payout[transfer[t].of].covers
  <2> SUFFICES ASSUME NEW t \in Transfers, transfer[t].state = "paid"
               PROVE  payout'[transfer[t].of].covers = payout[transfer[t].of].covers
    OBVIOUS
  <2>1. transfer[t].of \in Payouts
    BY DEF IInv, TypeOK, TransfersOK, Transfer
  <2>2. payout[transfer[t].of].status # "none"
    BY <2>1 DEF IInv, TransfersOK
  <2>3. QED
    BY <2>1, <2>2
<1>2. \A p \in hand : payout'[p].covers = payout[p].covers
  BY DEF IInv, TypeOK, MoneyHeld
<1>3. QED
  BY <1>1, <1>2 DEF SentFor, PaidByHand

\* The updates of a payout's row other than its pricing keep what it covers.
LEMMA CoversKept ==
  ASSUME IInv, NEW p \in Payouts,
         \/ payout' = payout
         \/ \E status, sender :
              payout' = [payout EXCEPT ![p].status = status, ![p].sender = sender]
         \/ \E status : payout' = [payout EXCEPT ![p].status = status]
         \/ \E conv : payout' = [payout EXCEPT ![p].conv = conv]
  PROVE  \A q \in Payouts : payout'[q].covers = payout[q].covers
<1>1. payout \in [Payouts -> PayoutRow] /\ payout[p] \in PayoutRow
  BY DEF IInv, TypeOK
<1>2. CASE payout' = payout
  BY <1>2
<1>3. ASSUME NEW row, payout' = [payout EXCEPT ![p] = row],
             row.covers = payout[p].covers
      PROVE  \A q \in Payouts : payout'[q].covers = payout[q].covers
  BY <1>1, <1>3
<1>4. ASSUME NEW status, NEW sender,
             payout' = [payout EXCEPT ![p].status = status, ![p].sender = sender]
      PROVE  \A q \in Payouts : payout'[q].covers = payout[q].covers
  <2> DEFINE row == [payout[p] EXCEPT !.status = status, !.sender = sender]
  <2>1. payout' = [payout EXCEPT ![p] = row]
    BY <1>1, <1>4
  <2>2. row.covers = payout[p].covers
    BY <1>1 DEF PayoutRow
  <2> HIDE DEF row
  <2>3. QED
    BY <1>3, <2>1, <2>2
<1>5. ASSUME NEW status, payout' = [payout EXCEPT ![p].status = status]
      PROVE  \A q \in Payouts : payout'[q].covers = payout[q].covers
  <2> DEFINE row == [payout[p] EXCEPT !.status = status]
  <2>1. payout' = [payout EXCEPT ![p] = row]
    BY <1>1, <1>5
  <2>2. row.covers = payout[p].covers
    BY <1>1 DEF PayoutRow
  <2> HIDE DEF row
  <2>3. QED
    BY <1>3, <2>1, <2>2
<1>6. ASSUME NEW conv, payout' = [payout EXCEPT ![p].conv = conv]
      PROVE  \A q \in Payouts : payout'[q].covers = payout[q].covers
  <2> DEFINE row == [payout[p] EXCEPT !.conv = conv]
  <2>1. payout' = [payout EXCEPT ![p] = row]
    BY <1>1, <1>6
  <2>2. row.covers = payout[p].covers
    BY <1>1 DEF PayoutRow
  <2> HIDE DEF row
  <2>3. QED
    BY <1>3, <2>1, <2>2
<1>7. QED
  BY <1>2, <1>4, <1>5, <1>6

LEMMA SettlementStutters ==
  ASSUME IInv, UNCHANGED <<payment, claim, transfer, hand>>, NEW p \in Payouts,
         \/ payout' = payout
         \/ \E status, sender :
              payout' = [payout EXCEPT ![p].status = status, ![p].sender = sender]
         \/ \E status : payout' = [payout EXCEPT ![p].status = status]
         \/ \E conv : payout' = [payout EXCEPT ![p].conv = conv]
  PROVE  UNCHANGED Owing!vars
<1>1. Left' = Left
  BY CoversKept, LeftStays
<1>2. QED
  BY <1>1 DEF Owing!vars, Owed

LEMMA OweSettlement ==
  ASSUME IInv,
         (\E i \in Payments : PaymentCompletes(i)) \/ \E isp \in Isps : Backfill(isp)
  PROVE  Owing!Next \/ UNCHANGED Owing!vars
<1>1. UNCHANGED <<claim, payout, transfer, hand>>
  BY DEF PaymentCompletes, Backfill
<1>2. Left' = Left
  BY <1>1, LeftStays
<1>3. Owed \subseteq Owed' /\ Owed' \subseteq Payments
  BY DEF Owed, PaymentCompletes, Backfill, IInv, TypeOK
<1>4. CASE Owed' = Owed
  BY <1>1, <1>2, <1>4 DEF Owing!vars
<1>5. CASE Owed' # Owed
  <2> DEFINE due == Owed' \ Owed
  <2>1. due \in SUBSET (Payments \ Owed) /\ due # {} /\ Owed' = Owed \cup due
    BY <1>3, <1>5
  <2>2. Owing!Owe
    BY <1>1, <1>2, <2>1 DEF Owing!Owe
  <2>3. QED
    BY <2>2 DEF Owing!Next
<1>6. QED
  BY <1>4, <1>5

\* A payout is priced on all that waits for its ISP, and claims it.
LEMMA CreateSettlement ==
  ASSUME IInv, NEW r \in Requests, CreateCommit(r)
  PROVE  Owing!Next
<1> DEFINE isp == req[r].isp
           due == UnsettledPayments(isp)
<1>1. PICK p \in NextId :
        /\ due # {}
        /\ claim' = [i \in Payments |-> IF i \in due THEN p ELSE claim[i]]
        /\ payout' = [payout EXCEPT ![p] = Row("pending", isp, due, req[r].staff)]
  BY DEF CreateCommit, Payable
<1>2. isp \in Isps /\ p \in Payouts /\ payout[p].status = "none"
  BY <1>1 DEF CreateCommit, IInv, RequestsOK, RequestOK, NextId, NoPayout, Row
<1>3. Owing!Held(p) = {}
  BY <1>2 DEF Owing!Held, IInv, ClaimsExact, Covered, Open
<1>4. Owing!Waiting(isp) = due
  BY DEF Owing!Waiting, Owed, UnsettledPayments
<1>5. \A q \in Payouts : payout[q].status # "none" => payout'[q].covers = payout[q].covers
  BY <1>1, <1>2 DEF IInv, TypeOK
<1>6. UNCHANGED <<payment, transfer, hand>>
  BY DEF CreateCommit
<1>7. Left' = Left /\ Owed' = Owed
  BY <1>5, <1>6, LeftStays DEF Owed
<1>8. Owing!Hold(p, isp)
  BY <1>1, <1>3, <1>4, <1>7 DEF Owing!Hold
<1>9. QED
  BY <1>2, <1>8 DEF Owing!Next

\* A payout's payments are given back only before its money has left.
LEMMA ReleaseSettlement ==
  ASSUME StaffWait, IInv, NEW p \in Payouts, NEW status,
         payout' = [payout EXCEPT ![p].status = status], claim' = Release(p),
         UNCHANGED <<payment, transfer, hand>>,
         payout[p].status # "completed",
         \A t \in Transfers : transfer[t].of = p => transfer[t].state # "paid"
  PROVE  Owing!Next \/ UNCHANGED Owing!vars
<1>1. Left' = Left /\ Owed' = Owed
  BY CoversKept, LeftStays DEF Owed
<1>2. \A i \in Owing!Held(p) : SentFor(i) = {} /\ PaidByHand(i) = {}
  BY Carried DEF Owing!Held, IInv, MoneyHeld
<1>3. Owing!Kept(p)
  BY <1>2 DEF Owing!Kept, Owing!Held, Left
<1>4. claim' = [i \in Payments |-> IF i \in Owing!Held(p) THEN None ELSE claim[i]]
  BY DEF Release, Owing!Held
<1>5. CASE Owing!Held(p) = {}
  <2>1. claim' = claim
    BY <1>4, <1>5 DEF IInv, TypeOK
  <2>2. QED
    BY <1>1, <2>1 DEF Owing!vars
<1>6. CASE Owing!Held(p) # {}
  BY <1>1, <1>3, <1>4, <1>6 DEF Owing!GiveBack, Owing!Next
<1>7. QED
  BY <1>5, <1>6

\* Money that leaves is of the payments its payout holds, and nothing of theirs
\* has left before.
LEMMA LeaveSettlement ==
  ASSUME StaffWait, IInv, NEW p \in Payouts, NEW means \in Transfers \cup Payouts,
         UNCHANGED <<payment, claim>>,
         payout[p].status \in Open \cup {"completed"},
         \A t \in Transfers : transfer[t].of = p => transfer[t].state # "paid",
         p \notin hand,
         \A i \in Payments : Left'[i] = IF i \in payout[p].covers THEN Left[i] \cup {means}
                                                                  ELSE Left[i]
  PROVE  Owing!Next \/ UNCHANGED Owing!vars
<1>1. Owing!Held(p) = payout[p].covers
  BY DEF Owing!Held, IInv, ClaimsExact, Covered
<1>2. \A i \in Owing!Held(p) : SentFor(i) = {} /\ PaidByHand(i) = {}
  BY Carried DEF Owing!Held
<1>3. \A i \in Owing!Held(p) : i \in Payments /\ Left[i] = {}
  BY <1>2 DEF Owing!Held, Left
<1>4. Left' = [i \in Payments |-> IF i \in Owing!Held(p) THEN {means} ELSE Left[i]]
  <2>1. \A i \in Payments :
          Left'[i] = IF i \in Owing!Held(p) THEN {means} ELSE Left[i]
    BY <1>1, <1>3
  <2>2. Left' = [i \in Payments |-> Left'[i]]
    BY DEF Left
  <2>3. QED
    BY <2>1, <2>2
<1>5. Owed' = Owed
  BY DEF Owed
<1>6. CASE Owing!Held(p) = {}
  <2>1. Left' = Left
    BY <1>4, <1>6 DEF Left
  <2>2. QED
    BY <1>5, <2>1 DEF Owing!vars
<1>7. CASE Owing!Held(p) # {}
  <2>1. Owing!Kept(p)
    BY <1>3 DEF Owing!Kept
  <2>2. Owing!Leave(p, means)
    BY <1>4, <1>5, <1>7, <2>1 DEF Owing!Leave
  <2>3. QED
    BY <2>2 DEF Owing!Next
<1>8. QED
  BY <1>6, <1>7

LEMMA ExecuteSettlement ==
  ASSUME StaffWait, IInv, NEW t \in Transfers, Execute(t)
  PROVE  Owing!Next \/ UNCHANGED Owing!vars
<1>1. PICK outcome \in {"paid", "refused"} :
        transfer' = [transfer EXCEPT ![t].state = outcome]
  BY DEF Execute
<1>2. /\ transfer[t].state = "queued" /\ transfer[t].of \in Payouts
      /\ transfer'[t].state = outcome /\ transfer'[t].of = transfer[t].of
      /\ \A u \in Transfers \ {t} : transfer'[u] = transfer[u]
      /\ UNCHANGED <<payment, claim, payout, hand>>
  BY <1>1 DEF Execute, IInv, TypeOK, TransfersOK, Transfer
<1>3. \A i \in Payments : PaidByHand(i)' = PaidByHand(i)
  BY <1>2 DEF PaidByHand
<1>4. CASE outcome = "refused"
  <2>1. \A i \in Payments : SentFor(i)' = SentFor(i)
    BY <1>2, <1>4 DEF SentFor
  <2>2. Left' = Left
    BY <1>3, <2>1 DEF Left
  <2>3. QED
    BY <1>2, <2>2 DEF Owing!vars, Owed
<1>5. CASE outcome = "paid"
  <2> DEFINE p == transfer[t].of
  <2>1. \A i \in Payments :
          SentFor(i)' = IF i \in payout[p].covers THEN SentFor(i) \cup {t} ELSE SentFor(i)
    BY <1>2, <1>5 DEF SentFor
  <2>2. \A i \in Payments :
          Left'[i] = IF i \in payout[p].covers THEN Left[i] \cup {t} ELSE Left[i]
    BY <1>3, <2>1 DEF Left
  <2>3. payout[p].status \in Open \cup {"completed"}
    BY <1>2 DEF IInv, MoneyHeld, Open
  <2>4. \A u \in Transfers : transfer[u].of = p => u = t
    BY <1>2, PayoutAssumption DEF IInv, TransfersOK
  <2>5. p \notin hand
    BY <1>2 DEF IInv, MoneyHeld
  <2> HIDE DEF p
  <2>6. QED
    BY <1>2, <2>2, <2>3, <2>4, <2>5, LeaveSettlement DEF p
<1>6. QED
  BY <1>4, <1>5

LEMMA MarkPaidSettlement ==
  ASSUME StaffWait, IInv, NEW p \in Payouts, NEW staff \in Staff, MarkPaid(p, staff)
  PROVE  Owing!Next \/ UNCHANGED Owing!vars
<1>1. /\ payout[p].status \in Open
      /\ payout' = [payout EXCEPT ![p].status = "completed", ![p].sender = staff]
      /\ UNCHANGED <<payment, claim, transfer>>
  BY DEF MarkPaid
<1>2. CASE OnStatement(p) # {}
  <2>1. UNCHANGED hand
    BY <1>2 DEF MarkPaid
  <2>2. QED
    BY <1>1, <2>1, SettlementStutters
<1>3. CASE OnStatement(p) = {}
  <2>1. hand' = hand \cup {p}
    BY <1>3 DEF MarkPaid
  <2>2. \A q \in Payouts : payout'[q].covers = payout[q].covers
    BY <1>1, CoversKept
  <2>3. \A i \in Payments : SentFor(i)' = SentFor(i)
    <3>1. \A t \in Transfers : transfer[t].state = "paid" => transfer[t].of \in Payouts
      BY DEF IInv, TypeOK, TransfersOK, Transfer
    <3>2. QED
      BY <1>1, <2>2, <3>1 DEF SentFor
  <2>4. \A i \in Payments :
          PaidByHand(i)' = IF i \in payout[p].covers THEN PaidByHand(i) \cup {p}
                                                     ELSE PaidByHand(i)
    BY <2>1, <2>2 DEF PaidByHand, IInv, TypeOK
  <2>5. \A i \in Payments :
          Left'[i] = IF i \in payout[p].covers THEN Left[i] \cup {p} ELSE Left[i]
    BY <2>3, <2>4 DEF Left
  <2>6. \A t \in Transfers : transfer[t].of = p => transfer[t].state # "paid"
    BY <1>3 DEF OnStatement
  <2>7. p \notin hand
    BY <1>1 DEF IInv, MoneyHeld, Open
  <2>8. QED
    BY <1>1, <2>5, <2>6, <2>7, LeaveSettlement
<1>4. QED
  BY <1>2, <1>3

LEMMA ResultSettlement ==
  ASSUME StaffWait, IInv, NEW t \in Transfers, NEW last \in BOOLEAN, B2BResult(t, last)
  PROVE  Owing!Next \/ UNCHANGED Owing!vars
<1>1. /\ UNCHANGED <<payment, transfer, hand>>
      /\ transfer[t].state \in {"paid", "refused"}
  BY DEF B2BResult, IInv, TransfersOK
<1>2. CASE Awaiting(t) = {}
  <2>1. UNCHANGED <<claim, payout>>
    BY <1>2 DEF B2BResult
  <2>2. QED
    BY <1>1, <2>1, LeftStays DEF Owing!vars, Owed
<1>3. CASE Awaiting(t) # {}
  <2>1. PICK p \in Awaiting(t) : Settle(p, transfer[t].state)
    BY <1>3 DEF B2BResult
  <2>2. p \in Payouts /\ payout[p].status = "processing" /\ transfer[t].of = p
    BY PayoutAssumption DEF Awaiting, IInv, PayoutsOK
  <2>3. CASE transfer[t].state = "paid"
    BY <1>1, <2>1, <2>2, <2>3, SettlementStutters DEF Settle
  <2>4. CASE transfer[t].state = "refused"
    <3>1. \A u \in Transfers : transfer[u].of = p => transfer[u].state # "paid"
      BY <2>2, <2>4, PayoutAssumption DEF IInv, TransfersOK
    <3>2. payout' = [payout EXCEPT ![p].status = "failed"] /\ claim' = Release(p)
      BY <2>1, <2>4 DEF Settle
    <3>3. QED
      BY <1>1, <2>2, <3>1, <3>2, ReleaseSettlement
  <2>5. QED
    BY <1>1, <2>3, <2>4
<1>4. QED
  BY <1>2, <1>3

\* Every step of Payout is one of the settlement, or none.
LEMMA StepSettlement ==
  ASSUME StaffWait, IInv, [Next]_vars
  PROVE  [Owing!Next]_(Owing!vars)
<1> SUFFICES Owing!Next \/ UNCHANGED Owing!vars
  OBVIOUS
<1>1. ASSUME NEW r \in Requests, SendTake(r) \/ SendAccepted(r) \/ SendRejected(r)
      PROVE  UNCHANGED Owing!vars
  <2>1. req[r].id \in Payouts /\ UNCHANGED <<payment, claim, transfer, hand>>
    BY <1>1 DEF SendTake, SendAccepted, SendRejected, IInv, RequestsOK, RequestOK,
       Sending, Replies
  <2>2. CASE SendTake(r)
    BY <2>1, <2>2, SettlementStutters DEF SendTake
  <2>3. CASE SendAccepted(r)
    BY <2>1, <2>3, SettlementStutters DEF SendAccepted
  <2>4. CASE SendRejected(r)
    BY <2>1, <2>4, SettlementStutters DEF SendRejected
  <2>5. QED
    BY <1>1, <2>2, <2>3, <2>4
<1>2. ASSUME NEW r \in Requests, SendPost(r)
      PROVE  UNCHANGED Owing!vars
  <2>1. UNCHANGED <<payment, claim, payout, hand>>
    BY <1>2 DEF SendPost
  <2>2. \A t \in Transfers : transfer'[t] # transfer[t] =>
          transfer[t].state = "unused" /\ transfer'[t].state = "queued"
    BY <1>2 DEF SendPost, IInv, TypeOK
  <2>3. \A t \in Transfers : transfer[t].state = "paid" \/ transfer'[t].state = "paid"
                               => transfer'[t] = transfer[t]
    BY <2>2
  <2>4. \A i \in Payments : SentFor(i)' = SentFor(i) /\ PaidByHand(i)' = PaidByHand(i)
    BY <2>1, <2>3 DEF SentFor, PaidByHand
  <2>5. QED
    BY <2>1, <2>4 DEF Owing!vars, Owed, Left
<1>3. ASSUME NEW p \in Payouts, Cancel(p) \/ Fail(p)
      PROVE  Owing!Next \/ UNCHANGED Owing!vars
  <2>1. PICK status \in {"failed", "cancelled"} :
          payout' = [payout EXCEPT ![p].status = status]
    BY <1>3 DEF Cancel, Fail
  <2>2. /\ claim' = Release(p) /\ UNCHANGED <<payment, transfer, hand>>
        /\ payout[p].status # "completed"
    BY <1>3 DEF Cancel, Fail
  <2>3. \A t \in Transfers : transfer[t].of = p => transfer[t].state # "paid"
    BY <1>3 DEF Cancel, Fail, OnStatement, IInv, TransfersOK
  <2>4. QED
    BY <2>1, <2>2, <2>3, ReleaseSettlement
<1>4. CASE UNCHANGED <<payment, claim, payout, transfer, hand>>
  BY <1>4, LeftStays DEF Owing!vars, Owed
<1>5. QED
  BY <1>1, <1>2, <1>3, <1>4, OweSettlement, CreateSettlement, ExecuteSettlement,
     ResultSettlement, MarkPaidSettlement
     DEF Next, Run, Ask, Serve, Decide, CreateCheck, SendRead, CreateRefuse, SendLate,
         SendUnknown, Crash, vars

\* As long as the staff settle a stuck payout only once its fate is known, any
\* number of payouts, requests and conversations implement the settlement: what
\* leaves leaves once, and is never given back to be paid again.
THEOREM ImplementsSettlement ==
  ASSUME StaffWait
  PROVE  Spec => SettlesSpec
<1>1. Init => Owing!Init
  <2> SUFFICES ASSUME Init PROVE Owing!Init
    OBVIOUS
  <2>1. Owed = {} /\ claim = [i \in Payments |-> None]
    BY DEF Init, Owed
  <2>2. \A i \in Payments : SentFor(i) = {} /\ PaidByHand(i) = {}
    BY DEF Init, SentFor, PaidByHand
  <2>3. QED
    BY <2>1, <2>2 DEF Owing!Init, Left
<1>2. IInv /\ [Next]_vars => [Owing!Next]_(Owing!vars)
  BY StepSettlement
<1>3. QED
  BY <1>1, <1>2, Inductive, PTL DEF Spec, SettlesSpec, Owing!Spec
=============================================================================
