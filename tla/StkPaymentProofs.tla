-------------------------- MODULE StkPaymentProofs --------------------------
(***************************************************************************)
(* Machine-checked proofs about StkPayment, for any payments, phones,      *)
(* devices and troubles.                                                   *)
(***************************************************************************)
EXTENDS StkReceipts, TLAPS

-----------------------------------------------------------------------------
(* The inductive invariant. *)

Ended == {"paid", "short", "declined"}

\* A row has a checkout id only once its handler is done, and completes only
\* with one; so the handler's unconditional write meets a pending row.
LifeOK ==
  \A p \in Payments :
    /\ req[p] \in {"none", "clear"} => row[p].status = "none"
    /\ req[p] \in {"sending", "accepted", "refused"} => row[p].status = "pending"
    /\ row[p].status = "none" => ~row[p].checkout
    /\ req[p] # "done" => ~row[p].checkout
    /\ row[p].status = "completed" => row[p].checkout
    /\ row[p].status # "completed" => row[p].amount = "full" /\ row[p].receipt = "none"
    /\ row[p].amount = "less" => row[p].receipt = "mpesa"
    /\ req[p] \in {"none", "clear", "sending"} => prompt[p] = "none"
    /\ p \in notices => prompt[p] \in Ended

\* An answer was true when Safaricom gave it, and outcomes are final.
AnswersOK ==
  \A p \in Payments : \A a \in Askers :
    /\ query[p][a] # None => row[p].checkout
    /\ query[p][a] = "paid" => prompt[p] \in {"paid", "short"}
    /\ query[p][a] = "refused" => prompt[p] = "declined"
    /\ query[p][a] = "timeup" => age[p] >= 5

SameAppPhone(p, q) ==
  p # q /\ EntryOf[p] = "app" /\ EntryOf[q] = "app" /\ PhoneOf[p] = PhoneOf[q]

\* LockSTKPhone: one tap of a phone at a time, and while it runs no other
\* prompt of the phone is open.
LockOK ==
  \A p, q \in Payments :
    SameAppPhone(p, q) /\ req[p] \in Held =>
      /\ req[q] \notin Held
      /\ ~(row[q].status = "pending" /\ row[q].checkout /\ Recent(q))

IInv == /\ TypeOK /\ LifeOK /\ AnswersOK /\ GrantedOncePaid
        /\ PatientWithPrompt /\ LockOK /\ OneOpenPrompt

-----------------------------------------------------------------------------
(* What the handlers do to one row. *)

\* The rows a handler of callbacks or answers may leave behind.
Outcome(p) ==
  /\ row' \in [Payments -> PaymentRow]
  /\ \A q \in Payments \ {p} : row'[q] = row[q] /\ granted'[q] = granted[q]
  /\ granted' \in [Payments -> Nat]
  /\ row'[p].checkout = row[p].checkout
  /\ row[p].status = "completed" =>
       /\ row'[p].status = "completed" /\ row'[p].amount = row[p].amount
       /\ row[p].receipt = "mpesa" => row'[p].receipt = "mpesa"
       /\ granted'[p] = granted[p]
  /\ row'[p].status = "completed" =>
       granted'[p] = IF row'[p].amount = "full" THEN 1 ELSE 0
  /\ row'[p].status # "completed" =>
       /\ granted'[p] = granted[p] /\ row'[p].amount = row[p].amount
       /\ row'[p].receipt = row[p].receipt
  /\ row'[p].amount = "less" => row'[p].receipt = "mpesa"
  /\ row'[p].status \in {row[p].status, "completed", "failed"}
  /\ row'[p].status = "failed" => row[p].status \in {"pending", "failed"}

\* The updates the handlers make keep a row of the payments table a row.
LEMMA RowUpdates ==
  ASSUME NEW r \in PaymentRow
  PROVE  /\ \A status \in Statuses : \A receipt \in {"none", "query", "mpesa"} :
              [r EXCEPT !.status = status, !.receipt = receipt] \in PaymentRow
         /\ \A status \in Statuses : [r EXCEPT !.status = status] \in PaymentRow
         /\ [r EXCEPT !.receipt = "mpesa"] \in PaymentRow
         /\ [r EXCEPT !.checkout = TRUE] \in PaymentRow
         /\ Underpaid(r) \in PaymentRow
BY DEF PaymentRow, Underpaid, Statuses

\* Replacing the row of p by another one is an outcome if it is one for p.
LEMMA OutcomeOf ==
  ASSUME IInv, NEW p \in Payments, NEW r \in PaymentRow, NEW n \in Nat,
         row' = [row EXCEPT ![p] = r], granted' = [granted EXCEPT ![p] = n],
         r.checkout = row[p].checkout,
         row[p].status = "completed" =>
           /\ r.status = "completed" /\ r.amount = row[p].amount
           /\ row[p].receipt = "mpesa" => r.receipt = "mpesa",
         n = IF r.status = "completed" /\ r.amount = "full" THEN 1 ELSE 0,
         r.status # "completed" =>
           r.amount = row[p].amount /\ r.receipt = row[p].receipt,
         r.amount = "less" => r.receipt = "mpesa",
         r.status \in {row[p].status, "completed", "failed"},
         r.status = "failed" => row[p].status \in {"pending", "failed"}
  PROVE  Outcome(p) /\ row'[p] = r
<1>1. row \in [Payments -> PaymentRow] /\ granted \in [Payments -> Nat]
  BY DEF IInv, TypeOK
<1>2. /\ row' \in [Payments -> PaymentRow] /\ granted' \in [Payments -> Nat]
      /\ row'[p] = r /\ granted'[p] = n
      /\ \A q \in Payments \ {p} : row'[q] = row[q] /\ granted'[q] = granted[q]
  BY <1>1
<1>3. granted[p] = IF row[p].status = "completed" /\ row[p].amount = "full"
                     THEN 1 ELSE 0
  BY DEF IInv, GrantedOncePaid
<1>4. row[p].status # "completed" => row[p].amount = "full"
  BY DEF IInv, LifeOK
<1>5. QED
  BY <1>2, <1>3, <1>4 DEF Outcome

\* Leaving everything alone is an outcome.
LEMMA OutcomeKeep ==
  ASSUME IInv, NEW p \in Payments, Keep
  PROVE  Outcome(p) /\ row' = row
BY DEF Outcome, IInv, Keep, TypeOK, GrantedOncePaid, LifeOK

LEMMA OutcomeSucceed ==
  ASSUME IInv, NEW p \in Payments, NEW receipt \in {"query", "mpesa"},
         row[p].checkout, Succeed(p, receipt)
  PROVE  Outcome(p) /\ row'[p].status = "completed"
<1>1. row[p] \in PaymentRow /\ granted[p] \in Nat
  BY DEF IInv, TypeOK
<1>2. /\ row[p].status # "completed" => row[p].amount = "full"
      /\ row[p].amount = "less" => row[p].receipt = "mpesa"
      /\ granted[p] = IF row[p].status = "completed" /\ row[p].amount = "full"
                        THEN 1 ELSE 0
      /\ row[p].status # "none"
  BY DEF IInv, LifeOK, GrantedOncePaid
<1>3. CASE Completable(p)
  <2> DEFINE r == [row[p] EXCEPT !.status = "completed", !.receipt = receipt]
  <2>1. r \in PaymentRow
    BY <1>1, RowUpdates DEF Statuses
  <2>2. r.status = "completed" /\ r.checkout = row[p].checkout
                               /\ r.amount = row[p].amount /\ r.receipt = receipt
    BY <1>1 DEF PaymentRow
  <2>3. row[p].status # "completed" /\ granted[p] = 0 /\ row[p].amount = "full"
    BY <1>2, <1>3 DEF Completable
  <2>4. row' = [row EXCEPT ![p] = r] /\ granted' = [granted EXCEPT ![p] = 1]
    <3>1. row' = [row EXCEPT ![p] = r] /\ granted' = [granted EXCEPT ![p] = @ + 1]
      BY <1>3 DEF Succeed
    <3>2. QED
      BY <2>3, <3>1
  <2> HIDE DEF r
  <2>5. QED
    BY <1>1, <1>2, <2>1, <2>2, <2>3, <2>4, OutcomeOf
<1>4. CASE ~Completable(p) /\ row[p].receipt = "query" /\ receipt = "mpesa"
  <2> DEFINE r == [row[p] EXCEPT !.receipt = "mpesa"]
  <2>1. r \in PaymentRow
    BY <1>1, RowUpdates
  <2>2. r.status = row[p].status /\ r.checkout = row[p].checkout
          /\ r.amount = row[p].amount /\ r.receipt = "mpesa"
    BY <1>1 DEF PaymentRow
  <2>3. row' = [row EXCEPT ![p] = r] /\ granted' = [granted EXCEPT ![p] = granted[p]]
    BY <1>4 DEF Succeed, IInv, TypeOK
  <2>4. row[p].status = "completed"
    BY <1>4 DEF Completable
  <2> HIDE DEF r
  <2>5. granted[p] = IF r.status = "completed" /\ r.amount = "full" THEN 1 ELSE 0
    BY <1>2, <2>2
  <2>6. /\ r.checkout = row[p].checkout /\ r.status \in {row[p].status, "completed", "failed"}
        /\ r.status # "failed" /\ r.status = "completed"
    BY <2>2, <2>4
  <2>7. Outcome(p) /\ row'[p] = r
    BY <1>1, <2>1, <2>2, <2>3, <2>5, <2>6, OutcomeOf
  <2>8. QED
    BY <2>6, <2>7
<1>5. CASE ~Completable(p) /\ ~(row[p].receipt = "query" /\ receipt = "mpesa")
  <2>1. Keep
    BY <1>5 DEF Succeed, Keep
  <2>2. QED
    BY <1>5, <2>1, OutcomeKeep DEF Completable
<1>6. QED
  BY <1>3, <1>4, <1>5

LEMMA OutcomeUnderpay ==
  ASSUME IInv, NEW p \in Payments, row[p].checkout, Underpay(p)
  PROVE  Outcome(p) /\ row'[p].status = "completed"
<1>1. row[p] \in PaymentRow /\ granted[p] \in Nat
  BY DEF IInv, TypeOK
<1>2. row[p].status # "completed" => granted[p] = 0
  BY DEF IInv, GrantedOncePaid
<1>3. CASE Completable(p)
  <2> DEFINE r == Underpaid(row[p])
  <2>1. r \in PaymentRow
    BY <1>1, RowUpdates
  <2>2. /\ r.status = "completed" /\ r.checkout = row[p].checkout
        /\ r.amount = "less" /\ r.receipt = "mpesa"
    BY <1>1 DEF PaymentRow, Underpaid
  <2>3. row' = [row EXCEPT ![p] = r] /\ granted' = [granted EXCEPT ![p] = granted[p]]
    BY <1>3 DEF Underpay, IInv, TypeOK
  <2>4. row[p].status # "completed"
    BY <1>3 DEF Completable
  <2> HIDE DEF r
  <2>5. QED
    BY <1>1, <1>2, <2>1, <2>2, <2>3, <2>4, OutcomeOf
<1>4. CASE ~Completable(p)
  BY <1>4, OutcomeKeep DEF Underpay, Keep, Completable
<1>5. QED
  BY <1>3, <1>4

LEMMA OutcomeGiveUp ==
  ASSUME IInv, NEW p \in Payments, row[p].checkout, GiveUp(p)
  PROVE  Outcome(p) /\ (row'[p].status = "completed" => row[p].status = "completed")
<1>1. row[p] \in PaymentRow /\ granted[p] \in Nat
  BY DEF IInv, TypeOK
<1>2. row[p].status # "completed" => granted[p] = 0
  BY DEF IInv, GrantedOncePaid
<1>3. CASE Failable(p)
  <2> DEFINE r == [row[p] EXCEPT !.status = "failed"]
  <2>1. r \in PaymentRow
    BY <1>1, RowUpdates DEF Statuses
  <2>2. /\ r.status = "failed" /\ r.checkout = row[p].checkout
        /\ r.amount = row[p].amount /\ r.receipt = row[p].receipt
        /\ r.amount = "less" => r.receipt = "mpesa"
    BY <1>1 DEF PaymentRow, IInv, LifeOK
  <2>3. row' = [row EXCEPT ![p] = r] /\ granted' = [granted EXCEPT ![p] = granted[p]]
    BY <1>3 DEF GiveUp, IInv, TypeOK
  <2>4. row[p].status = "pending"
    BY <1>3 DEF Failable
  <2> HIDE DEF r
  <2>5. QED
    BY <1>1, <1>2, <2>1, <2>2, <2>3, <2>4, OutcomeOf
<1>4. CASE ~Failable(p)
  BY <1>4, OutcomeKeep DEF GiveUp, Keep
<1>5. QED
  BY <1>3, <1>4

\* A handler of callbacks or answers that leaves the row of p in a legal
\* state keeps the invariant.
LEMMA OutcomeStep ==
  ASSUME IInv, NEW p \in Payments, Outcome(p), UNCHANGED <<req, age, prompt, trouble>>,
         row'[p] = row[p] \/ row[p].checkout,
         query' \in [Payments -> [Askers -> Answers \cup {None}]],
         \A q \in Payments : \A a \in Askers : query'[q][a] \in {query[q][a], None},
         notices' \subseteq notices,
         row'[p].status = "completed" /\ row[p].status # "completed"
           => prompt[p] \in {"paid", "short"},
         row'[p].status = "failed" /\ row[p].status # "failed"
           => prompt[p] = "declined" \/ age[p] >= 4
  PROVE  IInv'
<1> USE DEF IInv, Outcome
<1>1. TypeOK'
  BY DEF TypeOK
<1>2. LifeOK'
  <2>1. UNCHANGED <<req, prompt>> /\ notices' \subseteq notices
    OBVIOUS
  <2>2. row[p].checkout /\ row'[p].status \in {row[p].status, "completed", "failed"}
          => req[p] = "done" /\ row[p].status # "none" /\ row'[p].status # "none"
    BY DEF LifeOK, TypeOK
  <2>3. /\ row'[p].checkout = row[p].checkout
        /\ row[p].status # "completed" => row[p].amount = "full" /\ row[p].receipt = "none"
        /\ row'[p].status # "completed" =>
             /\ row[p].status # "completed" /\ row'[p].amount = row[p].amount
             /\ row'[p].receipt = row[p].receipt
        /\ row'[p].amount = "less" => row'[p].receipt = "mpesa"
        /\ row'[p].status \in {row[p].status, "completed", "failed"}
    BY DEF LifeOK
  <2>4. \A q \in Payments \ {p} : row'[q] = row[q]
    OBVIOUS
  <2> HIDE DEF IInv, Outcome
  <2>5. LifeOK
    BY DEF IInv
  <2>6. QED
    BY <2>1, <2>2, <2>3, <2>4, <2>5 DEF LifeOK
<1>3. AnswersOK'
  <2>1. \A q \in Payments : row'[q].checkout = row[q].checkout
    OBVIOUS
  <2> HIDE DEF Outcome
  <2>2. QED
    BY <2>1, StkAssumption DEF AnswersOK
<1>4. GrantedOncePaid'
  <2>1. \A q \in Payments \ {p} : row'[q] = row[q] /\ granted'[q] = granted[q]
    OBVIOUS
  <2>2. row'[p].status = "completed" => prompt[p] \in {"paid", "short"}
    BY DEF GrantedOncePaid
  <2>3. granted'[p] = IF row'[p].status = "completed" /\ row'[p].amount = "full"
                        THEN 1 ELSE 0
    BY DEF GrantedOncePaid
  <2> HIDE DEF Outcome
  <2>4. QED
    BY <2>1, <2>2, <2>3 DEF GrantedOncePaid
<1>5. PatientWithPrompt'
  <2>1. age \in [Payments -> Ages]
    BY DEF TypeOK
  <2>2. \A q \in Payments :
          /\ row'[q].checkout = row[q].checkout
          /\ row'[q].status = "failed" =>
               row[q].status = "failed" \/ prompt[q] = "declined" \/ age[q] >= 4
    OBVIOUS
  <2> HIDE DEF Outcome
  <2>3. QED
    BY <2>1, <2>2 DEF PatientWithPrompt, Ages
<1>6. \A q \in Payments : /\ row'[q].checkout = row[q].checkout
                          /\ row'[q].status = "pending" => row[q].status = "pending"
  BY DEF TypeOK
<1>7. LockOK'
  BY <1>6 DEF LockOK, Recent, SameAppPhone
<1>8. OneOpenPrompt'
  BY <1>6 DEF OneOpenPrompt, Recent
<1>9. QED
  BY <1>1, <1>2, <1>3, <1>4, <1>5, <1>7, <1>8

-----------------------------------------------------------------------------
(* The actions. *)

LEMMA TapStep ==
  ASSUME IInv, NEW p \in Payments, TapApp(p) \/ TapPortal(p) \/ TapTopUp(p)
  PROVE  IInv'
<1>0. /\ req[p] = "none"
      /\ \E next \in {"clear", "done"} :
           /\ req' = [req EXCEPT ![p] = next]
           /\ EntryOf[p] = "app" =>
                Lockable(p) /\ next = (IF RecentPending(p) THEN "done" ELSE "clear")
      /\ UNCHANGED <<row, age, granted, query, prompt, notices, trouble>>
  BY DEF TapApp, TapPortal, TapTopUp, Tap
<1> USE <1>0 DEF IInv
<1>1. TypeOK'
  BY DEF TypeOK, Held
<1>2. LifeOK'
  BY DEF LifeOK, TypeOK
<1>3. AnswersOK'
  BY DEF AnswersOK
<1>4. GrantedOncePaid' /\ PatientWithPrompt' /\ OneOpenPrompt'
  BY DEF GrantedOncePaid, PatientWithPrompt, OneOpenPrompt, Recent
<1>5. LockOK'
  BY DEF LockOK, TypeOK, SameAppPhone, Lockable, RecentPending, Recent, Held
<1>6. QED
  BY <1>1, <1>2, <1>3, <1>4, <1>5

\* The steps of a tap's handler: they write only its own row.
LEMMA HandleStep ==
  ASSUME IInv, NEW p \in Payments, Handle(p)
  PROVE  IInv'
<1> USE DEF IInv
<1>1. CASE Create(p)
  <2> USE <1>1 DEF Create
  <2>1. TypeOK'
    <3>1. [row[p] EXCEPT !.status = "pending"] \in PaymentRow
      <4>1. row[p] \in PaymentRow /\ {"pending", "failed"} \subseteq Statuses
        BY DEF TypeOK, Statuses
      <4>2. QED
        BY <4>1, RowUpdates
    <3>2. row' = [row EXCEPT ![p] = [row[p] EXCEPT !.status = "pending"]]
      OBVIOUS
    <3>3. row' \in [Payments -> PaymentRow]
      BY <3>1, <3>2 DEF TypeOK
    <3>4. QED
      BY <3>3 DEF TypeOK, Held
  <2>2. LifeOK'
    BY DEF LifeOK, TypeOK, PaymentRow
  <2>3. AnswersOK' /\ GrantedOncePaid' /\ PatientWithPrompt'
    <3>1. AnswersOK'
      BY DEF AnswersOK, TypeOK, PaymentRow, LifeOK
    <3>2. GrantedOncePaid'
      BY DEF GrantedOncePaid, TypeOK, PaymentRow, LifeOK
    <3>3. PatientWithPrompt'
      BY DEF PatientWithPrompt, TypeOK, PaymentRow, LifeOK
    <3>4. QED
      BY <3>1, <3>2, <3>3
  <2>4. LockOK' /\ OneOpenPrompt'
    BY DEF LockOK, OneOpenPrompt, TypeOK, PaymentRow, SameAppPhone, Recent, Held,
           LifeOK
  <2>5. QED
    BY <2>1, <2>2, <2>3, <2>4
<1>2. CASE PushAccepted(p) \/ PushRefused(p) \/ PushUnanswered(p)
  <2>1. PICK reply \in {"accepted", "refused"}, shown \in {"none", "shown"} :
          Push(p, reply, shown)
    BY <1>2 DEF PushAccepted, PushRefused, PushUnanswered
  <2> USE <2>1 DEF Push
  <2>2. TypeOK'
    BY DEF TypeOK, Held
  <2>3. LifeOK'
    BY DEF LifeOK, TypeOK, Ended
  <2>4. AnswersOK' /\ GrantedOncePaid' /\ PatientWithPrompt'
    BY DEF AnswersOK, GrantedOncePaid, PatientWithPrompt, TypeOK, LifeOK
  <2>5. LockOK' /\ OneOpenPrompt'
    BY DEF LockOK, OneOpenPrompt, TypeOK, SameAppPhone, Recent, Held
  <2>6. QED
    BY <2>2, <2>3, <2>4, <2>5
<1>3. CASE Store(p)
  <2> USE <1>3 DEF Store
  <2>1. TypeOK'
    <3>1. [row[p] EXCEPT !.checkout = TRUE] \in PaymentRow
      <4>1. row[p] \in PaymentRow /\ {"pending", "failed"} \subseteq Statuses
        BY DEF TypeOK, Statuses
      <4>2. QED
        BY <4>1, RowUpdates
    <3>2. row' = [row EXCEPT ![p] = [row[p] EXCEPT !.checkout = TRUE]]
      OBVIOUS
    <3>3. row' \in [Payments -> PaymentRow]
      BY <3>1, <3>2 DEF TypeOK
    <3>4. QED
      BY <3>3 DEF TypeOK, Held
  <2>2. LifeOK'
    BY DEF LifeOK, TypeOK, PaymentRow
  <2>3. AnswersOK' /\ GrantedOncePaid' /\ PatientWithPrompt'
    <3>1. AnswersOK'
      BY DEF AnswersOK, TypeOK, PaymentRow, LifeOK
    <3>2. GrantedOncePaid'
      BY DEF GrantedOncePaid, TypeOK, PaymentRow, LifeOK
    <3>3. PatientWithPrompt'
      BY DEF PatientWithPrompt, TypeOK, PaymentRow, LifeOK
    <3>4. QED
      BY <3>1, <3>2, <3>3
  <2>4. LockOK' /\ OneOpenPrompt'
    BY DEF LockOK, OneOpenPrompt, TypeOK, PaymentRow, SameAppPhone, Recent, Held
  <2>5. QED
    BY <2>1, <2>2, <2>3, <2>4
<1>4. CASE MarkFailed(p)
  <2> USE <1>4 DEF MarkFailed
  <2>1. TypeOK'
    <3>1. [row[p] EXCEPT !.status = "failed"] \in PaymentRow
      <4>1. row[p] \in PaymentRow /\ {"pending", "failed"} \subseteq Statuses
        BY DEF TypeOK, Statuses
      <4>2. QED
        BY <4>1, RowUpdates
    <3>2. row' = [row EXCEPT ![p] = [row[p] EXCEPT !.status = "failed"]]
      OBVIOUS
    <3>3. row' \in [Payments -> PaymentRow]
      BY <3>1, <3>2 DEF TypeOK
    <3>4. QED
      BY <3>3 DEF TypeOK, Held
  <2>2. LifeOK'
    BY DEF LifeOK, TypeOK, PaymentRow
  <2>3. AnswersOK' /\ GrantedOncePaid' /\ PatientWithPrompt'
    <3>1. AnswersOK'
      BY DEF AnswersOK, TypeOK, PaymentRow, LifeOK
    <3>2. GrantedOncePaid'
      BY DEF GrantedOncePaid, TypeOK, PaymentRow, LifeOK
    <3>3. PatientWithPrompt'
      BY DEF PatientWithPrompt, TypeOK, PaymentRow, LifeOK
    <3>4. QED
      BY <3>1, <3>2, <3>3
  <2>4. LockOK' /\ OneOpenPrompt'
    BY DEF LockOK, OneOpenPrompt, TypeOK, PaymentRow, SameAppPhone, Recent, Held
  <2>5. QED
    BY <2>1, <2>2, <2>3, <2>4
<1>5. QED
  BY <1>1, <1>2, <1>3, <1>4 DEF Handle

LEMMA CustomerStep ==
  ASSUME IInv, NEW p \in Payments, Customer(p)
  PROVE  IInv'
<1> USE DEF IInv, Customer
<1>1. TypeOK'
  BY DEF TypeOK
<1>2. LifeOK'
  BY DEF LifeOK, TypeOK, Ended
<1>3. AnswersOK' /\ GrantedOncePaid' /\ PatientWithPrompt'
  BY DEF AnswersOK, GrantedOncePaid, PatientWithPrompt, TypeOK
<1>4. LockOK' /\ OneOpenPrompt'
  BY DEF LockOK, OneOpenPrompt, SameAppPhone, Recent
<1>5. QED
  BY <1>1, <1>2, <1>3, <1>4

LEMMA CallbackStep ==
  ASSUME IInv, NEW p \in Payments, Callback(p)
  PROVE  IInv'
<1>1. /\ UNCHANGED <<req, age, prompt, query, trouble>>
      /\ query' \in [Payments -> [Askers -> Answers \cup {None}]]
      /\ \A q \in Payments : \A a \in Askers : query'[q][a] \in {query[q][a], None}
      /\ notices' \subseteq notices
  BY DEF Callback, IInv, TypeOK
<1>2. CASE Keep
  <2>1. Outcome(p) /\ row' = row
    BY <1>2, OutcomeKeep
  <2>2. QED
    BY <1>1, <2>1, OutcomeStep
<1>3. CASE row[p].checkout /\ prompt[p] = "declined" /\ GiveUp(p)
  BY <1>1, <1>3, OutcomeGiveUp, OutcomeStep
<1>4. CASE row[p].checkout /\ prompt[p] = "short" /\ Underpay(p)
  BY <1>1, <1>4, OutcomeUnderpay, OutcomeStep
<1>5. CASE row[p].checkout /\ prompt[p] = "paid" /\ Succeed(p, "mpesa")
  BY <1>1, <1>5, OutcomeSucceed, OutcomeStep
<1>6. QED
  BY <1>2, <1>3, <1>4, <1>5 DEF Callback

LEMMA AnswerStep ==
  ASSUME IInv, NEW p \in Payments, NEW a \in Askers, Answer(p, a)
  PROVE  IInv'
<1>1. /\ UNCHANGED <<req, age, prompt, notices, trouble>>
      /\ query' \in [Payments -> [Askers -> Answers \cup {None}]]
      /\ \A q \in Payments : \A b \in Askers : query'[q][b] \in {query[q][b], None}
  BY DEF Answer, IInv, TypeOK
<1>2. row[p].checkout /\ query[p][a] \in Answers /\ age[p] \in Ages
  BY DEF Answer, IInv, TypeOK, AnswersOK
<1>3. CASE query[p][a] = "paid"
  <2>1. Succeed(p, "query") /\ prompt[p] \in {"paid", "short"}
    BY <1>3 DEF Answer, IInv, AnswersOK
  <2>2. QED
    BY <1>1, <1>2, <2>1, OutcomeSucceed, OutcomeStep
<1>4. CASE query[p][a] \in {"refused", "timeup"}
  <2>1. GiveUp(p) /\ (prompt[p] = "declined" \/ age[p] >= 4)
    BY <1>2, <1>4 DEF Answer, IInv, AnswersOK, Ages
  <2>2. QED
    BY <1>1, <1>2, <2>1, OutcomeGiveUp, OutcomeStep
<1>5. CASE query[p][a] = "unresolved"
  <2>1. CASE GivenUp(p)
    <3>1. GiveUp(p) /\ age[p] >= 4
      BY <1>5, <2>1 DEF Answer, GivenUp
    <3>2. QED
      BY <1>1, <1>2, <3>1, OutcomeGiveUp, OutcomeStep
  <2>2. CASE ~GivenUp(p)
    <3>1. Keep
      BY <1>5, <2>2 DEF Answer
    <3>2. QED
      BY <1>1, <3>1, OutcomeKeep, OutcomeStep
  <2>3. QED
    BY <2>1, <2>2
<1>6. QED
  BY <1>2, <1>3, <1>4, <1>5 DEF Answers

LEMMA AskStep ==
  ASSUME IInv, NEW p \in Payments, NEW a \in Askers, Ask(p, a)
  PROVE  IInv'
<1> USE DEF IInv, Ask
<1>1. PICK answer \in AnswersTo(p, a) : query' = [query EXCEPT ![p][a] = answer]
  OBVIOUS
<1>2. answer \in Answers
  BY DEF AnswersTo, Answers
<1>3. TypeOK'
  BY <1>1, <1>2 DEF TypeOK
<1>4. LifeOK' /\ GrantedOncePaid' /\ PatientWithPrompt' /\ LockOK' /\ OneOpenPrompt'
  BY DEF LifeOK, GrantedOncePaid, PatientWithPrompt, LockOK, OneOpenPrompt, Recent
<1>5. /\ answer = "paid" => prompt[p] \in {"paid", "short"}
      /\ answer = "refused" => prompt[p] = "declined"
      /\ answer = "timeup" => age[p] >= 5
  BY DEF AnswersTo
<1>6. AnswersOK'
  BY <1>1, <1>5 DEF AnswersOK, TypeOK
<1>7. QED
  BY <1>3, <1>4, <1>6

LEMMA TickStep ==
  ASSUME IInv, NEW p \in Payments, Tick(p)
  PROVE  IInv'
<1> USE DEF IInv, Tick
<1>1. TypeOK'
  BY DEF TypeOK, Ages, LastAge
<1>2. /\ \A q \in Payments : age'[q] >= age[q]
      /\ \A q \in Payments : age[q] \in Int /\ age'[q] \in Int
  <2>1. age \in [Payments -> 0..6] /\ age' = [age EXCEPT ![p] = @ + 1]
    BY DEF TypeOK, Ages
  <2> HIDE DEF IInv, Tick
  <2>2. QED
    BY <2>1
<1> HIDE DEF Tick
<1>3. UNCHANGED <<req, row, granted, query, prompt, notices, trouble>>
  BY DEF Tick
<1>4. LifeOK' /\ GrantedOncePaid'
  BY <1>3 DEF LifeOK, GrantedOncePaid
<1>5. AnswersOK'
  BY <1>2, <1>3 DEF AnswersOK
<1>6. PatientWithPrompt'
  BY <1>2, <1>3 DEF PatientWithPrompt
<1>7. LockOK' /\ OneOpenPrompt'
  BY <1>2, <1>3 DEF LockOK, OneOpenPrompt, Recent, SameAppPhone
<1>8. QED
  BY <1>1, <1>4, <1>5, <1>6, <1>7

LEMMA CrashStep ==
  ASSUME IInv, Crash
  PROVE  IInv'
<1> USE DEF IInv, Crash
<1>1. TypeOK'
  BY DEF TypeOK, Held
<1>2. LifeOK'
  BY DEF LifeOK, TypeOK, Held
<1>3. AnswersOK'
  BY StkAssumption DEF AnswersOK
<1>4. GrantedOncePaid' /\ PatientWithPrompt' /\ OneOpenPrompt'
  BY DEF GrantedOncePaid, PatientWithPrompt, OneOpenPrompt, Recent
<1>5. LockOK'
  BY DEF LockOK, Recent, SameAppPhone, Held, TypeOK
<1>6. QED
  BY <1>1, <1>2, <1>3, <1>4, <1>5

LEMMA LoseStep ==
  ASSUME IInv, NEW p \in Payments, LoseCallback(p)
  PROVE  IInv'
BY DEF IInv, LoseCallback, TypeOK, LifeOK, AnswersOK, GrantedOncePaid,
       PatientWithPrompt, LockOK, OneOpenPrompt, Recent

LEMMA StutterStep ==
  ASSUME IInv, UNCHANGED vars
  PROVE  IInv'
BY DEF IInv, vars, TypeOK, LifeOK, AnswersOK, GrantedOncePaid,
       PatientWithPrompt, LockOK, OneOpenPrompt, Recent

-----------------------------------------------------------------------------
(* The theorems. *)

\* The invariant holds at the start, every step keeps it, and so it always
\* holds.
THEOREM Inductive == Spec => []IInv
<1>1. Init => IInv
  <2> SUFFICES ASSUME Init PROVE IInv
    OBVIOUS
  <2> USE StkAssumption DEF Init, NoRow
  <2>1. TypeOK
    BY DEF TypeOK, PaymentRow, Ages, Held
  <2>2. LifeOK /\ AnswersOK /\ GrantedOncePaid /\ PatientWithPrompt
    BY DEF LifeOK, AnswersOK, GrantedOncePaid, PatientWithPrompt, Answers
  <2>3. LockOK /\ OneOpenPrompt
    BY DEF LockOK, OneOpenPrompt, Held
  <2>4. QED
    BY <2>1, <2>2, <2>3 DEF IInv
<1>2. IInv /\ [Next]_vars => IInv'
  BY TapStep, HandleStep, CustomerStep, CallbackStep, LoseStep, TickStep, AskStep,
     AnswerStep, CrashStep, StutterStep DEF Next, Poll, Round
<1>3. QED
  BY <1>1, <1>2, PTL DEF Spec

\* The payments table, the handlers and Safaricom's prompts keep their types.
THEOREM TypeCorrect == Spec => []TypeOK
BY Inductive, PTL DEF IInv

\* For any number of payments and repeated or overlapping callbacks, polls and
\* rounds, what a payment buys is given out exactly once, and only against
\* money Safaricom took.
THEOREM GrantedOnce == Spec => []GrantedOncePaid
BY Inductive, PTL DEF IInv

\* No payment with a checkout id fails in its first 150 seconds unless the
\* customer declined.
THEOREM Patient == Spec => []PatientWithPrompt
BY Inductive, PTL DEF IInv

\* The lock and the check for an open prompt leave one open prompt per phone,
\* for any number of taps of the app, in spite of crashes and lost replies.
THEOREM OnePrompt == Spec => []OneOpenPrompt
BY Inductive, PTL DEF IInv

\* No step undoes a completed payment or its receipt.
THEOREM Completed == Spec => CompletedStays
<1> DEFINE Stays ==
      \A p \in Payments :
        row[p].status = "completed" =>
          /\ row'[p].status = "completed"
          /\ row'[p].amount = row[p].amount
          /\ row[p].receipt = "mpesa" => row'[p].receipt = "mpesa"
<1>1. ASSUME IInv, [Next]_vars
      PROVE  Stays
  <2>1. ASSUME NEW p \in Payments, Outcome(p)
        PROVE  Stays
    BY <2>1, <1>1 DEF Outcome, IInv
  <2>2. ASSUME NEW p \in Payments, Handle(p)
        PROVE  Stays
    <3>1. row[p].status # "completed" /\ \A q \in Payments : row[q] \in PaymentRow
      BY <2>2, <1>1 DEF Handle, Create, Store, MarkFailed, Push, PushAccepted,
         PushRefused, PushUnanswered, IInv, LifeOK, TypeOK
    <3>2. \A q \in Payments \ {p} : row'[q] = row[q]
      BY <2>2, <1>1 DEF Handle, Create, Store, MarkFailed, Push, PushAccepted,
         PushRefused, PushUnanswered, IInv, TypeOK
    <3>3. QED
      BY <3>1, <3>2
  <2>3. ASSUME NEW p \in Payments, Callback(p)
        PROVE  Stays
    BY <1>1, <2>1, <2>3, OutcomeGiveUp, OutcomeUnderpay, OutcomeSucceed, OutcomeKeep
       DEF Callback
  <2>4. ASSUME NEW p \in Payments, NEW a \in Askers, Answer(p, a)
        PROVE  Stays
    <3>1. row[p].checkout
      BY <1>1, <2>4 DEF Answer, IInv, AnswersOK
    <3>2. Succeed(p, "query") \/ GiveUp(p) \/ Keep
      BY <1>1, <2>4 DEF Answer, IInv, TypeOK, Answers
    <3>3. QED
      BY <1>1, <2>1, <3>1, <3>2, OutcomeGiveUp, OutcomeSucceed, OutcomeKeep
  <2>5. ASSUME row' = row
        PROVE  Stays
    BY <2>5
  <2>6. QED
    BY <1>1, <2>2, <2>3, <2>4, <2>5
       DEF Next, TapApp, TapPortal, TapTopUp, Tap, Customer, LoseCallback, Tick,
           Poll, Round, Ask, Crash, vars
<1>2. QED
  BY <1>1, Inductive, PTL DEF Spec, CompletedStays

-----------------------------------------------------------------------------
(* StkPayment implements ReceiptBook. *)

\* What the book sees of a row and of how often it was given out.
LEMMA Fates ==
  ASSUME NEW r \in PaymentRow, NEW n \in Nat
  PROVE  /\ r.status # "completed" /\ n = 0 => FateOf(r, n) = "open"
         /\ r.status = "completed" /\ r.amount = "less" /\ r.receipt = "mpesa" /\ n = 0
              => FateOf(r, n) = "kept"
         /\ r.status = "completed" /\ r.amount = "full" /\ n = 1 => FateOf(r, n) = "given"
BY DEF FateOf, PaymentRow, Underpaid

\* In the invariant a row's status and amount say it.
LEMMA RowFate ==
  ASSUME IInv, NEW p \in Payments
  PROVE  Fate[p] = IF row[p].status # "completed" THEN "open"
                   ELSE IF row[p].amount = "full" THEN "given" ELSE "kept"
<1>1. row[p] \in PaymentRow /\ granted[p] \in Nat
  BY DEF IInv, TypeOK
<1>2. /\ granted[p] = IF row[p].status = "completed" /\ row[p].amount = "full"
                        THEN 1 ELSE 0
      /\ row[p].amount = "less" => row[p].receipt = "mpesa"
      /\ row[p].amount \in {"full", "less"}
  BY <1>1 DEF IInv, GrantedOncePaid, LifeOK, PaymentRow
<1>3. QED
  BY <1>1, <1>2, Fates DEF Fate

\* The book sees nothing of a step that leaves prompts, rows and counts alone.
LEMMA BookStutters ==
  ASSUME UNCHANGED <<row, granted, prompt>>
  PROVE  UNCHANGED Receipt!vars
BY DEF Receipt!vars, Vouched, Fate, Named

\* Giving out a payment, keeping an underpaid one, naming a completed one by
\* M-Pesa's receipt: what a callback's or an answer's handler leaves behind is
\* one operation of the book, or none.
LEMMA OutcomeBook ==
  ASSUME IInv, NEW p \in Payments, Outcome(p), UNCHANGED prompt,
         row'[p].status = "completed" /\ row[p].status # "completed"
           => prompt[p] \in {"paid", "short"}
  PROVE  Receipt!Next \/ UNCHANGED Receipt!vars
<1>1. /\ row \in [Payments -> PaymentRow] /\ row' \in [Payments -> PaymentRow]
      /\ granted'[p] \in Nat
      /\ \A q \in Payments \ {p} : row'[q] = row[q] /\ granted'[q] = granted[q]
  BY DEF IInv, TypeOK, Outcome
<1>2. UNCHANGED Vouched /\ (p \in Vouched <=> prompt[p] \in {"paid", "short"})
  BY DEF Vouched
<1>3. Fate' = [Fate EXCEPT ![p] = FateOf(row'[p], granted'[p])]
  BY <1>1 DEF Fate
<1>4. /\ row'[p].receipt = "mpesa" => Named' = Named \cup {p}
      /\ row'[p].receipt = row[p].receipt => Named' = Named
      /\ row'[p].receipt # "mpesa" /\ row[p].receipt # "mpesa" => Named' = Named
      /\ p \in Named <=> row[p].receipt = "mpesa"
  BY <1>1 DEF Named
<1>5. CASE row[p].status = "completed"
  <2>1. granted'[p] = granted[p] /\ Fate[p] = FateOf(row[p], granted[p])
    BY <1>5 DEF Outcome, Fate
  <2>2. row'[p] \in PaymentRow /\ row[p] \in PaymentRow /\ granted[p] \in Nat
    BY <1>1, <2>1
  <2>3. FateOf(row'[p], granted'[p]) = Fate[p]
    <3>1. /\ row'[p].status = "completed" /\ row'[p].amount = row[p].amount
          /\ row'[p].amount = "less" => row'[p].receipt = "mpesa"
      BY <1>5 DEF Outcome
    <3>2. granted[p] = IF row[p].amount = "full" THEN 1 ELSE 0
      BY <1>5 DEF IInv, GrantedOncePaid
    <3>3. row[p].amount \in {"full", "less"}
      BY <2>2 DEF PaymentRow
    <3>4. QED
      BY <1>5, <2>1, <2>2, <3>1, <3>2, <3>3, RowFate, Fates
  <2>4. Fate' = Fate
    BY <1>3, <2>3 DEF Fate
  <2>5. CASE row'[p].receipt = "mpesa" /\ row[p].receipt # "mpesa"
    <3>1. Receipt!Name(p)
      BY <1>2, <1>4, <2>4, <2>5 DEF Receipt!Name
    <3>2. QED
      BY <3>1 DEF Receipt!Next
  <2>6. CASE ~(row'[p].receipt = "mpesa" /\ row[p].receipt # "mpesa")
    <3>1. Named' = Named
      BY <1>4, <1>5, <2>6 DEF Outcome
    <3>2. QED
      BY <1>2, <2>4, <3>1 DEF Receipt!vars
  <2>7. QED
    BY <2>5, <2>6
<1>6. CASE row[p].status # "completed" /\ row'[p].status = "completed"
  <2>1. Fate[p] = "open" /\ row[p].receipt # "mpesa" /\ p \in Vouched
    BY <1>2, <1>6, RowFate DEF IInv, LifeOK
  <2>2. /\ granted'[p] = IF row'[p].amount = "full" THEN 1 ELSE 0
        /\ row'[p].amount = "less" => row'[p].receipt = "mpesa"
    BY <1>6 DEF Outcome
  <2>3. row'[p] \in PaymentRow /\ row'[p].amount \in {"full", "less"}
    BY <1>1 DEF PaymentRow
  <2>4. CASE row'[p].amount = "full"
    <3>1. Fate' = [Fate EXCEPT ![p] = "given"]
      BY <1>1, <1>3, <1>6, <2>2, <2>3, <2>4, Fates
    <3>2. Named' \in {Named, Named \cup {p}}
      BY <1>4, <2>1
    <3>3. Receipt!Give(p)
      BY <1>2, <2>1, <3>1, <3>2 DEF Receipt!Give, Receipt!Decide
    <3>4. QED
      BY <3>3 DEF Receipt!Next
  <2>5. CASE row'[p].amount = "less"
    <3>1. Fate' = [Fate EXCEPT ![p] = "kept"]
      BY <1>1, <1>3, <1>6, <2>2, <2>3, <2>5, Fates
    <3>2. Receipt!Keep(p)
      BY <1>2, <1>4, <2>1, <2>2, <2>5, <3>1 DEF Receipt!Keep, Receipt!Decide
    <3>3. QED
      BY <3>2 DEF Receipt!Next
  <2>6. QED
    BY <2>3, <2>4, <2>5
<1>7. CASE row[p].status # "completed" /\ row'[p].status # "completed"
  <2>1. granted'[p] = granted[p] /\ granted[p] = 0
    BY <1>7 DEF Outcome, IInv, GrantedOncePaid
  <2>2. FateOf(row'[p], granted'[p]) = "open" /\ Fate[p] = "open"
    BY <1>1, <1>7, <2>1, RowFate, Fates
  <2>3. Fate' = Fate
    BY <1>3, <2>2 DEF Fate
  <2>4. Named' = Named
    BY <1>4, <1>7 DEF Outcome
  <2>5. QED
    BY <1>2, <2>3, <2>4 DEF Receipt!vars
<1>8. QED
  BY <1>5, <1>6, <1>7

\* The steps of a tap's handler before an outcome.
LEMMA HandleBook ==
  ASSUME IInv, NEW p \in Payments, Handle(p)
  PROVE  UNCHANGED Receipt!vars
<1>1. /\ row[p].status # "completed" /\ row'[p].status # "completed"
      /\ row'[p].receipt = row[p].receipt /\ row'[p] \in PaymentRow
      /\ \A q \in Payments \ {p} : row'[q] = row[q]
  <2>1. row \in [Payments -> PaymentRow]
    BY DEF IInv, TypeOK
  <2>2. row[p].status # "completed"
    BY DEF Handle, Create, Store, MarkFailed, Push, PushAccepted, PushRefused,
       PushUnanswered, IInv, LifeOK
  <2>3. PICK r \in {row[p], [row[p] EXCEPT !.status = "pending"],
                    [row[p] EXCEPT !.checkout = TRUE], [row[p] EXCEPT !.status = "failed"]} :
          row' = [row EXCEPT ![p] = r]
    BY <2>1 DEF Handle, Create, Store, MarkFailed, Push, PushAccepted, PushRefused,
       PushUnanswered
  <2>4. row[p] \in PaymentRow /\ {"pending", "failed"} \subseteq Statuses
    BY <2>1 DEF Statuses
  <2>5. r \in PaymentRow
    <3>1. /\ \A status \in Statuses : [row[p] EXCEPT !.status = status] \in PaymentRow
          /\ [row[p] EXCEPT !.checkout = TRUE] \in PaymentRow
      BY <2>4, RowUpdates
    <3>2. QED
      BY <2>3, <2>4, <3>1
  <2>6. r.status # "completed" /\ r.receipt = row[p].receipt
    BY <2>2, <2>3, <2>4 DEF PaymentRow
  <2>7. QED
    BY <2>1, <2>2, <2>3, <2>5, <2>6
<1>2. granted' = granted /\ granted[p] = 0
  BY <1>1 DEF Handle, Create, Store, MarkFailed, Push, PushAccepted, PushRefused,
     PushUnanswered, IInv, GrantedOncePaid
<1>3. Vouched' = Vouched
  <2>1. \/ prompt[p] \notin {"paid", "short"} /\ prompt'[p] \notin {"paid", "short"}
        \/ prompt' = prompt
    BY DEF Handle, Create, Store, MarkFailed, Push, PushAccepted, PushRefused,
       PushUnanswered, IInv, LifeOK, TypeOK
  <2>2. \A q \in Payments \ {p} : prompt'[q] = prompt[q]
    BY DEF Handle, Create, Store, MarkFailed, Push, PushAccepted, PushRefused,
       PushUnanswered, IInv, TypeOK
  <2>3. QED
    BY <2>1, <2>2 DEF Vouched
<1>4. Named' = Named
  BY <1>1 DEF Named
<1>5. Fate' = Fate
  <2>1. FateOf(row'[p], granted'[p]) = "open" /\ Fate[p] = "open"
    BY <1>1, <1>2, RowFate, Fates
  <2>2. FateOf(row[p], granted[p]) = "open"
    BY <2>1 DEF Fate
  <2>3. \A q \in Payments : FateOf(row'[q], granted'[q]) = FateOf(row[q], granted[q])
    BY <1>1, <1>2, <2>1, <2>2
  <2>4. QED
    BY <2>3 DEF Fate
<1>6. QED
  BY <1>3, <1>4, <1>5 DEF Receipt!vars

\* The customer's answer to the prompt brings the money, or does not.
LEMMA CustomerBook ==
  ASSUME IInv, NEW p \in Payments, Customer(p)
  PROVE  Receipt!Next \/ UNCHANGED Receipt!vars
<1>1. Fate' = Fate /\ Named' = Named
  BY DEF Customer, Fate, Named
<1>2. p \notin Vouched /\ Vouched' \in {Vouched, Vouched \cup {p}}
  BY DEF Customer, Vouched, IInv, TypeOK
<1>3. CASE Vouched' = Vouched
  BY <1>1, <1>3 DEF Receipt!vars
<1>4. CASE Vouched' = Vouched \cup {p}
  BY <1>1, <1>2, <1>4 DEF Receipt!Next, Receipt!Vouch
<1>5. QED
  BY <1>2, <1>3, <1>4

\* Every step of StkPayment is one of the book, or none.
LEMMA StepBook ==
  ASSUME IInv, [Next]_vars
  PROVE  [Receipt!Next]_(Receipt!vars)
<1> SUFFICES Receipt!Next \/ UNCHANGED Receipt!vars
  OBVIOUS
<1>1. ASSUME NEW p \in Payments, Callback(p)
      PROVE  Receipt!Next \/ UNCHANGED Receipt!vars
  <2>1. UNCHANGED prompt
    BY <1>1 DEF Callback
  <2>2. CASE Keep
    BY <2>1, <2>2, BookStutters DEF Keep
  <2>3. CASE row[p].checkout /\ prompt[p] = "declined" /\ GiveUp(p)
    BY <2>1, <2>3, OutcomeGiveUp, OutcomeBook
  <2>4. CASE row[p].checkout /\ prompt[p] = "short" /\ Underpay(p)
    BY <2>1, <2>4, OutcomeUnderpay, OutcomeBook
  <2>5. CASE row[p].checkout /\ prompt[p] = "paid" /\ Succeed(p, "mpesa")
    BY <2>1, <2>5, OutcomeSucceed, OutcomeBook
  <2>6. QED
    BY <1>1, <2>2, <2>3, <2>4, <2>5 DEF Callback
<1>2. ASSUME NEW p \in Payments, NEW a \in Askers, Answer(p, a)
      PROVE  Receipt!Next \/ UNCHANGED Receipt!vars
  <2>1. UNCHANGED prompt /\ row[p].checkout
    BY <1>2 DEF Answer, IInv, AnswersOK
  <2>2. \/ Succeed(p, "query") /\ prompt[p] \in {"paid", "short"}
        \/ GiveUp(p) \/ Keep
    BY <1>2 DEF Answer, IInv, TypeOK, AnswersOK, Answers
  <2>3. CASE Keep
    BY <2>1, <2>3, BookStutters DEF Keep
  <2>4. CASE GiveUp(p)
    BY <2>1, <2>4, OutcomeGiveUp, OutcomeBook
  <2>5. CASE Succeed(p, "query") /\ prompt[p] \in {"paid", "short"}
    BY <2>1, <2>5, OutcomeSucceed, OutcomeBook
  <2>6. QED
    BY <2>2, <2>3, <2>4, <2>5
<1>3. CASE UNCHANGED <<row, granted, prompt>>
  BY <1>3, BookStutters
<1>4. QED
  BY <1>1, <1>2, <1>3, HandleBook, CustomerBook
     DEF Next, TapApp, TapPortal, TapTopUp, Tap, LoseCallback, Tick, Poll, Round, Ask,
         Crash, vars

\* However callbacks, polls, rounds of the reconciler, taps and crashes overlap,
\* each payment is given out or kept once, against the customer's money, and for
\* good: the prompts of any number of taps implement the book of receipts.
THEOREM ImplementsBook == Spec => StkReceiptSpec
<1>1. Init => Receipt!Init
  <2> SUFFICES ASSUME Init PROVE Receipt!Init
    OBVIOUS
  <2>1. NoRow \in PaymentRow /\ NoRow.status = "none" /\ NoRow.receipt = "none"
    BY DEF NoRow, PaymentRow
  <2>2. Fate = [p \in Payments |-> "open"]
    BY <2>1, Fates DEF Fate, Init
  <2>3. Vouched \subseteq Payments /\ Named \subseteq Payments
    BY DEF Vouched, Named
  <2>4. QED
    BY <2>2, <2>3 DEF Receipt!Init
<1>2. IInv /\ [Next]_vars => [Receipt!Next]_(Receipt!vars)
  BY StepBook
<1>3. QED
  BY <1>1, <1>2, Inductive, PTL DEF Spec, StkReceiptSpec, Receipt!Spec
=============================================================================
