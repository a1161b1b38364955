----------------------------- MODULE StkPayment -----------------------------
(***************************************************************************)
(* M-Pesa prompts (STK push), from the customer's tap to the final status  *)
(* of the payment: handlers/mpesa.go, handlers/hotspot.go, services/       *)
(* mpesa.go and services/money_jobs.go.  A tap of the app, of the captive  *)
(* portal or of the top-up page makes a payment row, asks Safaricom for a  *)
(* prompt and stores the checkout id of the reply.  The outcome comes by   *)
(* callback, by the portal's poll or by the reconciler; each of the three  *)
(* changes the row by a conditional UPDATE.  What a completed payment buys *)
(* is only counted here, and what a tap writes to the customer's row or a  *)
(* voucher is left to the modules about those.  Safaricom and the          *)
(* customer's phone are external.  A payment stands for the tap that may   *)
(* make it.                                                                *)
(***************************************************************************)
EXTENDS Integers

CONSTANTS
  Payments,
  PhoneOf,   \* the phone each tap names
  DeviceOf,  \* its device and zone, None when it names none
  EntryOf,   \* the handler it reaches
  Askers,    \* who asks Safaricom for the status
  Scenarios, \* sets of what may go wrong outside the handlers
  None

Entries == {"app", "portal", "topup"}
Troubles == {"rivals",    \* taps of one phone, one soon after another
             "early",     \* callbacks before the checkout id is stored
             "lost",      \* callbacks that never come
             "noamount",  \* callbacks without the amount
             "noreply",   \* prompts whose push request got no reply
             "outage",    \* no reconciler while a payment is 30 to 35 min old
             "crash"}

ASSUME StkAssumption ==
  /\ EntryOf \in [Payments -> Entries]
  /\ Askers \subseteq {"poll", "job"}
  /\ Scenarios \subseteq SUBSET Troubles
  /\ None \notin {"timeup", "unresolved", "paid", "refused"}

VARIABLES
  req,      \* how far the handler of each tap is
  row,      \* the payments table
  age,      \* how old each row is, by the limits the code compares with
  granted,  \* how often what the payment buys was given out
  query,    \* answers to status queries, on their way to the row
  prompt,   \* Safaricom: the prompt and what became of it
  notices,  \* Safaricom: callbacks it has yet to deliver for the last time
  trouble   \* what may go wrong in this behaviour

vars == <<req, row, age, granted, query, prompt, notices, trouble>>

-----------------------------------------------------------------------------
Statuses == {"pending", "completed", "failed"}

\* checkout: mpesa_transaction_id is stored.  amount: the package's price
\* ("full"), or what was paid instead ("less", no package left).  receipt:
\* the QRY_ placeholder of a status query or M-Pesa's own.
NoRow == [status |-> "none", checkout |-> FALSE, amount |-> "full",
          receipt |-> "none"]

PaymentRow == [status : Statuses \cup {"none"}, checkout : BOOLEAN,
               amount : {"full", "less"}, receipt : {"none", "query", "mpesa"}]

\* Ages: under 3 s (0), 90 s (1), 2 min (2), 150 s (3), 30 min (4) and
\* 35 min (5), and older (6).
Ages        == 0..6
Recent(p)   == age[p] <= 1
MayQuery(p) == age[p] >= 1

\* Mutant: no round after 30 minutes.
JobWindowShort == 3..4
JobWindow == 3..5

\* Mutant: an unresolved payment is given up at once.
GivenUpEarly(p) == age[p] >= 1
GivenUp(p) == age[p] >= 4

Held == {"clear", "sending", "accepted", "refused"}

\* Mutant: no LockSTKPhone.
NoLock(p) == TRUE
\* LockSTKPhone: no other tap of the phone is between its check and its end.
Lockable(p) ==
  \A q \in Payments : /\ EntryOf[q] = "app"
                      /\ PhoneOf[q] = PhoneOf[p]
                      => req[q] \notin Held

\* RecentPendingSTK: a prompt of this phone or device is still open.
RecentPending(p) ==
  \E q \in Payments :
    /\ row[q].status = "pending" /\ row[q].checkout /\ Recent(q)
    /\ \/ PhoneOf[q] = PhoneOf[p]
       \/ DeviceOf[p] # None /\ DeviceOf[q] = DeviceOf[p]

\* Mutant: only a pending payment is completed.
CompletablePending(p) == row[p].status = "pending"
\* Mutant: any payment is completed.
CompletableAgain(p) == row[p].status # "none"
Completable(p) == row[p].status # "completed"

Underpaid(r) ==
  [r EXCEPT !.status = "completed", !.amount = "less", !.receipt = "mpesa"]

\* Mutant: a failure is written whatever the status.
FailableAlways(p) == row[p].status # "none"
\* ProcessPaymentFailure's condition.  Its second half, for rows failed as
\* "still under processing", concerns a reason no code writes any more.
Failable(p) == row[p].status = "pending"

-----------------------------------------------------------------------------
Init ==
  /\ req = [p \in Payments |-> "none"]
  /\ row = [p \in Payments |-> NoRow]
  /\ age = [p \in Payments |-> 0]
  /\ granted = [p \in Payments |-> 0]
  /\ query = [p \in Payments |-> [a \in Askers |-> None]]
  /\ prompt = [p \in Payments |-> "none"]
  /\ notices = {}
  /\ trouble \in Scenarios

\* Bounds: without rivals a behaviour has one tap and the payment's whole life,
\* with them the taps of one phone and two and a half minutes of each.
Room(p) == \A q \in Payments :
  req[q] # "none" => "rivals" \in trouble /\ PhoneOf[q] = PhoneOf[p]
LastAge == IF "rivals" \in trouble THEN 3 ELSE 6

Tap(p, entry, next) ==
  /\ req[p] = "none" /\ EntryOf[p] = entry
  /\ Room(p)
  /\ req' = [req EXCEPT ![p] = next]
  /\ UNCHANGED <<row, age, granted, query, prompt, notices, trouble>>

\* MpesaStkPush takes the phone's lock and looks for an open prompt, which it
\* reuses; HotspotPay and CustomerTopUp do neither.
TapApp(p) == /\ Lockable(p)
             /\ Tap(p, "app", IF RecentPending(p) THEN "done" ELSE "clear")

TapPortal(p) == Tap(p, "portal", "clear")
TapTopUp(p)  == Tap(p, "topup", "clear")

Create(p) ==
  /\ req[p] = "clear"
  /\ row' = [row EXCEPT ![p].status = "pending"]
  /\ req' = [req EXCEPT ![p] = "sending"]
  /\ UNCHANGED <<age, granted, query, prompt, notices, trouble>>

\* InitiateSTKPush: Safaricom accepts the request and prompts the phone, or
\* refuses it, or prompts although no reply comes within the timeout.
Push(p, reply, shown) ==
  /\ req[p] = "sending"
  /\ req' = [req EXCEPT ![p] = reply]
  /\ prompt' = [prompt EXCEPT ![p] = shown]
  /\ UNCHANGED <<row, age, granted, query, notices, trouble>>

PushAccepted(p)   == Push(p, "accepted", "shown")
PushRefused(p)    == Push(p, "refused", "none")
PushUnanswered(p) == "noreply" \in trouble /\ Push(p, "refused", "shown")

\* The handler stores the checkout id.
Store(p) ==
  /\ req[p] = "accepted"
  /\ row' = [row EXCEPT ![p].checkout = TRUE]
  /\ req' = [req EXCEPT ![p] = "done"]
  /\ UNCHANGED <<age, granted, query, prompt, notices, trouble>>

\* The handler gives the payment up, by id and whatever its status.
MarkFailed(p) ==
  /\ req[p] = "refused"
  /\ row' = [row EXCEPT ![p].status = "failed"]
  /\ req' = [req EXCEPT ![p] = "done"]
  /\ UNCHANGED <<age, granted, query, prompt, notices, trouble>>

-----------------------------------------------------------------------------
\* ProcessPaymentSuccess up to its first UPDATE; a later success with M-Pesa's
\* receipt replaces the placeholder (upgradePlaceholderReceipt).
Succeed(p, receipt) ==
  IF Completable(p)
    THEN /\ row' = [row EXCEPT ![p].status = "completed", ![p].receipt = receipt]
         /\ granted' = [granted EXCEPT ![p] = @ + 1]
    ELSE /\ row' = IF row[p].receipt = "query" /\ receipt = "mpesa"
                     THEN [row EXCEPT ![p].receipt = "mpesa"] ELSE row
         /\ UNCHANGED granted

\* ProcessUnderpayment: completed for what was paid, without the package.
Underpay(p) ==
  /\ row' = IF Completable(p) THEN [row EXCEPT ![p] = Underpaid(@)] ELSE row
  /\ UNCHANGED granted

\* ProcessPaymentFailure.
GiveUp(p) ==
  /\ row' = IF Failable(p) THEN [row EXCEPT ![p].status = "failed"] ELSE row
  /\ UNCHANGED granted

Keep == UNCHANGED <<row, granted>>

\* HandleCallback: without a row for the checkout id it does nothing.
Callback(p) ==
  /\ p \in notices
  /\ ~row[p].checkout => "early" \in trouble
  /\ IF ~row[p].checkout THEN Keep
     ELSE \/ prompt[p] = "declined" /\ GiveUp(p)
          \/ prompt[p] = "short" /\ Underpay(p)
          \/ prompt[p] = "paid" /\ Succeed(p, "mpesa")
          \/ prompt[p] # "declined" /\ "noamount" \in trouble /\ Keep
  /\ \/ UNCHANGED notices
     \/ notices' = notices \ {p}
  /\ UNCHANGED <<req, age, query, prompt, trouble>>

LoseCallback(p) ==
  /\ "lost" \in trouble /\ p \in notices
  /\ notices' = notices \ {p}
  /\ UNCHANGED <<req, row, age, granted, query, prompt, trouble>>

\* What Safaricom may answer to a query by asker a.  "timeup" stands for no
\* final answer in a round of the reconciler that finds the payment 30
\* minutes old; other missing answers change nothing and are left out.
AnswersTo(p, a) ==
  {"unresolved"}
    \cup (IF prompt[p] \in {"paid", "short"} THEN {"paid"} ELSE {})
    \cup (IF prompt[p] = "declined" THEN {"refused"} ELSE {})
    \cup (IF a = "job" /\ age[p] = 5 THEN {"timeup"} ELSE {})

Answers == {"unresolved", "paid", "refused", "timeup"}

\* QueryAndUpdateSTKStatus up to Safaricom's answer.
Ask(p, a) ==
  /\ row[p].status = "pending" /\ row[p].checkout
  /\ query[p][a] = None
  /\ \E answer \in AnswersTo(p, a) : query' = [query EXCEPT ![p][a] = answer]
  /\ UNCHANGED <<req, row, age, granted, prompt, notices, trouble>>

\* HotspotStatus, polled by the portal that waits.
Poll(p) == "poll" \in Askers /\ MayQuery(p) /\ Ask(p, "poll")

\* ReconcilePendingSTK, for one payment of its round.
Round(p) == "job" \in Askers /\ age[p] \in JobWindow /\ Ask(p, "job")

\* The rest of QueryAndUpdateSTKStatus and of the round.
Answer(p, a) ==
  /\ query[p][a] # None
  /\ CASE query[p][a] = "paid" -> Succeed(p, "query")
       [] query[p][a] \in {"refused", "timeup"} -> GiveUp(p)
       [] OTHER -> IF GivenUp(p) THEN GiveUp(p) ELSE Keep
  /\ query' = [query EXCEPT ![p][a] = None]
  /\ UNCHANGED <<req, age, prompt, notices, trouble>>

-----------------------------------------------------------------------------
\* The customer enters the PIN, or declines or lets the prompt expire;
\* "short" is a transaction for less than was asked.
Customer(p) ==
  /\ prompt[p] = "shown"
  /\ \E end \in {"paid", "short", "declined"} : prompt' = [prompt EXCEPT ![p] = end]
  /\ notices' = notices \cup {p}
  /\ UNCHANGED <<req, row, age, granted, query, trouble>>

\* Time passes.  A push request ends well within 90 s (HTTP timeouts of 10 s),
\* and the reconciler's minute falls into the payment's last five minutes
\* unless the server is down.
Tick(p) ==
  /\ row[p].status # "none" /\ age[p] < LastAge
  /\ age[p] >= 1 => req[p] = "done"
  /\ age[p] = 5 /\ row[p].status = "pending" /\ row[p].checkout
       => "outage" \in trouble
  /\ age' = [age EXCEPT ![p] = @ + 1]
  /\ UNCHANGED <<req, row, granted, query, prompt, notices, trouble>>

\* The server dies: handlers end where they are, locks and answers are gone.
Crash ==
  /\ "crash" \in trouble
  /\ req' = [p \in Payments |-> IF req[p] \in Held THEN "done" ELSE req[p]]
  /\ query' = [p \in Payments |-> [a \in Askers |-> None]]
  /\ UNCHANGED <<row, age, granted, prompt, notices, trouble>>

Handle(p) == \/ Create(p) \/ Store(p) \/ MarkFailed(p)
             \/ PushAccepted(p) \/ PushRefused(p) \/ PushUnanswered(p)

Next ==
  \/ \E p \in Payments :
       \/ TapApp(p) \/ TapPortal(p) \/ TapTopUp(p) \/ Handle(p) \/ Customer(p) \/ Callback(p) \/ LoseCallback(p)
       \/ Tick(p) \/ Poll(p) \/ Round(p)
       \/ \E a \in Askers : Answer(p, a)
  \/ Crash

Spec == Init /\ [][Next]_vars

\* Handlers and the job's rounds run on, time passes, and a callback is
\* delivered once there is a checkout id, unless it was lost before.
FairSpec ==
  /\ Spec
  /\ \A p \in Payments :
       /\ WF_vars(Handle(p)) /\ WF_vars(Tick(p))
       /\ WF_vars(row[p].checkout /\ Callback(p))
       /\ \A a \in Askers : WF_vars(Answer(p, a))
       /\ WF_vars(Round(p))

-----------------------------------------------------------------------------
TypeOK ==
  /\ req \in [Payments -> Held \cup {"none", "done"}]
  /\ row \in [Payments -> PaymentRow]
  /\ age \in [Payments -> Ages]
  /\ granted \in [Payments -> Nat]
  /\ query \in [Payments -> [Askers -> Answers \cup {None}]]
  /\ prompt \in [Payments -> {"none", "shown", "paid", "short", "declined"}]
  /\ notices \subseteq Payments
  /\ trouble \in SUBSET Troubles

\* A completed payment is one Safaricom took money for, and its package or
\* credit was given out exactly once, however callbacks, polls and rounds of
\* the reconciler repeat and overlap; any other payment gave out nothing.
GrantedOncePaid ==
  \A p \in Payments :
    /\ row[p].status = "completed" => prompt[p] \in {"paid", "short"}
    /\ granted[p] = IF row[p].status = "completed" /\ row[p].amount = "full"
                      THEN 1 ELSE 0

\* Safaricom's early "unresolved" answers (mpesa.go:1242-1251) never fail a
\* payment: in its first 150 s one with a checkout id fails only when the
\* customer declined.
PatientWithPrompt ==
  \A p \in Payments :
    row[p].status = "failed" /\ row[p].checkout /\ age[p] < 4
      => prompt[p] = "declined"

\* Two taps of the app on one phone never leave two prompts open that both
\* have a checkout id and were both started in the last 90 s.
OneOpenPrompt ==
  \A p, q \in Payments :
    /\ p # q /\ EntryOf[p] = "app" /\ EntryOf[q] = "app"
    /\ PhoneOf[p] = PhoneOf[q]
    /\ \A i \in {p, q} : row[i].status = "pending" /\ row[i].checkout
    => ~(Recent(p) /\ Recent(q))

\* A completed payment stays completed for the amount it was completed with,
\* and M-Pesa's own receipt is never replaced: neither the handler's write by
\* id nor an answer that is older than the completion undoes it.
CompletedStays ==
  [][\A p \in Payments :
       row[p].status = "completed" =>
         /\ row'[p].status = "completed"
         /\ row'[p].amount = row[p].amount
         /\ row[p].receipt = "mpesa" => row'[p].receipt = "mpesa"]_vars

\* What the customer pays completes the payment if its callback comes whole,
\* also when an unresolved query failed the payment before, and across crashes.
PaidCompletes ==
  \A p \in Payments :
    /\ prompt[p] \in {"paid", "short"} /\ row[p].checkout
    /\ trouble \cap {"early", "lost", "noamount"} = {}
    ~> row[p].status = "completed"

\* While the server runs, the reconciler ends every payment that has a
\* checkout id, although callbacks are lost, early or without the amount and
\* Safaricom never answers for certain.
PendingEnds ==
  \A p \in Payments :
    /\ row[p].status = "pending" /\ row[p].checkout
    /\ trouble \cap {"outage", "crash", "rivals"} = {}
    ~> row[p].status # "pending"
=============================================================================
