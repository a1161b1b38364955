-------------------------------- MODULE C2B ---------------------------------
(***************************************************************************)
(* Payments to a paybill (C2B): handlers/mpesa.go, handlers/c2b_match.go,  *)
(* services/c2b_verify.go, handlers/platform_c2b.go and the self-claim of  *)
(* handlers/payments.go.  Safaricom confirms a payment once or more; the   *)
(* ledger c2b_transactions takes each receipt (TransID) once.  What cannot *)
(* be proven or placed waits in unmatched_c2b_payments for staff or for    *)
(* the customer who knows the code.  A prompt (STK) paid on the same       *)
(* paybill is confirmed as well, with the receipt its callback brings.     *)
(* Safaricom, staff and customers are external.                            *)
(***************************************************************************)
EXTENDS Integers, Sequences, FiniteSets

CONSTANTS
  Receipts,
  Sound,      \* receipts whose confirmation tells Safaricom's own record
  Answers,    \* what Safaricom may answer about each receipt
  Customers,
  Registries, \* which of them may be registered at first
  IspOf,      \* the ISP of each customer
  PaidTo,     \* the ISP whose shortcode was paid, or Shared
  Finds,      \* the customers each lookup of matchC2BCustomer would find
  Payer,      \* the rows autoCreateC2BCustomer may make for its payer
  Before,     \* what is known of a receipt when the ledger is introduced
  OneZone,    \* ISPs with a single zone
  Handlers,   \* request goroutines
  Shared, Nobody

Doubts == {"code", "receipt", "status", "amount", "noamount", "shortcode",
           "payer", "noreceipt", "nopayer"}

Histories == {"new", "settled", "queued", "prompt"}

ASSUME C2BAssumption ==
  /\ Sound \subseteq Receipts /\ OneZone \subseteq {IspOf[c] : c \in Customers}
  /\ Answers \in [Receipts -> SUBSET SUBSET Doubts]
  /\ Finds \in [Receipts -> Seq(SUBSET Customers)]
  /\ Registries \subseteq SUBSET Customers
  /\ Payer \in [Receipts -> SUBSET Customers]
  /\ Before \in [Receipts -> SUBSET Histories]
  /\ \A r \in Receipts : "settled" \in Before[r] => r \in Sound
  /\ Shared \notin {IspOf[c] : c \in Customers}
  /\ Nobody \notin Receipts \cup Customers

VARIABLES
  book,        \* c2b_transactions
  old,         \* rows of book not updated for ten minutes
  queue,       \* unmatched_c2b_payments
  paid,        \* receipts on a row of payments
  prompt,      \* the STK payment of a receipt
  credited,    \* how often a receipt was given out as a paybill payment
  registered,  \* customers
  asked,       \* receipts Safaricom was asked about
  task,        \* requests in progress
  stale,       \* what is left of the job's round
  died         \* receipts whose claim ended between its two writes

vars == <<book, old, queue, paid, prompt, credited, registered, asked,
          task, stale, died>>

-----------------------------------------------------------------------------
NoRow == [status |-> "none", verification |-> "unverified"]

ParkedRow == [status |-> "pending", verification |-> "unverified"]

VerifiedRow == [status |-> "pending", verification |-> "verified"]

Open == {"received", "verifying"}

Idle == [at |-> "idle", r |-> Nobody]

Stages == {"checked", "ask", "store", "park", "proven", "create", "resolve",
           "claim", "apply", "putback"}

\* A request; one about to credit also has the customer it found, or nobody.
Tasks == [at : Stages, r : Receipts] \cup {Idle}
         \cup [at : {"credit"}, r : Receipts, who : Customers \cup {Nobody}]

Go(h, stage, r) == task' = [task EXCEPT ![h] = [at |-> stage, r |-> r]]
GoCredit(h, r, c) ==
  task' = [task EXCEPT ![h] = [at |-> "credit", r |-> r, who |-> c]]
End(h)          == task' = [task EXCEPT ![h] = Idle]
At(h, stage)    == task[h].at = stage

\* Mutant: the queue is not looked at.
RecordedPaid(r) == r \in paid
Recorded(r) == r \in paid \/ queue[r].status # "none"

Matches(answer) == answer \subseteq {"noreceipt", "nopayer"}

ASSUME OnlySoundMatch ==
  \A r \in Receipts \ Sound : \A answer \in Answers[r] : ~Matches(answer)

\* Mutant: the row is parked whatever its status.
ParkableAlways(r) == book[r] # "none"
Parkable(r) == book[r] \in Open

\* Mutant: the conversation is stored whatever the status.
StorableAlways(r) == book[r] # "none"
Storable(r) == book[r] = "received"

\* Mutant: only checks that were sent are looked at.
StaleSent == {r \in Receipts : book[r] = "verifying" /\ r \in old}
StaleRows == {r \in Receipts : book[r] \in Open /\ r \in old}

\* c2bCustomerScope.
Scope(isp) == IF isp = Shared THEN registered ELSE {c \in registered : IspOf[c] = isp}

\* matchC2BCustomer: what the first lookup that works and finds anyone finds.
Found(r, isp, works) ==
  LET hits == {i \in works : Finds[r][i] \cap Scope(isp) # {}}
  IN  IF hits = {} THEN {}
      ELSE Finds[r][CHOOSE i \in hits : \A j \in hits : i <= j] \cap Scope(isp)

-----------------------------------------------------------------------------
Init ==
  /\ book = [r \in Receipts |-> "none"] /\ old = {}
  /\ \E history \in [Receipts -> Histories] :
       /\ \A r \in Receipts : history[r] \in Before[r]
       /\ queue = [r \in Receipts |-> IF history[r] = "queued" THEN ParkedRow
                                                               ELSE NoRow]
       /\ paid = {r \in Receipts : history[r] = "settled"}
       /\ credited = [r \in Receipts |-> IF history[r] = "settled" THEN 1 ELSE 0]
       /\ prompt = [r \in Receipts |-> IF history[r] = "prompt" THEN "open"
                                                                ELSE "none"]
  /\ registered \in Registries
  /\ asked = {} /\ stale = {} /\ died = {}
  /\ task = [h \in Handlers |-> Idle]

\* MpesaC2BConfirmation, as far as the check for payments from before the ledger.
Confirm(h, r) ==
  /\ task[h] = Idle /\ ~Recorded(r)
  /\ Go(h, "checked", r)
  /\ UNCHANGED <<book, old, queue, paid, prompt, credited, registered,
                 asked, stale, died>>

\* The row is inserted unless the receipt has one; the token is proof enough.
Insert(h, r) ==
  /\ task[h] = [at |-> "checked", r |-> r]
  /\ IF book[r] # "none"
       THEN End(h) /\ UNCHANGED book
       ELSE /\ book' = [book EXCEPT ![r] = "received"]
            /\ \/ r \in Sound /\ Go(h, "proven", r)
               \/ Go(h, "ask", r)
  /\ UNCHANGED <<old, queue, paid, prompt, credited, registered, asked,
                 stale, died>>

\* startC2BVerification, RequestC2BVerification: Safaricom may have been asked
\* also when the reply is lost or an error.
Ask(h, r) ==
  /\ task[h] = [at |-> "ask", r |-> r]
  /\ \/ asked' = asked \cup {r} /\ Go(h, "store", r)
     \/ asked' \in {asked, asked \cup {r}} /\ Go(h, "park", r)
  /\ UNCHANGED <<book, old, queue, paid, prompt, credited, registered,
                 stale, died>>

Store(h, r) ==
  /\ task[h] = [at |-> "store", r |-> r]
  /\ IF Storable(r) THEN book' = [book EXCEPT ![r] = "verifying"] /\ old' = old \ {r}
                    ELSE UNCHANGED <<book, old>>
  /\ End(h)
  /\ UNCHANGED <<queue, paid, prompt, credited, registered, asked, stale, died>>

\* MpesaC2BVerifyResult: the row awaiting this answer, or none yet or any more.
Result(h, r) ==
  /\ task[h] = Idle /\ r \in asked /\ book[r] = "verifying"
  /\ \E answer \in Answers[r] :
       IF Matches(answer) THEN Go(h, "proven", r) ELSE Go(h, "park", r)
  /\ UNCHANGED <<book, old, queue, paid, prompt, credited, registered,
                 asked, stale, died>>

\* MpesaC2BVerifyTimeout.
VerifyTimeout(h, r) ==
  /\ task[h] = Idle /\ r \in asked /\ book[r] = "verifying"
  /\ Go(h, "park", r)
  /\ UNCHANGED <<book, old, queue, paid, prompt, credited, registered,
                 asked, stale, died>>

\* ParkC2B, one transaction; a row already in the queue is left as it is.
ParkC2B(r) ==
  IF Parkable(r)
    THEN /\ book' = [book EXCEPT ![r] = "parked"]
         /\ queue' = [queue EXCEPT ![r] = IF @.status = "none" THEN ParkedRow ELSE @]
    ELSE UNCHANGED <<book, queue>>

Park(h, r) ==
  /\ task[h] = [at |-> "park", r |-> r]
  /\ ParkC2B(r) /\ End(h)
  /\ UNCHANGED <<old, paid, prompt, credited, registered, asked, stale, died>>

\* creditC2B looks the customer up.  A lookup the database refuses is skipped,
\* and an ISP it cannot read (OrgForShortcode) is nobody's.
Lookup(h, r) ==
  /\ task[h] = [at |-> "proven", r |-> r]
  /\ \E isp \in {PaidTo[r], Shared}, works \in SUBSET DOMAIN Finds[r] :
       LET found == Found(r, isp, works)
       IN  \/ found = {} /\ isp \in OneZone /\ Go(h, "create", r)
           \/ found = {} /\ isp \notin OneZone /\ GoCredit(h, r, Nobody)
           \/ Cardinality(found) > 1 /\ GoCredit(h, r, Nobody)
           \/ \E c \in found : found = {c} /\ GoCredit(h, r, c)
  /\ UNCHANGED <<book, old, queue, paid, prompt, credited, registered, asked, stale, died>>

\* autoCreateC2BCustomer registers the payer, on its own, or cannot.
Create(h, r) ==
  /\ task[h] = [at |-> "create", r |-> r]
  /\ \/ \E c \in Payer[r] \ registered :
          registered' = registered \cup {c} /\ GoCredit(h, r, c)
     \/ GoCredit(h, r, Nobody) /\ UNCHANGED registered
  /\ UNCHANGED <<book, old, queue, paid, prompt, credited, asked, stale, died>>

\* creditC2B's transaction: the claim of the row and the money or the queue row.
Credit(h, r) ==
  /\ At(h, "credit") /\ task[h].r = r
  /\ IF book[r] \notin Open
       THEN UNCHANGED <<book, queue, paid, credited>>
       ELSE /\ book' = [book EXCEPT ![r] = "credited"]
            /\ IF task[h].who = Nobody
                 THEN /\ queue' = [queue EXCEPT ![r] = VerifiedRow]
                      /\ UNCHANGED <<paid, credited>>
                 ELSE /\ credited' = [credited EXCEPT ![r] = @ + 1]
                      /\ paid' = paid \cup {r}
                      /\ UNCHANGED queue
  /\ End(h)
  /\ UNCHANGED <<old, prompt, registered, asked, stale, died>>

\* PlatformC2BUnmatchedResolve reads the row; staff have looked an unverified
\* payment up on the M-Pesa statement.
ResolveRead(h, r) ==
  /\ task[h] = Idle /\ queue[r].status = "pending"
  /\ queue[r].verification = "verified" \/ r \in Sound
  /\ Go(h, "resolve", r)
  /\ UNCHANGED <<book, old, queue, paid, prompt, credited, registered,
                 asked, stale, died>>

\* Its transaction: claim, credit and payment together.
ResolveCommit(h, r) ==
  /\ task[h] = [at |-> "resolve", r |-> r]
  /\ IF queue[r].status # "pending"
       THEN UNCHANGED <<queue, paid, credited>>
       ELSE /\ queue' = [queue EXCEPT ![r].status = "resolved"]
            /\ paid' = paid \cup {r}
            /\ credited' = [credited EXCEPT ![r] = @ + 1]
  /\ End(h)
  /\ UNCHANGED <<book, old, prompt, registered, asked, stale, died>>

\* PaymentVerifyCode reads the payments and the queue.
ClaimRead(h, r) ==
  /\ task[h] = Idle /\ r \notin paid /\ queue[r] = VerifiedRow
  /\ registered # {}
  /\ Go(h, "claim", r)
  /\ UNCHANGED <<book, old, queue, paid, prompt, credited, registered,
                 asked, stale, died>>

\* It takes the row, on its own.
ClaimTake(h, r) ==
  /\ task[h] = [at |-> "claim", r |-> r]
  /\ IF queue[r].status # "pending"
       THEN UNCHANGED queue /\ End(h)
       ELSE queue' = [queue EXCEPT ![r].status = "resolved"] /\ Go(h, "apply", r)
  /\ UNCHANGED <<book, old, paid, prompt, credited, registered, asked,
                 stale, died>>

\* And credits the customer in a transaction.
ClaimApply(h, r) ==
  /\ task[h] = [at |-> "apply", r |-> r]
  /\ credited' = [credited EXCEPT ![r] = @ + 1]
  /\ paid' = paid \cup {r}
  /\ End(h)
  /\ UNCHANGED <<book, old, queue, prompt, registered, asked, stale, died>>

\* Mutant: a failed claim is not put back.
AfterFailedApply == "idle"
\* What follows when that transaction fails.
AfterApply == "putback"

PutBack(h, r) ==
  /\ task[h] = [at |-> "putback", r |-> r]
  /\ queue' = [queue EXCEPT ![r].status = "pending"]
  /\ End(h)
  /\ UNCHANGED <<book, old, paid, prompt, credited, registered, asked,
                 stale, died>>

\* The database refuses a handler's next statement (Lookup and Create go on
\* without it).
Fail(h) ==
  /\ task[h] # Idle /\ ~At(h, "proven") /\ ~At(h, "create")
  /\ died' = IF At(h, "putback") THEN died \cup {task[h].r} ELSE died
  /\ IF At(h, "apply") THEN task' = [task EXCEPT ![h].at = AfterApply] ELSE End(h)
  /\ UNCHANGED <<book, old, queue, paid, prompt, credited, registered,
                 asked, stale>>

\* The server dies.
Crash ==
  /\ \E h \in Handlers : task[h] # Idle
  /\ task' = [h \in Handlers |-> Idle] /\ stale' = {}
  /\ died' = died \cup {task[h].r : h \in {i \in Handlers :
                                            At(i, "apply") \/ At(i, "putback")}}
  /\ UNCHANGED <<book, old, queue, paid, prompt, credited, registered, asked>>

\* ParkStaleC2BVerifications loads the rows (up to 100) and parks one after
\* the other.
LoadStale ==
  /\ stale = {} /\ StaleRows # {} /\ stale' = StaleRows
  /\ UNCHANGED <<book, old, queue, paid, prompt, credited, registered,
                 asked, task, died>>

ParkStale(r) ==
  /\ r \in stale /\ stale' = stale \ {r}
  /\ ParkC2B(r)
  /\ UNCHANGED <<old, paid, prompt, credited, registered, asked, task, died>>

\* Ten minutes pass.
Grow(r) ==
  /\ book[r] \in Open /\ r \notin old /\ old' = old \cup {r}
  /\ UNCHANGED <<book, queue, paid, prompt, credited, registered, asked,
                 task, stale, died>>

\* A status query completes the prompt's payment with a placeholder receipt.
StkQuery(r) ==
  /\ prompt[r] = "open"
  /\ prompt' = [prompt EXCEPT ![r] = "query"]
  /\ UNCHANGED <<book, old, queue, paid, credited, registered, asked, task, stale, died>>

\* The callback completes it, or replaces the placeholder
\* (upgradePlaceholderReceipt).
StkCallback(r) ==
  /\ prompt[r] \in {"open", "query"}
  /\ prompt' = [prompt EXCEPT ![r] = "recorded"]
  /\ paid' = paid \cup {r}
  /\ UNCHANGED <<book, old, queue, credited, registered, asked, task, stale, died>>

Handle(h, r) ==
  \/ Confirm(h, r) \/ Insert(h, r) \/ Ask(h, r) \/ Store(h, r) \/ Result(h, r)
  \/ VerifyTimeout(h, r) \/ Park(h, r)
  \/ Lookup(h, r) \/ Create(h, r) \/ Credit(h, r)
  \/ ResolveRead(h, r) \/ ResolveCommit(h, r)
  \/ ClaimRead(h, r) \/ ClaimTake(h, r) \/ ClaimApply(h, r) \/ PutBack(h, r)

Next ==
  \/ \E h \in Handlers : Fail(h) \/ \E r \in Receipts : Handle(h, r)
  \/ \E r \in Receipts : ParkStale(r) \/ Grow(r) \/ StkQuery(r) \/ StkCallback(r)
  \/ LoadStale \/ Crash

Spec == Init /\ [][Next]_vars

\* The ticker of the money jobs comes again for as long as a server runs, so
\* a stale row that keeps being there is loaded and its parking tried again;
\* time passes.
FairSpec ==
  /\ Spec
  /\ WF_vars(LoadStale)
  /\ \A r \in Receipts : WF_vars(Grow(r)) /\ SF_vars(ParkStale(r))

-----------------------------------------------------------------------------
\* The tables and the requests have the values the code writes.
TypeOK ==
  /\ book \in [Receipts -> Open \cup {"none", "credited", "parked"}]
  /\ old \subseteq Receipts /\ paid \subseteq Receipts /\ asked \subseteq Receipts
  /\ stale \subseteq Receipts /\ died \subseteq Receipts
  /\ queue \in [Receipts -> [status : {"none", "pending", "resolved"},
                             verification : {"verified", "unverified"}]]
  /\ prompt \in [Receipts -> {"none", "open", "query", "recorded"}]
  /\ credited \in [Receipts -> Nat]
  /\ registered \subseteq Customers
  /\ task \in [Handlers -> Tasks]

\* A paybill payment is given out at most once, however often its receipt is
\* confirmed, answered for, claimed and resolved (MpesaC2BConfirmation,
\* creditC2B, PlatformC2BUnmatchedResolve, PaymentVerifyCode).
CreditedOnce == \A r \in Receipts : credited[r] <= 1

\* What the three tables may hold of one receipt.
Agree(r) ==
  /\ r \notin Sound => credited[r] = 0 /\ book[r] # "credited"
  /\ book[r] \in Open =>
       queue[r].status = "none" /\ (r \in paid => prompt[r] = "recorded")
  /\ book[r] = "parked" => queue[r].status # "none" /\ queue[r].verification = "unverified"
  /\ book[r] = "credited" => r \in paid \/ queue[r].verification = "verified"
  /\ credited[r] > 0 => r \in paid

\* The ledger, the queue and the payments tell one story: an open row has
\* moved nothing, a parked one is in the queue, a credited one is in the
\* queue as verified or has its payment, whatever was given out has a
\* payment, and nothing is given out that neither Safaricom's record nor its
\* token vouches for (creditC2B, ParkC2B).
BooksAgree == \A r \in Receipts : Agree(r)

\* A claim is at it between taking the row and crediting it.
Claiming(h, r) == task[h] \in [at : {"apply", "putback"}, r : {r}]

\* A queued payment marked resolved has been given out, unless its claim is
\* still at it or died between taking the row and crediting it
\* (PaymentVerifyCode).
ResolvedGivenOut ==
  \A r \in Receipts :
    queue[r].status = "resolved" /\ credited[r] = 0 =>
      r \in died \/ \E h \in Handlers : Claiming(h, r)

\* A receipt that was credited or parked is never decided again, and a
\* queued payment that was given out stays resolved.
DecidedStays ==
  [][\A r \in Receipts :
       /\ book[r] \in {"credited", "parked"} => book'[r] = book[r]
       /\ queue[r].status = "resolved" /\ queue'[r].status = "pending" => credited[r] = 0
    ]_vars

\* Whatever is lost or late, a recorded confirmation is credited or parked.
Decided == \A r \in Receipts : book[r] \in Open ~> book[r] \in {"credited", "parked"}
=============================================================================
