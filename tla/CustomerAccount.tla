-------------------------- MODULE CustomerAccount ---------------------------
(***************************************************************************)
(* The row of a customer, its credit and its time, and everything that     *)
(* writes to it: handlers/customer_auth.go, handlers/customers.go,         *)
(* handlers/payments.go, services/mpesa.go (what follows a completed       *)
(* payment), services/voucher.go, services/watchdog.go, the credit of      *)
(* handlers/mpesa.go and the compensation of services/router_health.go.    *)
(* Some writers change the row by one UPDATE of the fields they own,       *)
(* others write back values computed from a row they read earlier; `raced' *)
(* remembers the rows a second writer changed in between, or that were     *)
(* deleted under a request, and `typed' those that staff gave a status     *)
(* that contradicts their time.                                            *)
(* There is one package.  A payment stands for a row of payments that      *)
(* Safaricom has confirmed (StkPayment, C2B).                              *)
(***************************************************************************)
EXTENDS Integers, FiniteSets

CONSTANTS
  Customers,
  PhoneOf,      \* customers of several zones may share a number
  Guests,       \* anonymous accounts, without a real phone number
  Trials,       \* the guests that a free trial made
  Payments,
  PayerOf,      \* the customer of each payment
  Buys,         \* "plan", "topup", or "short" for a plan paid in part
  Price,        \* of the package, in shillings
  Amounts,      \* sums that are put on or taken off the credit
  Balances,     \* what staff types as the credit of a customer
  Expiries,     \* and as the expiry
  Handlers,     \* request goroutines
  Scenes,       \* operations, and customers, that meet in one behaviour
  MaxTime,      \* bound
  MaxRequests,  \* bound
  Nobody

Operations == {"signin", "migrate", "profile", "buy", "pay", "c2b", "credit",
               "manual", "voucher", "update", "suspend", "register", "trial",
               "outage", "delete", "purge"}

ASSUME AccountAssumption ==
  /\ IsFiniteSet(Customers)  \* rows of a table
  /\ Trials \subseteq Guests /\ Guests \subseteq Customers
  /\ Nobody \notin Customers \cup Payments \cup {"sweep", "purge"}
  /\ PayerOf \in [Payments -> Customers]
  /\ Buys \in [Payments -> {"plan", "topup", "short"}]
  /\ Price \in Nat \ {0} /\ Amounts \subseteq Nat \ {0}
  /\ Balances \subseteq Nat /\ Expiries \subseteq Nat
  /\ Scenes \subseteq [doors : SUBSET Operations, who : SUBSET Customers]
  /\ IsFiniteSet(Handlers) /\ Handlers \cap {Nobody, "sweep", "purge"} = {}
  /\ MaxTime \in Nat \ {0} /\ MaxRequests \in Nat

VARIABLES
  customer,  \* the customers table
  logged,    \* sum of credit_logs of each customer
  unlogged,  \* credit that bought a plan, or that staff typed away, without a log
  payment,   \* payments and what followed them
  task,      \* requests in progress, with the row they read
  sweep,     \* customers the watchdog has loaded
  purge,     \* guests the clean-up has loaded
  wiped,     \* those of them whose credit logs it has deleted
  now,       \* the clock
  requests,  \* requests so far
  scene,     \* the operations and the customers of this behaviour
  raced,     \* customers changed while another writer held their row
  typed,     \* customers staff gave a status that contradicts their time
  torn       \* customers a request left half done, by a crash or an error

vars == <<customer, logged, unlogged, payment, task, sweep, purge, wiped,
          now, requests, scene, raced, typed, torn>>

-----------------------------------------------------------------------------
\* until: expires_at, 0 when there is none.
NoRow == [status |-> "none", until |-> 0, credit |-> 0]

Statuses == {"none", "active", "expired", "suspended"}

Row == [status : Statuses, until : Nat, credit : Nat]

Idle == [at |-> "idle", c |-> Nobody, row |-> NoRow, p |-> Nobody]

\* Stages at which a request will write back what it computed from its copy.
WriteBack == {"migrate", "take", "save", "expire", "buy", "serve", "update", "trial"}

Stages == WriteBack \cup {"completed", "manuallog", "debit", "debitlog", "renew", "redeem",
                         "credit"}

\* What comes after completing an unfinished manual payment is logged.
Unfinished == {"manuallog", "debitlog"}

\* A request that ends here has done one part of what belongs together.
HalfDone == Unfinished \cup {"completed", "serve"}

Lasts(until) == until > now

\* Mutant: time is sold from now on.
ExtendFromNow(until) == now + 1
\* CalculateExpiry and c2bNewExpiry for a package of one unit of time.
Extend(until) == IF Lasts(until) THEN until + 1 ELSE now + 1

\* AdjustCredit with a negative delta.
Covers(credit, amount) == credit >= amount

\* Mutant: a customer is expired at sign-in whatever their time.
RecomputeExpired(row) == [row EXCEPT !.status = "expired"]
\* VerifyOtp: status and expiry follow the clock.
Recompute(row) == IF Lasts(row.until) THEN [row EXCEPT !.status = "active"]
                  ELSE [row EXCEPT !.status = "expired", !.until = 0]

\* Mutant: accounts without an expiry are loaded, others are not.
OverdueNever == {c \in Customers : customer[c].status = "active" /\ customer[c].until = 0}
Overdue == {c \in Customers : /\ customer[c].status = "active"
                              /\ customer[c].until # 0 /\ customer[c].until < now}

\* The clean-up knows guests by GUEST and VCHR, and so leaves trials alone.
Abandoned == {c \in Guests \ Trials : customer[c].status \notin {"none", "active"}}

\* Mutant: a plan that has been moved can be moved again.
MovableAgain(g) == customer[g].status # "none"
Movable(g) == customer[g].status = "active"

Exists(c) == customer[c].status # "none"

Holders(c) == {h \in Handlers : task[h].c = c /\ task[h].at \in WriteBack}
              \cup (IF c \in sweep THEN {"sweep"} ELSE {})
              \cup (IF c \in purge THEN {"purge"} ELSE {})

\* One UPDATE of the row of c; by is the writer.
Write(c, row, by) ==
  /\ customer' = [customer EXCEPT ![c] = row]
  /\ raced' = IF row # customer[c] /\ Holders(c) \ {by} # {} THEN raced \cup {c}
                                                             ELSE raced

\* An UPDATE by id, which changes nothing once the row has been deleted.
Update(c, row, by) == IF Exists(c) THEN Write(c, row, by) ELSE UNCHANGED <<customer, raced>>

\* Rows are deleted, whoever is at work for them; by is who deletes.
Delete(S, by) ==
  /\ customer' = [c \in Customers |-> IF c \in S THEN NoRow ELSE customer[c]]
  /\ logged' = [c \in Customers |-> IF c \in S THEN 0 ELSE logged[c]]
  /\ unlogged' = [c \in Customers |-> IF c \in S THEN 0 ELSE unlogged[c]]
  /\ raced' = raced \cup {c \in S : \/ Holders(c) \ {by} # {}
                                    \/ \E h \in Handlers : task[h].c = c}

\* Staff types the row of c: its credit without a credit log.
Type(c, row, by) ==
  /\ Write(c, row, by)
  /\ unlogged' = [unlogged EXCEPT ![c] = @ + customer[c].credit - row.credit]
  /\ typed' = IF Lasts(row.until) /\ row.status \notin {"active", "suspended"}
                THEN typed \cup {c} ELSE typed

\* What is bought is given, or there is no account to give it to.
Settle(p) == payment' = [payment EXCEPT ![p] = IF Exists(PayerOf[p]) THEN "served" ELSE "stray"]

Go(h, stage, c, row, p) ==
  task' = [task EXCEPT ![h] = [at |-> stage, c |-> c, row |-> row, p |-> p]]
End(h) == task' = [task EXCEPT ![h] = Idle]

\* A request of one of the behaviour's operations arrives.
Arrive(door, c) == /\ door \in scene.doors /\ c \in scene.who
                   /\ requests < MaxRequests /\ requests' = requests + 1
Arrived(h, door, c) == task[h] = Idle /\ Arrive(door, c)

\* Mutant: debits are not logged.
LogCredits(c, amount) == logged' = [logged EXCEPT ![c] = @ + (IF amount > 0 THEN amount ELSE 0)]
Log(c, amount) == logged' = [logged EXCEPT ![c] = @ + amount]

Books == <<logged, unlogged>>
Loops == <<sweep, purge, wiped, now, scene, typed>>

-----------------------------------------------------------------------------
\* No plan, a plan that is over, or one that lasts.
Starts == {NoRow, [NoRow EXCEPT !.status = "expired"],
           [status |-> "active", until |-> 3, credit |-> 0]}

Init ==
  /\ scene \in Scenes
  /\ customer \in {f \in [Customers -> Starts] :
                     \A c \in Customers \ scene.who : f[c] = NoRow}
  /\ logged = [c \in Customers |-> 0] /\ unlogged = [c \in Customers |-> 0]
  /\ payment = [p \in Payments |-> "due"]
  /\ task = [h \in Handlers |-> Idle]
  /\ sweep = {} /\ purge = {} /\ wiped = {} /\ now = 1 /\ requests = 0
  /\ raced = {} /\ typed = {} /\ torn = {}

\* VerifyOtp reads the row of the phone number, or makes one.
VerifyRead(h, c) ==
  /\ Arrived(h, "signin", c) /\ c \notin Guests
  /\ LET row == IF Exists(c) THEN customer[c] ELSE [NoRow EXCEPT !.status = "expired"]
     IN  /\ Write(c, row, h)
         /\ Go(h, IF Recompute(row).status # "active" /\ "migrate" \in scene.doors
                    THEN "migrate" ELSE "save", c, Recompute(row), Nobody)
  /\ UNCHANGED <<Books, payment, Loops, torn>>

\* migrateAnonymousPlan reads the guest account the device token names.
MigrateRead(h, g) ==
  /\ task[h].at = "migrate" /\ g \in Guests \cap scene.who
  /\ IF customer[g].status = "active" /\ Lasts(customer[g].until)
       THEN Go(h, "take", task[h].c, [task[h].row EXCEPT !.until = customer[g].until], g)
       ELSE Go(h, "save", task[h].c, task[h].row, Nobody)
  /\ UNCHANGED <<customer, Books, payment, Loops, requests, raced, torn>>

\* And ends its plan, which then is the signed-in customer's.
MigrateTake(h) ==
  /\ task[h].at = "take"
  /\ LET g == task[h].p IN
       IF Movable(g)
         THEN /\ Write(g, [customer[g] EXCEPT !.status = "expired", !.until = now], h)
              /\ Go(h, "save", task[h].c, [task[h].row EXCEPT !.status = "active"], Nobody)
         ELSE /\ Go(h, "save", task[h].c, [task[h].row EXCEPT !.until = 0], Nobody)
              /\ UNCHANGED <<customer, raced>>
  /\ UNCHANGED <<Books, payment, Loops, requests, torn>>

\* VerifyOtp saves the whole row it read.
VerifySave(h) ==
  /\ task[h].at = "save"
  /\ Write(task[h].c, task[h].row, h) /\ End(h)
  /\ UNCHANGED <<Books, payment, Loops, requests, torn>>

\* CustomerProfile reads the row; buildCustomerProfile expires it by id.
ProfileRead(h, c) ==
  /\ Arrived(h, "profile", c) /\ c \in Overdue
  /\ Go(h, "expire", c, customer[c], Nobody)
  /\ UNCHANGED <<customer, Books, payment, Loops, raced, torn>>

ProfileExpire(h) ==
  /\ task[h].at = "expire"
  /\ Update(task[h].c, [customer[task[h].c] EXCEPT !.status = "expired"], h)
  /\ End(h)
  /\ UNCHANGED <<Books, payment, Loops, requests, torn>>

\* CustomerPurchaseWithCredit reads the balance and refuses, or goes on with it.
PurchaseRead(h, c) ==
  /\ Arrived(h, "buy", c) /\ Exists(c) /\ Covers(customer[c].credit, Price)
  /\ Go(h, "buy", c, customer[c], Nobody)
  /\ UNCHANGED <<customer, Books, payment, Loops, raced, torn>>

\* Its transaction writes the balance and the expiry computed from the copy.
PurchaseCommit(h) ==
  /\ task[h].at = "buy"
  /\ LET c == task[h].c IN
       /\ Update(c, [status |-> "active", until |-> Extend(task[h].row.until),
                     credit |-> task[h].row.credit - Price], h)
       /\ Log(c, -Price)
  /\ End(h)
  /\ UNCHANGED <<unlogged, payment, Loops, requests, torn>>

\* ProcessPaymentSuccess completes the payment, on its own.
Complete(h, p) ==
  /\ Arrived(h, "pay", PayerOf[p]) /\ payment[p] = "due" /\ Buys[p] # "short"
  /\ payment' = [payment EXCEPT ![p] = "completed"]
  /\ Go(h, "completed", PayerOf[p], NoRow, p)
  /\ UNCHANGED <<customer, Books, Loops, raced, torn>>

\* A top-up is credited and logged in one transaction; no account, no credit.
CreditTopUp(h) ==
  /\ task[h].at = "completed" /\ Buys[task[h].p] = "topup"
  /\ LET c == task[h].c IN
       IF Exists(c)
         THEN /\ Write(c, [customer[c] EXCEPT !.credit = @ + Price], h) /\ Log(c, Price)
         ELSE UNCHANGED <<customer, raced, logged>>
  /\ Settle(task[h].p) /\ End(h)
  /\ UNCHANGED <<unlogged, Loops, requests, torn>>

\* Mutant: nobody is registered for the payment of a phone without an account.
ServeKnown(h) ==
  /\ task[h].at = "completed" /\ Buys[task[h].p] = "plan"
  /\ LET c == task[h].c IN
       IF Exists(c) THEN Go(h, "serve", c, customer[c], task[h].p) ELSE End(h)
  /\ UNCHANGED <<customer, Books, payment, Loops, requests, raced, torn>>
\* For a plan the customer is read, or registered as active without an expiry.
ServeRead(h) ==
  /\ task[h].at = "completed" /\ Buys[task[h].p] = "plan"
  /\ LET c   == task[h].c
         row == IF Exists(c) THEN customer[c] ELSE [NoRow EXCEPT !.status = "active"]
     IN  Write(c, row, h) /\ Go(h, "serve", c, row, task[h].p)
  /\ UNCHANGED <<Books, payment, Loops, requests, torn>>

\* And the expiry extended from that copy is written.
ServeWrite(h) ==
  /\ task[h].at = "serve"
  /\ LET c == task[h].c IN
       Update(c, [customer[c] EXCEPT !.status = "active",
                                     !.until = Extend(task[h].row.until)], h)
  /\ Settle(task[h].p) /\ End(h)
  /\ UNCHANGED <<Books, Loops, requests, torn>>

\* ProcessUnderpayment: status, credit and log in one transaction.
Underpay(p, amount) ==
  /\ Arrive("pay", PayerOf[p]) /\ payment[p] = "due" /\ Buys[p] = "short"
  /\ amount < Price
  /\ Settle(p)
  /\ LET c == PayerOf[p] IN
       IF Exists(c)
         THEN Write(c, [customer[c] EXCEPT !.credit = @ + amount], Nobody) /\ Log(c, amount)
         ELSE UNCHANGED <<customer, raced, logged>>
  /\ UNCHANGED <<unlogged, task, Loops, torn>>

\* creditC2B, PaymentVerifyCode and PlatformC2BUnmatchedResolve find the customer;
\* autoCreateC2BCustomer registers the phone that has none, on its own.
C2BRead(h, c) ==
  /\ Arrived(h, "c2b", c) /\ (Exists(c) \/ c \notin Guests)
  /\ Write(c, IF Exists(c) THEN customer[c] ELSE [NoRow EXCEPT !.status = "active"], h)
  /\ Go(h, "credit", c, NoRow, Nobody)
  /\ UNCHANGED <<Books, payment, Loops, torn>>

\* The transaction: the credit, and the package when there is one and the balance,
\* as the database has it, covers it; platform staff only put the credit on.  An
\* account deleted meanwhile gets neither.
C2BCredit(h, amount) ==
  /\ task[h].at = "credit"
  /\ LET c      == task[h].c
         credit == customer[c].credit + amount
     IN  \/ /\ Exists(c) /\ Covers(credit, Price)
            /\ Write(c, [status |-> "active", until |-> Extend(customer[c].until),
                         credit |-> credit - Price], h)
            /\ unlogged' = [unlogged EXCEPT ![c] = @ + Price] /\ Log(c, amount)
         \/ /\ Exists(c)
            /\ Write(c, [customer[c] EXCEPT !.credit = credit], h)
            /\ Log(c, amount) /\ UNCHANGED unlogged
         \/ ~Exists(c) /\ UNCHANGED <<customer, raced, Books>>
  /\ End(h)
  /\ UNCHANGED <<payment, Loops, requests, torn>>

\* CustomerAddCredit.
AddCredit(c, amount) ==
  /\ Arrive("credit", c) /\ Exists(c)
  /\ \/ Write(c, [customer[c] EXCEPT !.credit = @ + amount], Nobody) /\ Log(c, amount)
     \/ /\ Covers(customer[c].credit, amount)
        /\ Write(c, [customer[c] EXCEPT !.credit = @ - amount], Nobody)
        /\ Log(c, -amount)
  /\ UNCHANGED <<unlogged, payment, task, Loops, torn>>

\* PaymentRecordManual, one statement after the other: credit, log, debit,
\* log, renewal.  The plain "renew" starts with the last.
ManualStart(h, c) ==
  /\ Arrived(h, "manual", c) /\ Exists(c)
  /\ \/ /\ Write(c, [customer[c] EXCEPT !.credit = @ + Price], h)
        /\ Go(h, "manuallog", c, NoRow, Nobody)
     \/ Go(h, "renew", c, NoRow, Nobody) /\ UNCHANGED <<customer, raced>>
  /\ UNCHANGED <<Books, payment, Loops, torn>>

ManualLog(h) ==
  /\ \/ /\ task[h].at = "manuallog" /\ Log(task[h].c, Price)
        /\ End(h) \/ Go(h, "debit", task[h].c, NoRow, Nobody)
     \/ /\ task[h].at = "debitlog" /\ Log(task[h].c, -Price)
        /\ Go(h, "renew", task[h].c, NoRow, Nobody)
  /\ UNCHANGED <<customer, unlogged, payment, Loops, requests, raced, torn>>

\* The renewal goes ahead also when the balance does not cover it.
ManualDebit(h) ==
  /\ task[h].at = "debit"
  /\ LET c == task[h].c IN
       IF Covers(customer[c].credit, Price)
         THEN /\ Write(c, [customer[c] EXCEPT !.credit = @ - Price], h)
              /\ Go(h, "debitlog", c, NoRow, Nobody)
         ELSE Go(h, "renew", c, NoRow, Nobody) /\ UNCHANGED <<customer, raced>>
  /\ UNCHANGED <<Books, payment, Loops, requests, torn>>

\* Time is counted from now, whatever is left.
ManualRenew(h) ==
  /\ task[h].at = "renew"
  /\ LET c == task[h].c IN
       Update(c, [customer[c] EXCEPT !.status = "active", !.until = now + 1], h)
  /\ End(h)
  /\ UNCHANGED <<Books, payment, Loops, requests, torn>>

\* processVoucherRedemption: resolveCustomerForVoucher names an account, or
\* makes one, active from the start ...
VoucherResolve(h, c) ==
  /\ Arrived(h, "voucher", c)
  /\ Write(c, IF Exists(c) THEN customer[c] ELSE [NoRow EXCEPT !.status = "active"], h)
  /\ Go(h, "redeem", c, NoRow, Nobody)
  /\ UNCHANGED <<Books, payment, Loops, torn>>

\* ... and Redeem's transaction looks an account up by that one's phone number,
\* or makes one, and gives it time, counted from now whatever is left, unless the
\* voucher has been used meanwhile.
Redeem(h) ==
  /\ task[h].at = "redeem"
  /\ \/ \E d \in Customers :
          /\ PhoneOf[d] = PhoneOf[task[h].c]
          /\ Write(d, [customer[d] EXCEPT !.status = "active", !.until = now + 1], h)
     \/ UNCHANGED <<customer, raced>>
  /\ End(h)
  /\ UNCHANGED <<Books, payment, Loops, requests, torn>>

\* CustomerClaimFreeTier makes the account of a device's trial, or saves the
\* whole row it read, with a new trial on it.
TrialRead(h, c) ==
  /\ Arrived(h, "trial", c) /\ c \in Trials
  /\ LET row == [customer[c] EXCEPT !.status = "active", !.until = now + 1] IN
       IF Exists(c) THEN Go(h, "trial", c, row, Nobody) /\ UNCHANGED <<customer, raced>>
                    ELSE Write(c, row, Nobody) /\ UNCHANGED task
  /\ UNCHANGED <<Books, payment, Loops, torn>>

TrialSave(h) ==
  /\ task[h].at = "trial"
  /\ Write(task[h].c, task[h].row, h) /\ End(h)
  /\ UNCHANGED <<Books, payment, Loops, requests, torn>>

\* compensateZone gives back the time of an outage, on the expiry it has read
\* and finds unchanged.
Compensate(c) ==
  /\ Arrive("outage", c) /\ c \notin Trials /\ Exists(c) /\ customer[c].until # 0
  /\ Write(c, [customer[c] EXCEPT !.status = "active", !.until = Extend(@)], Nobody)
  /\ UNCHANGED <<Books, payment, task, Loops, torn>>

\* CustomerUpdate reads the row ...
UpdateRead(h, c) ==
  /\ Arrived(h, "update", c) /\ Exists(c)
  /\ Go(h, "update", c, customer[c], Nobody)
  /\ UNCHANGED <<customer, Books, payment, Loops, raced, torn>>

\* ... and writes what the body says: any status and credit, with status "active"
\* also an expiry when the copy has none left ...
UpdateWrite(h) ==
  /\ task[h].at = "update"
  /\ LET c      == task[h].c
         ended  == task[h].row.until < now
         edited == customer[c]
     IN  /\ Exists(c)
         /\ \E credit \in Balances \cup {edited.credit} :
              \/ Type(c, [status |-> "active", until |-> IF ended THEN now + 1 ELSE edited.until,
                          credit |-> credit], h)
              \/ \E status \in {"expired", "suspended", edited.status} :
                   Type(c, [status |-> status, until |-> edited.until, credit |-> credit], h)
  /\ End(h)
  /\ UNCHANGED <<logged, payment, sweep, purge, wiped, now, scene, requests, torn>>

\* ... or the expiry itself.
UpdateExpiry(h) ==
  /\ task[h].at = "update"
  /\ LET c == task[h].c IN
       /\ Exists(c)
       /\ \E until \in Expiries, status \in {"active", "expired", "suspended"},
             credit \in Balances \cup {customer[c].credit} :
            Type(c, [status |-> status, until |-> until, credit |-> credit], h)
  /\ End(h)
  /\ UNCHANGED <<logged, payment, sweep, purge, wiped, now, scene, requests, torn>>

\* A row that has been deleted meanwhile stays so.
UpdateMiss(h) ==
  /\ task[h].at = "update" /\ ~Exists(task[h].c)
  /\ End(h)
  /\ UNCHANGED <<customer, Books, payment, Loops, requests, raced, torn>>

\* CustomerSuspend and CustomerActivate.
SetStatus(c, status) ==
  /\ Arrive("suspend", c) /\ Exists(c)
  /\ Write(c, [customer[c] EXCEPT !.status = status], Nobody)
  /\ UNCHANGED <<Books, payment, task, Loops, torn>>

Registers(c) == Arrive("register", c) /\ ~Exists(c)

\* A guest account, and an account for a phone number that asks for a code.
Register(c) ==
  /\ Registers(c) /\ Write(c, [NoRow EXCEPT !.status = "expired"], Nobody)
  /\ UNCHANGED <<Books, payment, task, Loops, torn>>

CustomerAuthGuest(c) == c \in Guests \ Trials /\ Register(c)
RequestOtp(c) == c \notin Guests /\ Register(c)

\* CustomerStore creates what the body says, with an expiry when it is active
\* and has none.
CustomerStore(c) ==
  /\ Registers(c) /\ c \notin Guests
  /\ \E credit \in Balances, until \in Expiries \cup {now + 1},
       status \in {"active", "expired", "suspended"} :
         Type(c, [status |-> status, until |-> until, credit |-> credit], Nobody)
  /\ UNCHANGED <<logged, payment, task, sweep, purge, wiped, now, scene, torn>>

\* CustomerDestroy, with whatever the customer has left.
CustomerDestroy(c) ==
  /\ Arrive("delete", c) /\ Exists(c) /\ Delete({c}, Nobody)
  /\ UNCHANGED <<payment, task, Loops, torn>>

\* runOverloadProtectionSweep loads the overdue and expires each by id.
SweepLoad ==
  /\ sweep = {} /\ Overdue # {} /\ sweep' = Overdue
  /\ UNCHANGED <<customer, Books, payment, task, purge, wiped, now, requests, scene, raced,
                 typed, torn>>

SweepExpire(c) ==
  /\ c \in sweep /\ sweep' = sweep \ {c}
  /\ Update(c, [customer[c] EXCEPT !.status = "expired"], "sweep")
  /\ UNCHANGED <<Books, payment, task, purge, wiped, now, requests, scene, typed, torn>>

\* purgeInactiveCustomers loads abandoned guests, deletes their credit logs and
\* then the rows, by id, also those a request is at work for.
PurgeLoad ==
  /\ purge = {} /\ \E c \in Abandoned : Arrive("purge", c)
  /\ purge' \in SUBSET Abandoned \ {{}}
  /\ UNCHANGED <<customer, Books, payment, task, sweep, wiped, now, scene, raced, typed, torn>>

PurgeLogs ==
  /\ purge # {} /\ wiped = {} /\ wiped' = purge
  /\ logged' = [c \in Customers |-> IF c \in purge THEN 0 ELSE logged[c]]
  /\ UNCHANGED <<customer, unlogged, payment, task, sweep, purge, now, requests, scene, raced,
                 typed, torn>>

\* Whether or not the database deleted the logs: the error is ignored.
PurgeRows ==
  /\ purge # {} /\ purge' = {} /\ wiped' = {}
  /\ Delete(purge, "purge")
  /\ UNCHANGED <<payment, task, sweep, now, requests, scene, typed, torn>>

\* The clean-up dies before it has deleted the rows.
PurgeDie ==
  /\ purge # {} /\ purge' = {} /\ wiped' = {} /\ torn' = torn \cup wiped
  /\ UNCHANGED <<customer, Books, payment, task, sweep, now, requests, scene, raced, typed>>

Tick ==
  /\ now < MaxTime /\ now' = now + 1
  /\ UNCHANGED <<customer, Books, payment, task, sweep, purge, wiped, requests, scene, raced,
                 typed, torn>>

\* A request dies, or the database refuses its next statement.
Die(h) ==
  /\ task[h] # Idle /\ End(h)
  /\ torn' = IF task[h].at \in HalfDone THEN torn \cup {task[h].c} ELSE torn
  /\ UNCHANGED <<customer, Books, payment, Loops, requests, raced>>

SignIn(h) ==
  \/ \E c \in Customers : VerifyRead(h, c) \/ MigrateRead(h, c)
  \/ MigrateTake(h) \/ VerifySave(h)

Request(h) ==
  \/ \E c \in Customers : \/ ProfileRead(h, c) \/ PurchaseRead(h, c) \/ C2BRead(h, c)
                          \/ ManualStart(h, c) \/ UpdateRead(h, c)
                          \/ VoucherResolve(h, c) \/ TrialRead(h, c)
  \/ \E p \in Payments : Complete(h, p)
  \/ \E amount \in Amounts : C2BCredit(h, amount)
  \/ SignIn(h) \/ ProfileExpire(h) \/ PurchaseCommit(h)
  \/ CreditTopUp(h) \/ ServeRead(h) \/ ServeWrite(h) \/ ManualLog(h)
  \/ ManualDebit(h) \/ ManualRenew(h) \/ UpdateWrite(h) \/ UpdateExpiry(h) \/ UpdateMiss(h)
  \/ Redeem(h) \/ TrialSave(h) \/ Die(h)

Next ==
  \/ \E h \in Handlers : Request(h)
  \/ \E p \in Payments, amount \in Amounts : Underpay(p, amount)
  \/ \E c \in Customers : \/ CustomerAuthGuest(c) \/ RequestOtp(c) \/ CustomerStore(c)
                          \/ CustomerDestroy(c) \/ Compensate(c) \/ SweepExpire(c)
                          \/ \E amount \in Amounts : AddCredit(c, amount)
                          \/ \E status \in {"active", "suspended"} : SetStatus(c, status)
  \/ SweepLoad \/ PurgeLoad \/ PurgeLogs \/ PurgeRows \/ PurgeDie \/ Tick

Spec == Init /\ [][Next]_vars

\* The watchdog's ticker runs for as long as the server does.
FairSpec == Spec /\ WF_vars(SweepLoad) /\ \A c \in Customers : WF_vars(SweepExpire(c))

-----------------------------------------------------------------------------

TypeOK ==
  /\ customer \in [Customers -> Row]
  /\ logged \in [Customers -> Int] /\ unlogged \in [Customers -> Int]
  /\ payment \in [Payments -> {"due", "completed", "served", "stray"}]
  /\ task \in [Handlers -> {Idle} \cup
       [at : Stages, c : Customers, row : Row, p : Customers \cup Payments \cup {Nobody}]]
  /\ sweep \subseteq Customers /\ purge \subseteq Guests /\ wiped \subseteq purge
  /\ now \in Nat /\ requests \in Nat /\ scene \in Scenes
  /\ raced \subseteq Customers /\ typed \subseteq Customers /\ torn \subseteq Customers

\* A balance is the sum of its credit logs, less the plans that paybill money
\* bought, and with what staff typed; only a request that wrote an old row back, or
\* one that died between two statements, can break that, or the clean-up that has
\* deleted the logs and not yet the row, and even then it is never below zero
\* (AdjustCredit, CustomerPurchaseWithCredit, purgeInactiveCustomers).
Reconciles(c) ==
  (\A h \in Handlers : task[h].c = c => task[h].at \notin Unfinished) =>
    customer[c].credit = logged[c] - unlogged[c]

BalanceReconciles ==
  \A c \in Customers : customer[c].credit >= 0 /\ (c \in raced \cup torn \cup wiped \/ Reconciles(c))

\* A customer with time left is let in, or suspended, unless somebody wrote an old
\* row back over a renewal, or staff typed another status, or the time of one that
\* is not let in (runOverloadProtectionSweep, buildCustomerProfile, VerifyOtp).
PaidTimeKept ==
  \A c \in Customers \ (raced \cup typed) :
    Exists(c) /\ Lasts(customer[c].until) => customer[c].status \in {"active", "suspended"}

\* What a completed payment buys has been given, if there was an account to give
\* it to, or its request is still at it, or died (ProcessPaymentSuccess).
CompletedIsServed ==
  \A p \in Payments :
    payment[p] = "completed" => PayerOf[p] \in torn \/ \E h \in Handlers : task[h].p = p

\* No purchase, credit, sign-in, suspension or compensation shortens the time a
\* customer has: what does is a voucher or a manual renewal, which count from now,
\* a new trial, the move of a guest's plan, staff that types an expiry or deletes
\* the customer, and an old row written back; and clean-up deletes nobody who has
\* time, but a guest staff suspended or whose row staff typed (CalculateExpiry,
\* CustomerUpdate, purgeInactiveCustomers).
NothingShortens ==
  [][\A c \in Customers \ raced' :
       Lasts(customer[c].until) /\ customer'[c].until < customer[c].until =>
         \/ \E h \in Handlers : \/ Redeem(h) \/ ManualRenew(h) \/ TrialSave(h)
                                \/ MigrateTake(h) \/ UpdateExpiry(h)
         \/ CustomerDestroy(c)
         \/ PurgeRows /\ (customer[c].status = "suspended" \/ c \in typed)]_vars

\* The units of time a customer has, or will have once a sign-in is saved.
TimeOf(c) == now + 1 .. customer[c].until
InFlight(c) == UNION {now + 1 .. task[h].row.until :
                        h \in {h \in Handlers : task[h].at = "save" /\ task[h].c = c}}

PlanTime == UNION {{c} \X (TimeOf(c) \cup InFlight(c)) : c \in Customers}

\* What gives time to a guest, or lets one in again.
Renewals == {"buy", "pay", "c2b", "manual", "voucher", "update", "suspend", "trial", "outage"}

\* A plan is moved, not copied: signing in, from any number of phones that hold
\* the device's token, makes no time, if no new plan takes the place of the
\* guest's meanwhile (migrateAnonymousPlan).
MovedNotCopied ==
  [][(\E h \in Handlers : SignIn(h)) /\ scene.doors \cap Renewals = {} =>
       Cardinality(PlanTime)' <= Cardinality(PlanTime)]_vars

OverTime(c) == customer[c].status = "active" /\ customer[c].until \in 1..(now - 1)

\* A customer whose time is up does not stay active.
ExpiryComes == \A c \in Customers : OverTime(c) ~> ~OverTime(c)
=============================================================================
