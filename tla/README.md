# Zyra Net API: models and proofs

TLA+ models of the Zyra Net API, a Go server (Fiber, GORM, MySQL) that sells
internet access for internet providers (ISPs): customers pay by M-Pesa or with
vouchers, routers are told to let them in, resellers ("agents") take vouchers
on credit, and the platform pays each ISP its share of what was paid on the
shared M-Pesa shortcode.  The models are written from the Go source; every
definition names its lines in `PROJECT.json`.  TLC checks them on small
instances and TLAPS proves the central theorems for every instance.

## The system

One server process (possibly several behind a balancer) runs each HTTP request
in its own goroutine, a handful of tickers (reconciler of pending payments,
router queue, watchdog, RADIUS, owner alerts, expiry reminders), and `go`
routines started by handlers.  All of them share one MySQL database and almost
nothing else; what protects them from each other is conditional `UPDATE`s,
unique indexes, and in a few places transactions with `SELECT ... FOR UPDATE`.
Outside are Safaricom (STK prompts, C2B confirmations, B2B payouts, status
queries), the routers, FreeRADIUS and the SMS providers.  A router, Safaricom
or a client may answer late, twice or never, and the server may die between
any two writes.

| Component | State | Operations | What is hard | What makes it correct |
|---|---|---|---|---|
| Agent ledger (`services/agent_ledger.go`) | `agents`, `agent_vouchers`, `agent_ledger_entries`, `agent_idempotency_keys` | issue, return, handover, adjustment, reversal; summaries, statements | concurrent transactions, retries with the same key, lock order with redemptions, prices that change between issue and return | a voucher is charged once and credited at most once; one write per key; balances and cash due reconcile with the vouchers; reversals exact; no one waits for ever |
| Vouchers (`services/voucher.go`, `handlers/vouchers.go`) | `vouchers` | generate, redeem, void, delete | a redemption racing a return or a deletion | a voucher is redeemed or returned, never both |
| Payouts (`services/payout.go`, `handlers/platform_payouts.go`) | `payouts`, `payments.payout_id` | create, send (B2B), result callback, cancel, fail, mark paid, back-fill | lost or unclear replies, late or repeated results, two staff members at once, crashes between taking and sending | a payment is in at most one live payout; money is never sent twice; the two-person rule holds; what is settled stays settled |
| STK payments (`services/mpesa.go`, `handlers/mpesa.go`, `handlers/hotspot.go`, `services/money_jobs.go`) | `payments` | prompt, callback, status query, reconciler, underpayment | four sources of the same result, callbacks before the checkout id is stored | a payment completes once and is given out once; what was paid is eventually recorded |
| C2B payments (`handlers/mpesa.go`, `handlers/c2b_match.go`, `services/c2b_verify.go`, `handlers/platform_c2b.go`, `handlers/payments.go`) | `c2b_transactions`, `unmatched_c2b_payments` | confirmation, verification, match, park, stale check, resolve, self-claim | repeated confirmations, answers that come early, late or never, a claim racing a resolution, a claim in two writes | a receipt is given out at most once, the tables agree, every confirmed receipt is credited or parked |
| Router actions (`services/router_actions.go`) | `router_actions` | enqueue, run due, retry with back-off | stale "running" rows after a crash, an action done twice | an action is done, retried or given up, never lost |
| Customer accounts (`handlers/customer_auth.go`, `handlers/customers.go`, `handlers/payments.go`, `services/mpesa.go`, `services/credit.go`, `services/voucher.go`, `services/watchdog.go`) | `customers`, `credit_logs` | sign-in, moving a guest's plan, purchase with credit, what a payment buys, manual payments, vouchers, free trials, compensation, staff edits and deletion, expiry sweep, clean-up | read-modify-write of whole rows, sweeps that act by ids read earlier, several statements without a transaction | credit reconciles with its log and with what staff typed; a customer with time is let in; no purchase shortens time; a plan is moved, not copied |
| Device logins (`services/hotspot_credentials.go`, `handlers/router_login.go`, `handlers/customer_auth.go`) | `hotspot_credentials`, tokens, `free_trial_claims` | grant, move, tickets, tokens, reconcile, free trial | two devices at once, a reconciler in several transactions | a grant keeps to the plan's number of devices; logins follow the plan; one trial per device and phone, while claims are written |
| RADIUS and MikroTik access (`services/radius.go`, `handlers/platform_radius.go`, `services/mikrotik_script.go`, `services/mikrotik.go`) | `radcheck`, `radreply`, `radius_accounts`, the router's users, `zones.auth_mode` | minute's script, push of a login, sync of a customer or a zone, entering and leaving RADIUS | scripts that are lost, silent routers, pushes overtaken by a change, rows computed before the transaction that writes them, platform requests at once | what the router admits settles on who is paid up |
| Router health (`services/router_health.go`, `services/watchdog.go`) | `zones.last_seen_at`, `zone_outages`, `zone_alerts` | check-in, compensation, offline sweep | concurrent check-ins, a crash between two writes | an outage is compensated at most once, and nobody gets more than it took |
| Owner alerts (`services/ops_alerts.go`) | `ops_alerts`, `ops_zone_alert_states` | the minute's sweep | flapping routers, quiet hours, the morning summary, crash after sending | owners end up knowing how a router is; two "down" texts are two hours apart |
| Watchdog (`services/watchdog.go`) | none of its own | expiry sweep, router sweep, login reconciler | each reads first and writes by id later | in the modules of what it changes |
| The rest | | CRUD, reports, portal pages, SMS, reminders, invoices, authentication | mostly single statements or I/O | not modelled, see below |

`PROJECT.json` lists every component with its source files, and the hazards,
each at the line where it bites, with the properties that cover it.

## Modules

| Module | Models |
|---|---|
| `AgentLedger` | transactions of the agent ledger, voucher redemption and deletion, profile updates |
| `AgentAccount` | the abstract account the ledger promises: a balance and a stock per agent, one atomic step per operation |
| `AgentLedgerAccount` | the refinement mapping from the ledger to the account |
| `Payout` | payouts, staff requests in progress, and Safaricom's B2B transfers |
| `Settlement` | the abstract settlement payouts promise: the money of a payment waits for one payout at a time, leaves once, and is not given back after that |
| `PayoutSettlement` | the refinement mapping from payouts to the settlement |
| `StkPayment` | M-Pesa prompts, from the customer's tap to the payment's final status |
| `C2B` | paybill confirmations, from Safaricom's first word to a credit, by itself, by staff or by the customer |
| `ReceiptBook` | the abstract book of receipts both promise: each waits, is given out or is kept, once, and only if Safaricom has the money |
| `StkReceipts`, `C2BReceipts` | the refinement mappings from prompts and from the paybill's tables to the book |
| `RouterQueue` | router changes owed to customers and the attempts at them |
| `CustomerAccount` | every writer of a customer's status, expiry and credit, also staff's edits and deletion |
| `DeviceLogin` | the router logins of one customer's devices, and free trials |
| `RouterAccess` | how a router learns who may go online, by script and push or by RADIUS |
| `RouterHealth` | check-ins of one router, compensation of its outages, the watchdog's view |
| `OpsAlerts` | what the owners of routers are texted |
| `MC...` | the constants of the TLC runs of each |
| `...Proofs` | the theorems about each module and its refinement; `RouterProofs` has those of `RouterQueue` and `RouterAccess`, `RouterHealthProofs` also those of `OpsAlerts` |

The modules meet at named places.  `StkPayment` and `C2B` count what a payment
gives out; `CustomerAccount` says what becomes of it.  Its "active until"
is the plan of `DeviceLogin` (`Pay`, `Lapse`) and the renewals of
`RouterHealth` (`Renew`, `Expire`).  A login of `DeviceLogin` is one of
`RouterAccess`'s (`Grant`, `Retire`).  `RouterHealth`'s check-ins are what
`OpsAlerts` sees as a router up or down (`Becomes`).  They are not composed
into one behaviour, which TLC could not finish; at each place the module
downstream has actions that stand for the other.  Those of `OpsAlerts` and
`RouterAccess` are free: a router goes up and down, and a login is granted,
retired or given another date, at any time.  Two are narrower than what is
upstream.  In `DeviceLogin` a plan is bought or runs out (`Pay`, `Lapse`) and
may change the package, but its date is not moved back nor the customer
deleted, as staff can in `CustomerAccount`; and in `RouterHealth` a customer's
time is renewed or runs out between the statements of a check-in, not edited.

### AgentLedger

A write of the ledger is one READ COMMITTED transaction (`runIdempotent`,
`ledgerTx`): it locks the agent's row (`lockAgent`), looks its idempotency key
up, reads, writes its entries and its key, and commits.  Nothing another
transaction does not see needs a step of its own, so a transaction is modelled
by the steps between which others matter: `StartIssue`, `StartReturn`,
`StartHandover`, `StartAdjustment`, `StartReversal` (the lock, the replay
lookup and the reads), `ClaimVoucher` and `ClaimHolding` (the two row locks a
return takes for each voucher, in the order of the code), and `Commit`, where
everything becomes visible at once.  `LoseKeyRace` is the unique index refusing
the commit, `RefuseReturn` the conditional `UPDATE` that matches no row,
`Abort` any error or crash.  `RedeemLock` and `RedeemCommit` are the
customer's side (`Redeem`, `MarkAgentVoucherSold`).  Variables `agent`,
`voucher`, `holding`, `ledger` and `idem` are the tables; `req` holds what each
running transaction has locked and will write.  Money is in cents, as in the
code, and a voucher's commission is the code's rounding.  All agents belong to
one ISP; scoping by ISP and zone is left out.  Vouchers are single-use, the
kind agents are given.

`AgentAccount` has no transactions: `Take`, `GiveBack`, `Sell`, `Settle` and
`SetLimits` happen one at a time.  `AgentLedgerAccount` maps the tables to it
and states `AccountSpec`: in spite of everything read before the commit, each
issue fits the credit limit or the float when it commits.  The mapping's four
parts have names (`Limits`, `Balances`, `Stock`, `Spent`), which is what the
proof reasons about.

### Payout

A payout is a row of `payouts`; what it pays is a claim in
`payments.payout_id`.  A staff request is modelled by the steps between which
others run: `CreateCheck` (the count of open payouts, before the transaction)
and `CreateCommit`; `SendRead` (the checks before the access token),
`SendTake` (the conditional update to "processing"), `SendPost` (the HTTP
request, with every combination of what Safaricom did and what the reply says)
and the handling of the reply, `SendAccepted`, `SendRejected` (back to
pending) or `SendUnknown` (left for staff).  `Execute` is Safaricom,
`B2BResult` the callback, which may come more than once; `Cancel`, `Fail` and
`MarkPaid` are one conditional update each, whatever the transfer does.  `Crash` ends a request between
any two steps.  `HandleB2BTimeout` and `noteUnknown` write a failure reason and
no status; they are the identity here.  Amounts are exact cents, where the code
has `float64`; a percentage is a whole number of parts of a percent (`Scale` of
them), so that fractions are in it, and the rounding rule is `Price`.  What
binary fractions add to that, which can only tip an exact half of a cent, is
left out.

Two constants stand for what is outside the code.  `SecondApprover` is the
setting of that name.  `StaffWait` says that staff fail a stuck payout, or
mark it paid, only once its fate is known: failed when nothing is on Safaricom's
statement and nothing is on its way, paid when the transfer is on the statement
or they send the money by hand because none can come (`hand`).  The code asks
that of them in words (`services/payout.go:202-205`) and cannot enforce it; its
updates have no such condition, and without `StaffWait` neither has the model.

`Settlement` has no requests, replies, conversations or crashes: `Owe`, `Hold`,
`GiveBack` and `Leave` happen one at a time, and a payout gives back only what
has not left.  `PayoutSettlement` maps `payments.payout_id` to the holder of a
payment and the transfers and manual payments for it to what has left, and
states `SettlesSpec`, which holds under `StaffWait`.

### StkPayment

One element of `Payments` is one tap and the row it may make.  `req` is the
stage of its handler: `Tap` is the lock on the phone number and the search for
an open prompt (`MpesaStkPush`; `HotspotPay` and `CustomerTopUp` have neither,
which `EntryOf` tells apart), `Create` the row, `PushAccepted`, `PushRefused`
and `PushUnanswered` the request to Safaricom, `Store` and `MarkFailed` what
the handler makes of the reply, the second by id and whatever the status.
`Callback` is `HandleCallback`, `Ask` and `Answer` are
`QueryAndUpdateSTKStatus` before and after Safaricom's answer, for the
portal's poll and for a round of `ReconcilePendingSTK`.  `Succeed`, `Underpay`
and `GiveUp` are the conditional updates of `ProcessPaymentSuccess`,
`ProcessUnderpayment` and `ProcessPaymentFailure`.  `prompt` and `notices` are
Safaricom's side.  `Crash` ends every handler and drops every answer.

Time is the age of each row in the classes the code's limits make (3 s, 90 s,
2 min, 150 s, 30 min, 35 min), which `Tick` walks through.  Amounts are "full"
or "less".  `granted` counts how often what a payment buys was given out: what
follows a completion (credit, voucher, router action, expiry) is in
`CustomerAccount`.  What a tap writes to the customer's row or a voucher, and
the choice of the shortcode, are left out.

`trouble`, fixed at the start of a behaviour, names what may go wrong outside
the handlers, so that a property can say which trouble it survives:
`PaidCompletes` assumes that callbacks come whole and not before the checkout
id is stored, `PendingEnds` that the server is not down.  A behaviour is either
one tap and the whole life of its payment, or ("rivals") the taps of one phone
and the first minutes of each (`Room`, `LastAge`): payments meet only at the
lock and at the search for an open prompt.

`ReceiptBook` has no callbacks, queries or retries: `Vouch`, `Wait`, `Give`,
`Keep` and `Name` decide one receipt at a time.  `StkReceipts` maps payments to
it (`FateOf`: a row completed in full and given out once is "given", one
completed for less is "kept"; `Vouched`: the customer confirmed the prompt;
`Named`: the row has M-Pesa's receipt and not a query's placeholder).  A row
completed twice over, or for less and yet given out, is "muddled", which the
book does not know.

### RouterQueue

`action` is the table `pending_router_actions`, with the row's retry time and
`updated_at` reduced to whether the one has come and the other is five minutes
old.  `Enqueue` saves the row and starts its goroutine; `ClaimAtOnce` is that
goroutine's claim, `RunDue` the start of a round of the money job (putting
stale rows back, selecting what is due) and `ClaimNext` its claims, one row
after the other.  `Execute` is the router, which is external, and `Finish` the
write of the outcome.  `Crash` ends all attempts and the round.  An attempt may
last longer than the five minutes after which the job takes its row back, for
the API client has no deadline once it is connected
(`services/mikrotik.go:450`); `overrun` remembers the rows put back under an
attempt, until all attempts at them are over.  The kinds of action are alike to
the queue; a row that cannot be saved is only logged and is left out.

### C2B

`book` is the ledger `c2b_transactions`, where each receipt has one row,
`queue` the unmatched payments, `paid` the receipts on a row of `payments`.  A
request is modelled by the steps between its transactions: `Confirm` (has this
been recorded?), `Insert` (the unique index decides who goes on), `Ask` (the
request to Safaricom, whose reply may be lost although it was asked), `Store`
(the conversation), `Result` and `VerifyTimeout` (Safaricom's answer, which may
come before `Store`, late or twice), `Park`, and for a proven payment `Lookup`
(the match, in which a lookup the database refuses is skipped), `Create` (the
registration of a first-time payer, which commits by itself, so that two
requests register two rows) and `Credit` (the claim of the row and the money or
the queue, in one transaction).  `ResolveRead` and `ResolveCommit`
are staff, `ClaimRead`, `ClaimTake`, `ClaimApply` and `PutBack` the customer
who types a code, which takes the row in one statement and credits in a later
transaction.  `LoadStale` and `ParkStale` are the job.  `StkQuery` and
`StkCallback` are a prompt paid on the same paybill, whose confirmation comes
as C2B too.  `Fail` is an error of the database, `Crash` the server's end.

`Finds` gives what each lookup of the match would find, in the code's order;
names and masked numbers are not spelled out.  `Sound` are the receipts whose
confirmation tells Safaricom's own record: only their answers match
(`OnlySoundMatch`) and only those staff resolve.  `Before` gives each receipt a
past: new, settled, queued or a prompt's.

`C2BReceipts` maps the three tables to `ReceiptBook`.  A receipt waits while it
is in the queue, also while a claim has taken its row and not yet credited it,
so that a claim that fails and puts the row back changes nothing in the book;
it is given once a customer was credited.

### CustomerAccount

`customer` is a row's status, expiry and credit; `task` a request in progress
with the row it read.  Some writers are one conditional `UPDATE` or an update
of the fields they own; others write back what they computed from a row read
earlier, and those have two actions: `VerifyRead`/`VerifySave`,
`PurchaseRead`/`PurchaseCommit`, `ServeRead`/`ServeWrite`, `C2BRead`/
`C2BCredit`, `TrialRead`/`TrialSave`, `UpdateRead`/`UpdateWrite`, `ProfileRead`/
`ProfileExpire`, `MigrateRead`/`MigrateTake`, `VoucherResolve`/`Redeem`.  A
manual payment is five statements without a transaction (`ManualStart` to
`ManualRenew`).  `SweepLoad`/`SweepExpire` act by ids loaded earlier, and the
clean-up (`PurgeLoad`, `PurgeLogs`, `PurgeRows`) deletes the credit logs before
the rows; the statements between are of other tables, and it may die after any
(`PurgeDie`).  Staff write whatever the form lets through: `CustomerStore` any
status, date and credit, `UpdateWrite` and `UpdateExpiry` the fields of the
body, `SetStatus` a suspension, `CustomerDestroy` the whole row.  An `UPDATE`
by id of a row that has been deleted changes nothing (`Update`), and what is
bought for an account that is gone is given to nobody ("stray", `Settle`).

Five ghosts say what a property has to leave out, and so which writers the code
leaves exposed.  `raced` has the rows a second writer changed while another
held them, and customers deleted under a request; `torn` those of a request
that died or failed half-way; `wiped` guests whose logs the clean-up has
deleted and whose rows it has not; `typed` customers who have time left and to
whom staff gave a status that says otherwise.  `unlogged` is credit that moved without
a log: what paybill money spent on a plan, and what staff typed over a balance.
Staff type no negative balance, which the form would take.  There is one
package of one unit of time.

A behaviour is about one of `Scenes`: which operations meet, at whose account.
The run has thirty; the theorems hold for any.

`MovedNotCopied` counts time in units: those each customer has, and those a
sign-in is about to write for them.  It is about the scenes in which nothing
but the sign-ins gives a guest time (`Renewals`); the others break it, see
below.

### RouterHealth

The unit of time is the five minutes after which a router counts as offline.
`CheckIn` is the read of the zone, `Record` the conditional update of
`last_seen_at` that only one check-in of an outage wins, or which the database
refuses and the handler passes over, `Resolve` the alerts and the load of the
customers, `Give` the extension of one of them (by the expiry that was read)
and `Settle` the outage's row.  `WatchLoad`, `WatchMark` and `WatchAlert` are
the watchdog: the zone it loads, the status it writes, the alert it then opens
or closes.  `given` is the time each customer got, `torn` the outages whose
check-in a crash cut short.  A request reads and records within one unit.

### OpsAlerts

A sweep is `Load`, then `FirstSight`, `NoChange` or `Claim` and `Note` for each
zone, `Summary`, `MarkSummed`, and `Text` or `Pass` and `Remember`: the order
of `Sweep`, with a crash possible between any two writes.  Dates are kept as
ages, no further than the comparisons look (`Older`).  `told` is the last word
that reached the owner, `torn` the zones whose text went out and was not
remembered.  A text may fail (`Send`).  The quiet hours go round midnight, as
`InQuietHours` tests them (`Quiet`); that a night is no shorter than the flap
window is in `AlertsAssumption`, as it is in the code: seven hours and two.

### DeviceLogin

`cred` are the logins, `token` those with a device token, `ticket` those with
an unused ticket.  `plan` numbers the plans the customer buys, and with it the
package, which allows `LimitOf[plan]` devices.  A request proves itself
(`Prove`, `HotspotStatus`, `CustomerRecoverByReceipt`, `Reconnect`,
`Recognise`, `FetchByToken`, `FetchByTicket`); then `Begin` is the snapshot its
transaction reads (REPEATABLE READ) and `Write` its end.  Only `MoveCredential`
locks the customer (`locks`); `met` are the devices that others granted while a
transaction was open.  `Issue` makes the tokens in a transaction of their own.
`Expire`, `Read`, `Follow` and `Count` are the reconciler, which moves every
active login on to the new plan, whatever its limit (`Followed`).  `TakeTrial`
and `ClaimTrial` are the free trial; its mutex is that of one process
(`TrialFree`), of which there may be several (`Servers`), and the claim's
insert may fail unseen.  `lost` counts, for a device and a phone, the claims
that were not written, or not before another server's check.  A behaviour is
about two requests ("rivals"), one request and the passing of time ("rounds")
or trials.

### RouterAccess

A behaviour is about one of two ways.  On "script", `Generate`, `Stamp` and
`Import` or `Lose` are the minute's script, written from the logins, counted as
sent, and imported or lost; `PushStart`, `PushRemove`, `PushAdd`, `PushFail`
are a login pushed to the router, which has no deadline and may end after any
number of scripts.  `age` is what `syncWindow` looks at: the minutes between a
login's change and the zone's last script.  A router may be silent for longer
than a minute; a change before the silence is then in the next script only
(`quiet` in `Stamp`).  `missed` has the logins whose last change no script to
come repairs: that one script was lost, or a push of the older login ended when
no more than `MaxLost` scripts with the change were left.

On "radius", `Pick`, `ReadCustomers`, `ReadAccounts` and `WriteZone` are
`SyncZone`, for the reconciler and for a platform request, `PaySync` and
`WriteCustomer` the sync after a payment, `Enable`, `Disable`, `ClearZone` and
`Leave` the platform requests, of which several run at once (`Admins`).
`Undone` is a transaction that fails: a sync ends there, but a zone whose rows
were not cleared leaves all the same.  `Enable` goes on to its sync also when
the write of the mode failed.  `late` says that rows were there, or being
written, when the zone left RADIUS.  Assumed of the outside: at most `MaxLost`
imports fail in a row, `MaxLost` + 2 being no more than `Window`, the ten
minutes a change stays in the script.

## Runs

Deadlock checking is off in every run: a system whose keys, ids or
conversations are used up has stopped because of the bound.

| Run | Bounds | Shows |
|---|---|---|
| `stock` | 1 agent, 2 vouchers, 3 keys, 2 requests, commission profiles and 2 faces such that a commission is cut to the face and one is not, batches of up to 2 | `VoucherBooks`, `CashDueReconciles` over issues, partial and whole returns, sales and profile changes; `WaitsAreShort` and `EveryRequestEnds`: with the lock order of returns and redemptions no one waits for ever |
| `money` | 2 agents, 1 voucher, 4 keys, 2 requests, one profile, handovers, adjustments up and down, a receipt code | `ReversalsExact`, `KeysSpentOnce` and `AccountSpec`, the refinement |
| `payout_life` | 1 ISP, 2 payments, 2 payouts, 2 conversations, 2 requests, 2 staff, 7.5 per cent | `ClaimsExact`, `NeverSentTwice`, `AcceptedSettles` and `SettlesSpec`, the refinement of `Settlement` |
| `payout_twice` | the same, `StaffWait = FALSE` | a violation: failing a payout too early pays twice |
| `stk_life` | four taps (two of one phone), poll and reconciler, four sets of troubles that contain every combination the properties tell apart | `GrantedOncePaid`, `PatientWithPrompt`, `OneOpenPrompt`, `PaidCompletes`, `PendingEnds` and `StkReceiptSpec`, the refinement of `ReceiptBook` |
| `router_life` | 2 actions, 2 retries, rounds of 1, 2 crashes, attempts of any length | `HonestRows`, `EndedStays`, `EveryActionEnds` |
| `c2b_books` | a sound receipt with any past and one that is not sound, 3 customers of 2 ISPs, two rows a payer may be registered as, 2 handlers | `CreditedOnce`, `BooksAgree`, `ResolvedGivenOut`, `Decided` and `C2BReceiptSpec`, the refinement of `ReceiptBook` |
| `account_life` | 2 customers of one phone number, a guest and a trial account, a plan, a top-up and a short payment, thirty scenes of two operations that write one row, 2 handlers, 3 requests, 4 units of time | `BalanceReconciles`, `PaidTimeKept`, `CompletedIsServed`, `NothingShortens`, `MovedNotCopied`, `ExpiryComes` |
| `health_life` | a paying customer, 2 check-ins at once, outages of over 2 units, a cap of 3, 6 units of time, 2 renewals, one crash | `NeverMoreThanLost`, `StatusSettles` |
| `alerts_life` | one zone, a day of four hours, two of them quiet, a flap window as long, every limit above and below its comparison, one crash | `DownTextsApart`, `LastWord` |
| `device_life` | 2 devices, a package for both and then one for a single device, a phone, 2 requests, 2 servers, 3 trials, one crash | `AtMostLimit`, `TrialOnce`, `FollowsPlan` |
| `access_life` | one login, both ways, a window of 3 minutes, one script lost in a row, 2 dates, 2 pushes of any length, 2 platform requests at once, 2 switches, a payment's sync, one crash | `LeftIsEmpty`, `AccessFollows` |

Why the bounds are enough: every hazard is a race of two requests, or of one
request and an outside event, on one or two rows; the interesting amounts are
those on either side of a limit.  A third request adds waiting, not a new pair
of overlapping reads and writes.  A batch of two is needed for a partial
return, a third key for an issue, a return and another issue or return.
A second payout is needed to claim again what the first released, a second
conversation to send it again.  Payments of different taps meet only at the
lock and the check for an open prompt.  Router actions share the job, which
serves them in order: two show one waiting behind the other; one retry reaches
both ends of the list of waits (the code has seven), and a round of one action
shows what the limit of 50 leaves for the next round.  Receipts meet only at
the customers a match registers.  Operations on accounts meet on one row, so a
scene is a pair of them; a third request is a renewal after the race.  Outages,
texts and logins of different zones do not meet, but for the summary, which
takes each zone's alerts alike.  With a limit of one login two devices already
compete for it, and a renewal from a limit of two leaves one too many.  Six
units of time hold two outages of a router, which are three units each.  Two
switches put a zone on RADIUS and off it, by one request or by two that
overlap.  The theorems do not have these bounds.

In `money` keys and requests are symmetric, in `payout_twice` requests, staff
and conversations: no definition tells one from another.  Voucher and payout
ids are ordered and are not permuted.  Runs with liveness use no symmetry.

## Fairness

`FairSpec` of `AgentLedger` assumes strong fairness of each request's next
step: a handler that can proceed does, and InnoDB grants a row lock in the
order of the requests for it, so that a waiting transaction is not passed for
ever.  It makes no assumption about clients.  `Payout` assumes weak fairness
of what the server does next with a request (the HTTP client has a timeout),
of Safaricom executing what it queued, and of its result being delivered at
least once.  It assumes nothing of the staff: `AcceptedSettles` needs nobody's
help.  A crash (`Crash`) disables what it interrupts, so it may happen under
these assumptions.

`FairSpec` of `StkPayment` assumes that handlers go on (every HTTP call has a
timeout), that time passes, that the reconciler asks about a payment in its
window, and that Safaricom delivers a callback at a time when the checkout id
is stored, unless `trouble` lets callbacks be lost.  It does not assume that
customers pay or polls are made.  The reconciler's part of it holds while the
job's goroutine runs: the same goroutine serves the router queue one action at
a time, so a router that hangs, or hundreds of payments (a round takes 100),
can make the reconciler miss the five minutes in which it closes a payment.
That is the trouble "outage", under which only safety is claimed.

`FairSpec` of `RouterQueue` assumes that started goroutines run, that the
ticker fires, that time passes and that an attempt ends, after whatever time.
It does not assume that the router ever succeeds.

`C2B` assumes weak fairness of the job's load and of ten minutes passing, and
strong fairness of each row's turn in a round, which crashes cut short: the
rows are taken in order, and a server that keeps running gets to each.  It
assumes nothing of Safaricom, staff or customers.

`CustomerAccount` assumes that the watchdog's rounds go on.  `RouterHealth`
assumes the same and that check-ins end.  `OpsAlerts` assumes that a sweep
ends, that one is started by day again and again, and that the clock goes on;
both are strong because texts may be switched and routers may flap between
any two steps.  `DeviceLogin` assumes only the reconciler: `FollowsPlan`
survives requests that hang.  `RouterAccess` assumes that scripts are asked
for, that rounds, payments' syncs and platform requests go on, that the
reconciler's transaction does not fail for ever (strong fairness of its
`WriteZone`), and that the status of a login whose time is up is written
(`TimeUp`, by `DeviceLogin`'s reconciler).  It does not assume that pushes end.

## Proofs

The assumptions are types of the constants and that `None` and the like are
not among the values they stand in for, and a few more.  `C2B` takes
`OnlySoundMatch`, that Safaricom's record never confirms a confirmation that is
not its own, and that a payment recorded before the ledger was sound.
`DeviceLogin` takes the devices to be finitely many and no device to be a
phone.  `AgentLedger` takes the vouchers to be finitely many, as rows of a
table are, and `CustomerAccount` the customers and the requests at work, so
that counts and sums of them mean something.  `OpsAlerts` takes a night to last
at least the flap window.  `RouterAccess`'s assumption on `MaxLost` is not used.  TLC
evaluates all of them in every run.

`AgentLedgerProofs`: `IInv` is the conjunction of the type invariant,
`VoucherBooks`, `ReversalsExact`, `KeysSpentOnce` and `RequestsOK`.  The last
is what makes it inductive: it says what a running transaction knows because
of the locks it holds.  The rows a return or a redemption has locked are still
unused, so no one else depletes or voids them before it commits; the vouchers
an issue is creating exist for no one else; two transactions hold disjoint
rows; entries waiting to be committed carry their own key, agent and type.
Theorems: `TypeCorrect`, `VoucherBooksHold`, `ReversalsHold`, `KeysHold`.

The same module goes on to money.  That cash due reconciles compares a sum over
the ledger's entries with one over the vouchers an agent holds, and a sum's
recursive definition says nothing of what changing one entry does to it.  The
lemmas on sums (`SumApart`, `SumSame`, `SumOne` and the like) prove that,
once, by well-founded induction over the subsets of a finite set, which needs
no operator as a parameter.  `MoneyInv` adds to `IInv` that the ledger is
finite; `Alone`, that at most one transaction holds an agent's row, so that an
agent's sum moves by one transaction's entries at a time; `StockPaid`, that the
entries of what an agent still holds are worth what the agent owes for it; and
`MoneyOK`, that what a running issue is going to write is worth exactly the
vouchers it makes and within the limit (`ChargeOK`), and what a return has added
up so far exactly the vouchers it has locked (`CreditOK`).  Theorems: `MoneyInductive`, `CashReconciles`.

`Implements` is the refinement, step by step: each `Commit` is one `Take`,
`GiveBack` or `Settle` of the abstract account, a `RedeemCommit` a `Sell`, a
profile update a `SetLimits`, and all else leaves balances and stocks alone.  An
issue was checked against a balance read under the agent's lock; `ChargeOK`
holds at its commit because, by `Alone`, nobody else moved that balance.

`NoChainOfWaits` is the safety part of `EveryRequestEnds`.  `WaitsFor` is who
holds the row a request needs next (a request that waits for its first lock, the
agent's row or a redemption's voucher, holds none and can be left out).  Two
returns never compete for a voucher, because each returns what its own agent
holds and `Alone` keeps two requests of one agent apart; and a row of
`agent_vouchers` is held only by who has the voucher's row.  So a return waits
at most for a redemption, and that for nobody: the order of the two locks, and
not the order of the vouchers, is what rules a deadlock out.

`PayoutProofs`: `IInv` adds to the properties three facts.  `RequestsOK`: a
request in one of the stages after `SendTake` is the only one for its payout,
and before its reply there is no transfer for it.  `TransfersOK`: a payout has
at most one transfer ever and is not pending once it has one, which is why a
retry is safe.  `MoneyHeld`: under `StaffWait` a payout whose transfer may
still be paid has not been released, so no other payout can claim its
payments.  From these follow `ClaimsHold`, `RetriesAreSafe`, `TwoPeopleHold`,
`NeverTwice` (which assumes `StaffWait`) and `SettledHolds`, that a settled
payout keeps its status and its payments.  `PriceSplits` proves the arithmetic
of `Price` for every amount and every percentage in parts of a percent, however
small the parts: the commission is the share of the gross to the nearest cent.

`ImplementsSettlement` is the refinement, under `StaffWait`.  Lemma `Carried`
says what the invariant knows of money that has left: the payout that carried
it is the only one and still holds the payment.  So a transfer that is executed
finds nothing else to have left for its payout's payments, a `Leave`
(`LeaveSettlement`); a result, or staff, that fails or cancels a payout finds
that nothing has left, a `GiveBack` (`ReleaseSettlement`); `CreateCommit` is a
`Hold`, and all else stutters.

`StkPaymentProofs`: `IInv` adds three facts.  `LifeOK` ties a row to its
handler: it is pending while the handler runs and has a checkout id only once
it is done, so the handler's write by id can only meet a pending payment.
`AnswersOK`: an answer on its way was true when given and stays true, because
outcomes are final at Safaricom; that is why an old answer does no harm.
`LockOK`: while a tap holds its phone's lock, no other tap of the phone does
and no recent prompt of it is open.  `Outcome` says once what any of the
handlers may do to a row, and each handler is shown to be one.  Theorems:
`TypeCorrect`, `GrantedOnce`, `Patient`, `OnePrompt` and `Completed`, that a
completed payment stays as it is but for its receipt.

`ImplementsBook` is the refinement of `ReceiptBook`.  For it `LifeOK` also
follows the receipt: a row that is not completed has none, and one completed
for less has M-Pesa's own.  `OutcomeBook` shows once that what a handler may do
to a row is a `Give`, a `Keep`, a `Name` or a stutter; that the answer it acts
on was true (`AnswersOK`) is what makes the receipt vouched for.  The
customer's confirmation is a `Vouch` (`CustomerBook`).

`RouterProofs`: for `RouterQueue`, `IInv` adds `CountsOK` (a row's attempts never
exceed the failures the router has seen, and a claimed or waiting row still has
one left) and `Exclusive`: a row someone works on, unless it was put back under an
attempt five minutes old (`overrun`), is running, and nobody else works on it.
Theorems: `TypeCorrect`, `Honest`, `OneAtATime` and `EndedForGood`, for every
queue and attempts of any length; the last two say themselves which rows they
leave out.
`RouterAccess` comes in as the instance `Access` with its own constants and
variables, and its theorems have its assumption as a hypothesis.  `LeftOK` says
who can still write rows: off RADIUS, and with nothing late as the zone left,
nobody is about to write any, however many platform requests overlap.
Theorems: `AccessTypesHold` and `LeftStaysEmpty`, which is the run's
`LeftIsEmpty`.

`C2BProofs`: `IInv` is a conjunction over receipts (`ReceiptOK`), and lemma
`Elsewhere` shows once that a step about one receipt leaves the others' part
alone.  It adds to the properties: a claim at its second write is alone with
its receipt and has not credited (`ClaimApart`); whatever gets as far as a
credit is vouched for (`VouchedFor`); a confirmation that found nothing
recorded still finds nothing when it inserts the row, because all that could
have been recorded meanwhile needs that row (`NewBelow`); what is open or
waiting has not been given out (`GivenOnce`).  Theorems: `TypesHold`,
`GivesOutOnce`, `TablesAgree`, `ResolvedAccounted` and `NotDecidedAgain`, that
a decided row is not decided again.  None depends on whom the match finds, or
on how often a payer is registered.

`ImplementsBook` is the refinement of `ReceiptBook`.  `Park` and a
credit that matches nobody are a `Wait` (`WaitBook`); the three ways to a
credit are one `Give` (`GiveBook`), whose guard is `GivenOnce` and `VouchedFor`;
a prompt's callback only ever adds a `Name`.

`CustomerAccountProofs`: the invariant has a part for each promise, each of
them with the exemptions of the ghosts above.  `RowsOK`: a deleted row is
empty.  `TasksOK`: the copy a request holds is fit for what the
request will write, whatever became of the row (`CopyOK`), and unless the
customer is in `raced` it still agrees with the row (`FreshOK`).
`LoopsOK`: what the sweep has loaded is overdue and what the clean-up has
loaded is abandoned, for customers not in `raced`.  `BooksOK` counts, by
cardinality, the requests that have changed a balance and not yet logged it:
balance and log differ by exactly those, and not at all when there are none.
`ServedOK`: a completed payment has its request, or the request died.  `Longer`
says once which writes may lower an expiry.  Theorems: `Inductive`,
`TypesHold`, `BalanceHolds`, `TimeKept`, `Served`, `TimeNotShortened`.

`PlansMoved` needs one more fact, `TakesOK`: where nothing else gives a guest
time, the plan a sign-in has read, if it is still active when the sign-in ends
it, is the plan that was read.  So of several sign-ins at one guest one takes
the plan and the others find it over (`Movable`).  `MoveStep` and `Exchange`
then count: a unit of time that the customer gains is one the guest loses, and
every other sign-in step only writes a row of its own (`OwnRowStep`).

`RouterHealthProofs`: what makes compensation exact is that outages are ordered
in time.  `CheckInsOK` and `OutagesOver` say that all that was or is being
compensated ended no later than `last_seen_at`, where the next outage can only
begin, `InOrder` that any two are apart.  `GivenOK` follows the time given: what a customer got is
no more than the number of units of time in the outages a check-in has given
for (`Spans`), a set that grows by the whole of each new one because they are
apart.
Theorems: `TypesHold`, `OutagesOnce`, `NotOverpaid`.

`OpsAlerts` comes into the same module as the instance `Alerts`.  A "down" text
between the sweep's own texts is held back by the date the state keeps; the
morning summary looks at no date, and is apart from the texts of the evening
because of the night.  `NightOK` says that in the night the last text is as
old as the night so far, or as the window; `HeldOK` that by day what is still
held has no text after it, and that nothing is held once the texts of a sweep
begin; `DatesOK` that the date kept is no older than the text, but while a text
is on its way or was lost to a crash.  Theorem: `DownTextsHeldApart`, which is
the run's `DownTextsApart`.

`DeviceLoginProofs`: `SeenOK` is about what a transaction has read.  A row it
saw is still there, an active login it did not see was granted meanwhile
(`met`), and of those that lock the customer one is open; so a grant that keeps
one less than the limit of the logins it saw leaves no more than that and what
it met.  `TrialsOK`: a trial given has its claim, is about to have it, or
counts as lost.  Theorems: `TypesHold`,
`LimitHolds` (with the library's facts on cardinality), `TrialsHold`.

Only model-checked are: the liveness properties (`EveryRequestEnds`,
`AcceptedSettles`, `PaidCompletes`, `PendingEnds`, `EveryActionEnds`,
`Decided`, `ExpiryComes`, `StatusSettles`, `LastWord`, `FollowsPlan`,
`AccessFollows`), which the prover cannot reason about, and the violation,
which is a behaviour TLC finds.  `LeftIsEmpty` and `DownTextsApart` are proved
of an instance of their modules.

The other way round, `RetryIsSafe`, `TwoPeople`, `SettledStays`,
`CompletedStays` and `DecidedStays` are proved and in no run;
what the three `...Stays` say of the money is also part of the refinements,
which the runs check.

## What disagrees with the code's own words

`payout_twice` is a run that TLC must find violated; `PROJECT.json` quotes the
sentence: `Fail` is allowed while a transfer is on its way.

These are visible in the models and have no run:

- `handlers/mpesa.go:60-62` promises one prompt per phone and device.  The lock
  is by phone number only, so taps of two numbers on one device both pass the
  check; and a prompt whose push got no reply (`handlers/mpesa.go:174`) has no
  checkout id and is not known to the next tap.
- The count of open payouts (`services/payout.go:128`) is outside the
  transaction: two creations can both find none, although
  `handlers/payouts_test.go:144` requires the second to be refused; they share
  no payment (`ClaimsExact`).
- `handlers/platform_payouts.go:196` says of a payout "It completes when
  Safaricom confirms."  A result handled before the conversation id is stored
  (`services/payout.go:453`) is acknowledged and lost; the payout stays
  "processing" until staff settle it.  `AcceptedSettles` is about the others.
- `services/agent_ledger.go:553-554` says that an M-Pesa code already recorded
  for the ISP is refused.  It is looked up under the lock of one agent (`:570`),
  and an issue paid upfront stores one without a lookup (`:355`): two agents
  can record one code.
- The agent's statement reads its opening balance, its lines and its closing
  balance in three queries (`services/agent_ledger.go:787`): for a period that
  has not ended, an entry committed in between makes it fail as not
  reconciling, although the ledger does (not modelled).
- `services/mpesa.go:1335-1336` says that the callback or the reconciler still
  completes a payment that was failed as unresolved and is paid later.  The
  reconciler loads pending payments only (`services/money_jobs.go:73`): if the
  callback is lost, nothing asks again.
- `services/mpesa.go:757-758` says that a short payment does not get the
  package.  A status query has no amount and completes it in full (`:1321`).
- `handlers/c2b_match.go:128-132` counts on a prompt's receipt to recognise its
  paybill confirmation.  If the confirmation is handled before the callback
  has brought the receipt (also while a query's placeholder stands for it), the
  payment is given out as both.
- `services/credit.go:8-10` says that two requests cannot overwrite each
  other's balance.  `VerifyOtp` saves the whole row, and a purchase with credit
  writes a balance computed earlier: `raced` in `CustomerAccount`.
- `handlers/vouchers.go:178` says of a second voucher "time stacks on it".
  `RedeemVoucher` sets the expiry to a plan's length from now, whatever time is
  left (`services/voucher.go`): `Redeem` in `CustomerAccount`, which
  `NothingShortens` has to leave out.
- `services/router_actions.go:82-84` says that the immediate attempt and the
  job can never both work on the same action.  An attempt that hangs for five
  minutes is put back and tried again while it runs (`overrun` in
  `RouterQueue`).
- `services/radius.go:442` says of the reconciler "Only zones with
  auth_mode=radius are touched".  `SyncZone` never looks at the mode again: a
  round that took the zone before it left writes its rows afterwards (`late` in
  `RouterAccess`).
- `handlers/mpesa.go:468-471` says that a payment to an ISP's own shortcode can
  match only that ISP's customers.  If the database refuses the read of the
  shortcode's owner, `OrgForShortcode` says "not an ISP's", and the match is
  over all customers (`Lookup` in `C2B`).
- `services/watchdog.go:166` creates an alert some statements after it has set
  the zone offline: a check-in in between closes no alert, and this one stays
  open until the end of the next outage (`WatchMark`, `Record`, `Resolve`,
  `WatchAlert` in `RouterHealth`).
- `models/ops_alert.go:31` and `services/ops_alerts.go:25` promise "back
  online" only after a "down" text; a recovery is also texted when the "down"
  text failed, or when an outage of over a day was passed over silently.
- `handlers/platform_invoices.go:14-19` says that a period is never billed
  twice.  It counts and then creates, without a transaction or a unique index
  (`models/platform_invoice.go`): the monthly command and a click at the same
  time bill twice (not modelled).
- `services/expiry_reminder.go:93` speaks of preventing duplicates; the log is
  searched from midnight on, so a plan that ends more than a few hours into
  the day is announced as ending in 24 hours on two days (not modelled).

`NeverTwice` and `ImplementsSettlement` have a hypothesis the code does not
enforce: that staff wait (`payout_twice` shows what happens otherwise).

What the models of accounts and logins show besides, without a sentence that
denies it:

- Signing in by code lifts a suspension by staff, because status follows the
  expiry date.
- A customer registered for a payment or a voucher is active with no expiry
  date before the time is given; if the request dies there, or the voucher was
  used meanwhile, the sweep never expires them.
- Manual renewals count from now, whatever time is left.
- An edit can set a customer with time left to expired, take time away, or
  change a balance without a log; and an edit of a row that has run out, which
  says "active", gives a plan for nothing.
- The clean-up deletes a guest's credit logs before the row; if it stops in
  between, the balance stands without them.
- A trial's claim whose insert fails leaves the trial given and to be had again.
- A renewal from a package for several devices to one for a single device keeps
  all logins: the reconciler moves them to the new plan, and only the next
  grant looks at the limit.
- Two payments of one first-time payer at once, or one that is answered for
  twice, can register the payer twice; the number is ambiguous from then on.
- The clean-up deletes a suspended guest with time left.
- A sign-in ends a guest's plan if its status is still active, and moves the
  time it read.  If the plan was moved by another phone and the guest renewed
  in between, time is copied or lost.
- In `EnsureCredential` the transaction that finds a device's row made
  meanwhile cannot read it under REPEATABLE READ, so the grant fails.
- The reconciler expires logins before it follows renewals: a second device of
  a customer who renewed in the last minute loses its login until it asks
  again.
- Tokens issued after a concurrent request retired the login belong to a
  revoked one.
- A zone that leaves RADIUS while a round, a payment's sync or another platform
  request runs, or when its rows cannot be cleared, keeps rows until their
  expiry date.
- A push that hangs until the change it was overtaken by has left the window
  puts the old login back on the router, and no script mends it.
- A script counts as delivered when it is sent (`CredentialReady`), not when it
  is imported.

## Plan

Order: `AgentLedger` and `Payout` first, because they move the ISPs' own
money; then the customers' payments (`StkPayment`, `C2B`, `RouterQueue`); then
what a payment turns on (`CustomerAccount`, `DeviceLogin`, `RouterAccess`);
then what happens to a router (`RouterHealth`, `OpsAlerts`).  All of these are
written.  Left:

1. Expiry reminders and invoices.
2. Agent reports (summaries and statements over several reads).
3. Pure algorithms: the matching of references and masked phone numbers, the
   classification of B2B replies.

## Not modelled

Generated router scripts, the read-only MikroTik calls, SMS and e-mail
providers, portal pages, reports, live views and log queries are text and I/O
without state of their own.  CRUD handlers write one row.  Authentication and
tenancy are per-request checks, except the two-person rule.  Start-up
back-fills run once, before requests are served.

PPPoE is left out because it has no protocol to speak of: each change is one
call that is not retried.  Read from the code: a renewal by prompt or by credit
never enables a disabled secret again; decommissioning names the secret by
`PPPoEUsername` or the account number, while pushes and reactivation use
`PPPoEUsername` or the name; the watchdog ignores its error
(`services/watchdog.go:102`) and starts it in a goroutine, which may come after
a renewal.

Speeds, router profiles and sessions are left out of `RouterAccess`, the age of
tokens and other ISPs' customers of `DeviceLogin`, multi-use vouchers of
`AgentLedger` and `CustomerAccount`.
