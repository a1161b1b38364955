----------------------------- MODULE DeviceLogin -----------------------------
(***************************************************************************)
(* The router logins of one customer's devices (services/                  *)
(* hotspot_credentials.go, handlers/router_login.go, the sign-ins of       *)
(* handlers/customer_auth.go) and the free trial.  A request proves itself *)
(* with a session, a device token or a one-time ticket; its transaction    *)
(* gives the device it comes from a login and retires others, and tokens   *)
(* are made afterwards, in a transaction of their own.  The watchdog's     *)
(* reconciler keeps the logins in step with the plan.  A transaction reads *)
(* the state it began with and writes at its end; only MoveCredential      *)
(* locks the customer.  A plan is the number of its expiry date and stands *)
(* for the package bought, which allows LimitOf[plan] devices.  A          *)
(* behaviour is about one scene: two requests at a time ("rivals"), one    *)
(* request and the passing of time ("rounds"), or trials ("trials").  How  *)
(* a login gets to the router is in RouterAccess; names and passwords are  *)
(* left out.                                                               *)
(***************************************************************************)
EXTENDS Integers, FiniteSets

CONSTANTS
  Macs,
  AccountMac, \* the one on the customer's row
  LimitOf,    \* the device_limit of the package each plan is of
  Phones,     \* a trial may name one
  Handlers,   \* request goroutines
  Servers,    \* processes, each with a trialMu of its own
  Job,        \* the watchdog's goroutine
  None,
  Scenes,     \* those checked
  MaxPlans,   \* bound
  MaxTrials,  \* bound
  MaxCrashes  \* bound

ASSUME DeviceAssumption ==
  /\ IsFiniteSet(Macs) /\ Macs \cap Phones = {}
  /\ AccountMac \in Macs /\ LimitOf \in [1..MaxPlans -> Nat \ {0}]
  /\ Job \notin Handlers /\ None \notin Macs \cup Phones \cup Servers
  /\ Scenes \subseteq {"rivals", "rounds", "trials"}
  /\ MaxPlans \in Nat /\ MaxTrials \in Nat /\ MaxCrashes \in Nat

Workers == Handlers \cup {Job}

VARIABLES
  scene,
  plan,     \* the customer's expires_at
  over,     \* the last expiry date that is past
  changed,  \* the next round looks at the customer
  cred,     \* hotspot_credentials
  token,    \* logins with a device token
  ticket,   \* logins with a ticket not used yet
  work,     \* what each goroutine is at
  claims,   \* free_trial_claims of the last period
  crashes,
  trials,   \* trials given to each device and phone
  lost      \* times its claim was not written, or not before the next check

vars == <<scene, plan, over, changed, cred, token, ticket, work, claims, crashes,
          trials, lost>>

-----------------------------------------------------------------------------
Statuses == {"active", "expired", "revoked"}
NoLogin == [status |-> "none", until |-> 0]
Idle == [at |-> "idle", mac |-> None, from |-> None, locks |-> FALSE, gives |-> {},
         paid |-> 0, seen |-> [m \in Macs |-> "none"], met |-> {}, phone |-> None,
         server |-> None]

\* What IssueRouterLogin makes.
Both == {"ticket", "device"}

Paid == plan > over
Active(c) == {m \in Macs : c[m].status = "active"}
SeenActive(w) == {m \in Macs : work[w].seen[m] = "active"}
Usable(m) == cred[m].status = "active" /\ cred[m].until > over

InTx(w) == work[w].at = "write"

\* Mutant: the customer's row is not locked.
UnlockedAlways(w) == TRUE
Unlocked(w) == \A v \in Workers : InTx(v) => ~work[v].locks

\* Mutant: the devices beyond the limit keep their logins.
SurplusNone(w) == {{}}
\* The logins a grant may retire: all but limit - 1 of the other active ones;
\* the least recently used go, here any.
Surplus(w) ==
  LET others == SeenActive(w) \ {work[w].mac, work[w].from}
      n == Cardinality(others)
  IN IF n < LimitOf[work[w].paid] THEN {{}}
     ELSE {S \in SUBSET others : Cardinality(S) = n - (LimitOf[work[w].paid] - 1)}

\* The proof's own login, when the device has shown up with another MAC.
Replaced(w) == ({work[w].from} \cap SeenActive(w)) \ {work[w].mac}

\* What the device's row becomes; a row seen active keeps its status.
Granted(w) ==
  LET m == work[w].mac IN
  [status |-> IF work[w].seen[m] = "active" THEN cred[m].status ELSE "active",
   until |-> work[w].paid]

\* retireCredentials deletes the tokens with the login.
Forgotten(gone) == gone

\* Mutant: only the phone is looked up.
TriedPhone(m, p) == \E c \in claims : p # None /\ c.phone = p
\* One trial per device and per phone.
Tried(m, p) == \E c \in claims : c.mac = m \/ (p # None /\ c.phone = p)

Customer == <<scene, plan, over, changed>>
Logins == <<cred, token, ticket>>
Trials == <<claims, trials, lost>>

-----------------------------------------------------------------------------
Init ==
  /\ scene \in Scenes
  /\ plan = 0 /\ over = 0 /\ changed = FALSE
  /\ cred = [m \in Macs |-> NoLogin] /\ token = {} /\ ticket = {}
  /\ work = [w \in Workers |-> Idle] /\ claims = {} /\ crashes = 0
  /\ trials = [x \in Macs \cup Phones |-> 0] /\ lost = trials

Start(w, r) ==
  /\ work[w] = Idle /\ work' = [work EXCEPT ![w] = r]
  /\ scene = "rounds" => w \in {Job, CHOOSE h \in Handlers : TRUE}

\* grantRouterLogin moves, if the request names its zone.
Grant(h, m, inZone) ==
  /\ Start(h, [Idle EXCEPT !.at = "begin", !.mac = m, !.locks = inZone, !.gives = Both])
  /\ UNCHANGED <<Customer, Logins, Trials, crashes>>

\* A code sent to the phone, or a purchase with credit or voucher, proves it ...
Prove(h, m) == \E inZone \in BOOLEAN : Grant(h, m, inZone)

\* ... the poll of a payment started on the device, or ...
HotspotStatus(h, m) == Grant(h, m, TRUE)

\* ... the M-Pesa code of one.
CustomerRecoverByReceipt(h, m) == Grant(h, m, TRUE)

\* CustomerReconnect of a device with the token of login k, or, without one, with
\* a session proven before.
Reconnect(h, k, m) ==
  /\ k \in token \cup {None} /\ Paid
  /\ Start(h, [Idle EXCEPT !.at = "begin", !.mac = m, !.from = IF k = m THEN None ELSE k,
                           !.locks = TRUE, !.gives = Both])
  /\ UNCHANGED <<Customer, Logins, Trials, crashes>>

\* CustomerAuthByDevice: the same MAC only renews its login.
Recognise(h, k, m) ==
  /\ k \in token /\ Paid
  /\ Start(h, [Idle EXCEPT !.at = "begin", !.mac = m, !.from = IF k = m THEN None ELSE k,
                           !.locks = k # m,
                           !.gives = IF k = m THEN {"ticket"} ELSE Both])
  /\ UNCHANGED <<Customer, Logins, Trials, crashes>>

\* HotspotCredentials with a device token: another MAC moves the login, a
\* login that is not current is renewed.
FetchByToken(h, k, m) ==
  /\ k \in token
  /\ \/ k # m /\ Start(h, [Idle EXCEPT !.at = "begin", !.mac = m, !.from = k,
                                       !.locks = TRUE, !.gives = Both])
     \/ k = m /\ ~Usable(k) /\ Start(h, [Idle EXCEPT !.at = "begin", !.mac = k])
  /\ UNCHANGED <<Customer, Logins, Trials, crashes>>

\* HotspotCredentials with a ticket, which is used up whatever the MAC.
FetchByTicket(h, k, m) ==
  /\ k \in ticket /\ ticket' = ticket \ {k}
  /\ IF k = m /\ ~Usable(k) THEN Start(h, [Idle EXCEPT !.at = "begin", !.mac = k])
     ELSE UNCHANGED work
  /\ UNCHANGED <<Customer, cred, token, Trials, crashes>>

\* MoveCredential and EnsureCredential: the state the transaction reads ...
Begin(w) ==
  /\ work[w].at = "begin" /\ (work[w].locks => Unlocked(w))
  /\ work' = [work EXCEPT ![w] = IF ~Paid THEN Idle
                                 ELSE [@ EXCEPT !.at = "write", !.paid = plan,
                                          !.seen = [m \in Macs |-> cred[m].status]]]
  /\ UNCHANGED <<Customer, Logins, Trials, crashes>>

\* A row for the device made meanwhile fails it.
Clash(w) == work[w].seen[work[w].mac] = "none" /\ cred[work[w].mac].status # "none"

\* ... and what it writes.
Write(w) ==
  /\ InTx(w)
  /\ LET m == work[w].mac IN
     IF Clash(w)
       THEN work' = [work EXCEPT ![w] = Idle] /\ UNCHANGED Logins
       ELSE \E surplus \in Surplus(w) :
              LET gone == surplus \cup Replaced(w) IN
              /\ cred' = [n \in Macs |-> IF n = m THEN Granted(w)
                                         ELSE IF n \in gone THEN [cred[n] EXCEPT !.status = "revoked"]
                                         ELSE cred[n]]
              /\ token' = token \ Forgotten(gone) /\ ticket' = ticket \ Forgotten(gone)
              /\ work' = [v \in Workers |->
                   IF v = w THEN IF work[w].gives = {} THEN Idle
                                   ELSE [Idle EXCEPT !.at = "issue", !.mac = m, !.gives = work[w].gives]
                   ELSE IF InTx(v) /\ ~(work[v].locks /\ work[w].locks)
                     THEN [work[v] EXCEPT !.met = @ \cup {m}] ELSE work[v]]
  /\ UNCHANGED <<Customer, Trials, crashes>>

\* IssueRouterLogin.
Issue(w) ==
  /\ work[w].at = "issue"
  /\ token' = IF "device" \in work[w].gives THEN token \cup {work[w].mac} ELSE token
  /\ ticket' = ticket \cup {work[w].mac}
  /\ work' = [work EXCEPT ![w] = Idle]
  /\ UNCHANGED <<Customer, cred, Trials, crashes>>

-----------------------------------------------------------------------------
\* ReconcileCredentials: logins whose time is up, in one statement; then a
\* customer changed since two minutes before the last round, longer than a
\* transaction takes ...
Expire ==
  /\ cred' = [m \in Macs |-> IF cred[m].status = "active" /\ cred[m].until <= over
                               THEN [cred[m] EXCEPT !.status = "expired"] ELSE cred[m]]
  /\ Start(Job, IF changed THEN [Idle EXCEPT !.at = "read"] ELSE Idle)
  /\ changed' = (changed /\ \E w \in Workers : InTx(w))
  /\ UNCHANGED <<scene, plan, over, token, ticket, Trials, crashes>>

\* ... then reconcileCustomer reads the customer ...
Read ==
  /\ work[Job].at = "read"
  /\ work' = [work EXCEPT ![Job].at = "follow", ![Job].paid = IF Paid THEN plan ELSE 0]
  /\ UNCHANGED <<Customer, Logins, Trials, crashes>>

\* Mutant: active logins keep their old expiry date.
FollowedNot(p) == [m \in Macs |-> IF cred[m].status = "active" /\ p = 0
                                    THEN [cred[m] EXCEPT !.status = "expired"] ELSE cred[m]]
\* What the statement for a customer paid until p, or not at all, does.
Followed(p) == [m \in Macs |-> IF cred[m].status # "active" THEN cred[m]
                               ELSE IF p = 0 THEN [cred[m] EXCEPT !.status = "expired"]
                               ELSE [cred[m] EXCEPT !.until = p]]

\* ... and writes what follows from it.
Follow ==
  /\ work[Job].at = "follow" /\ cred' = Followed(work[Job].paid)
  /\ work' = [work EXCEPT ![Job] = IF work[Job].paid = 0 THEN Idle ELSE [Idle EXCEPT !.at = "count"]]
  /\ UNCHANGED <<Customer, token, ticket, Trials, crashes>>

\* Without an active login the device on the account gets one.
Count ==
  /\ work[Job].at = "count"
  /\ work' = [work EXCEPT ![Job] = IF Active(cred) # {} THEN Idle
                                   ELSE [Idle EXCEPT !.at = "begin", !.mac = AccountMac]]
  /\ UNCHANGED <<Customer, Logins, Trials, crashes>>

-----------------------------------------------------------------------------
\* CustomerClaimFreeTier: under its server's trialMu it checks, ...
InTrial(h) == work[h].at = "claim"
Keys(h) == {work[h].mac, work[h].phone} \cap (Macs \cup Phones)

\* Mutant: two taps are not serialised.
TrialFreeAlways(s) == TRUE
TrialFree(s) == \A h \in Handlers : InTrial(h) => work[h].server # s

\* Those of S with a trial whose claim is not written count one more as lost.
UnderWay(x) == \E h \in Handlers : InTrial(h) /\ x \in Keys(h)
Forgo(S) == lost' = [x \in Macs \cup Phones |-> lost[x] + IF x \in S /\ UnderWay(x) THEN 1 ELSE 0]

\* ... gives the device's trial account its time ...
TakeTrial(h, s, m, p) ==
  /\ TrialFree(s) /\ ~Usable(m) /\ ~(m = AccountMac /\ Paid) /\ ~Tried(m, p)
  /\ \A x \in Macs \cup Phones : trials[x] < MaxTrials
  /\ Start(h, [Idle EXCEPT !.at = "claim", !.mac = m, !.phone = p, !.server = s])
  /\ trials' = [x \in Macs \cup Phones |-> trials[x] + IF x \in {m, p} THEN 1 ELSE 0]
  /\ Forgo({m, p})
  /\ UNCHANGED <<Customer, Logins, claims, crashes>>

\* ... and writes the claim; an error is not looked at.
ClaimTrial(h) ==
  /\ InTrial(h) /\ work' = [work EXCEPT ![h] = Idle]
  /\ \/ /\ claims' = claims \cup {[mac |-> work[h].mac, phone |-> work[h].phone]}
        /\ UNCHANGED lost
     \/ Forgo(Keys(h)) /\ UNCHANGED claims
  /\ UNCHANGED <<Customer, Logins, trials, crashes>>

-----------------------------------------------------------------------------
\* Any purchase of CustomerAccount, of any package.
Pay ==
  /\ scene # "trials" /\ plan < MaxPlans /\ plan' = plan + 1 /\ changed' = TRUE
  /\ UNCHANGED <<scene, over, Logins, work, Trials, crashes>>

\* An expiry date passes; the watchdog changes the customer's row.
Lapse ==
  /\ over < plan /\ over' = over + 1 /\ changed' = TRUE
  /\ UNCHANGED <<scene, plan, Logins, work, Trials, crashes>>

\* Every server stops; one that stops alone loses its trials' claims, as
\* ClaimTrial may.  The first round after a restart looks at every customer.
Crash ==
  /\ scene # "rivals" /\ crashes < MaxCrashes /\ crashes' = crashes + 1
  /\ Forgo(Macs \cup Phones)
  /\ work' = [w \in Workers |-> Idle] /\ changed' = TRUE
  /\ UNCHANGED <<scene, plan, over, Logins, claims, trials>>

Step(w) == Begin(w) \/ Write(w) \/ Issue(w)
Round == Expire \/ Read \/ Follow \/ Count \/ Step(Job)

Request(h) ==
  \E m \in Macs : \/ Prove(h, m) \/ HotspotStatus(h, m) \/ CustomerRecoverByReceipt(h, m)
                  \/ \E k \in Macs \cup {None} :
                       \/ Reconnect(h, k, m) \/ Recognise(h, k, m)
                       \/ FetchByToken(h, k, m) \/ FetchByTicket(h, k, m)

Next ==
  \/ \E h \in Handlers :
       \/ Step(h) \/ ClaimTrial(h)
       \/ scene # "trials" /\ Request(h)
       \/ scene = "trials" /\ \E s \in Servers, m \in Macs, p \in Phones \cup {None} : TakeTrial(h, s, m, p)
  \/ scene = "rounds" /\ (Round \/ Lapse)
  \/ Pay \/ Crash

Spec == Init /\ [][Next]_vars

\* The watchdog ticks for as long as the server runs; requests may hang.
FairSpec == Spec /\ WF_vars(scene = "rounds" /\ Round)

-----------------------------------------------------------------------------
\* The tables have the values the code writes, and every token is of a login.
TypeOK ==
  /\ plan \in 0..MaxPlans /\ over \in 0..plan /\ changed \in BOOLEAN
  /\ \A m \in Macs : \/ cred[m] = NoLogin
                     \/ cred[m].status \in Statuses /\ cred[m].until \in 1..plan
  /\ token \cup ticket \subseteq {m \in Macs : cred[m] # NoLogin}
  /\ \A w \in Workers : work[w].at \in {"idle", "begin", "write", "issue", "read", "follow", "count", "claim"}
  /\ \A x \in Macs \cup Phones : trials[x] \in Nat /\ lost[x] \in Nat

\* A grant leaves a customer with as many logins as the package it read allows,
\* and at most one more for each device another request granted meanwhile
\* without the two excluding each other (MoveCredential, EnsureCredential).
AtMostLimit ==
  [][\A w \in Workers : Write(w) /\ ~Clash(w) =>
       Cardinality(Active(cred') \ work[w].met) <= LimitOf[work[w].paid]]_vars

\* A device and a phone get one trial in a period, and another only for each
\* time a claim was not written or two servers checked at once
\* (CustomerClaimFreeTier).
TrialOnce == \A x \in Macs \cup Phones : trials[x] <= 1 + lost[x]

\* A paid customer ends up with a login that lasts as long as the plan, and one
\* whose time is up without any, whatever requests, rounds and payments
\* overlapped (ReconcileCredentials).
FollowsPlan ==
  /\ <>[](Paid /\ scene = "rounds") => <>[](\E m \in Macs : cred[m] = [status |-> "active", until |-> plan])
  /\ <>[](~Paid /\ scene = "rounds") => <>[](Active(cred) = {})
=============================================================================
