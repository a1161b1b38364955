---------------------------- MODULE RouterHealth ----------------------------
(***************************************************************************)
(* One zone's router: its check-ins and the time given back after an       *)
(* outage (services/router_health.go, the heartbeat and sync handlers of   *)
(* handlers/mikrotik_script.go) and the watchdog's view of it              *)
(* (runRouterHealthSweep in services/watchdog.go).  The unit of time is    *)
(* the five minutes after which a router counts as offline.  A request     *)
(* reads the zone and records the check-in within one unit; what it does   *)
(* for the customers afterwards may take longer.  Addresses and board      *)
(* names are left out.                                                     *)
(***************************************************************************)
EXTENDS Integers, FiniteSets

CONSTANTS
  Customers,    \* of the zone
  Free,         \* those on a free plan
  Handlers,     \* request goroutines
  OutageAfter,  \* a longer gap is an outage
  Cap,          \* the most that is given back for one outage
  MaxTime,      \* bound
  MaxRenewals,  \* bound
  MaxCrashes    \* bound

ASSUME HealthAssumption ==
  /\ Free \subseteq Customers
  /\ OutageAfter \in Nat \ {0} /\ Cap \in Nat \ {0}
  /\ MaxTime \in Nat /\ MaxRenewals \in Nat /\ MaxCrashes \in Nat

VARIABLES
  lastSeen, lastStatus,  \* zones: last_seen_at and last_status
  open,                  \* number of zone_alerts of type offline not resolved
  until, status,         \* customers: expires_at and status
  outages,               \* zone_outages
  handler,               \* check-ins in progress
  watch,                 \* the zone as the watchdog has loaded it
  now, renewals, crashes,
  given,                 \* time given back to each customer
  torn                   \* outages whose check-in a crash cut short

vars == <<lastSeen, lastStatus, open, until, status, outages, handler, watch,
          now, renewals, crashes, given, torn>>

-----------------------------------------------------------------------------
Never == -1

Gap(start, end) == [start |-> start, end |-> end]
Idle == [at |-> "idle", gap |-> Gap(Never, Never), todo |-> {}]
Asleep == [at |-> "asleep", seen |-> Never, status |-> "online"]

LesserOf(a, b) == IF a < b THEN a ELSE b
GreaterOf(a, b) == IF a > b THEN a ELSE b

Offline(seen, t) == seen = Never \/ t - seen > 1

Long(g) == g.start # Never /\ g.end - g.start > OutageAfter

\* Mutant: the update has no condition.
Any(g) == TRUE
\* The condition on the last_seen_at that was read.
First(g) == lastSeen = g.start

\* What a customer with this expiry lost, up to the cap.
Lost(expiry, g) == LesserOf(expiry, g.start + LesserOf(g.end - g.start, Cap)) - g.start

\* A plan that ran out meanwhile starts again at the end of the outage.
Extended(expiry, g) == (IF expiry > g.end THEN expiry ELSE g.end) + Lost(expiry, g)

Untouched(c, expiry) == until[c] = expiry

AlertOnce == IF open = 0 THEN 1 ELSE open

\* Customers with time running when the outage began, and their expiry.
Losers(g) == {[who |-> c, expiry |-> until[c]] : c \in
                {c \in Customers \ Free : until[c] > g.start /\ status[c] # "suspended"}}

Rest == <<now, renewals, crashes>>
Row == <<lastSeen, lastStatus>>
People == <<until, status, given>>

-----------------------------------------------------------------------------
Init ==
  /\ lastSeen \in {Never, 0} /\ lastStatus = "unknown" /\ open = 0
  /\ until \in [Customers -> {1, 4}]
  /\ status \in [Customers -> {"active", "suspended"}]
  /\ outages = {} /\ handler = [h \in Handlers |-> Idle] /\ watch = Asleep
  /\ now = 0 /\ renewals = 0 /\ crashes = 0
  /\ given = [c \in Customers |-> 0] /\ torn = {}

\* PublicZoneHeartbeat, and PublicZoneSync of a router thought offline.
CheckIn(h) ==
  /\ handler[h] = Idle
  /\ handler' = [handler EXCEPT ![h] = [at |-> "record", gap |-> Gap(lastSeen, now), todo |-> {}]]
  /\ UNCHANGED <<Row, open, People, outages, watch, Rest, torn>>

\* RecordRouterCheckIn moves last_seen_at, and goes on with the outage if nobody
\* else has recorded a check-in.  When the conditional update fails it writes
\* without the condition, and is done; that may fail too.
Record(h) ==
  /\ handler[h].at = "record"
  /\ LET g    == handler[h].gap
         seen == lastSeen' = g.end /\ lastStatus' = "online"
     IN  \/ seen /\ First(g) /\ Long(g) /\ handler' = [handler EXCEPT ![h].at = "resolve"]
         \/ (seen \/ UNCHANGED Row) /\ handler' = [handler EXCEPT ![h] = Idle]
  /\ UNCHANGED <<open, People, outages, watch, Rest, torn>>

\* It closes the alerts; CompensateOutage loads the customers.
Resolve(h) ==
  /\ handler[h].at = "resolve"
  /\ open' = 0
  /\ handler' = [handler EXCEPT ![h].at = "give", ![h].todo = Losers(handler[h].gap)]
  /\ UNCHANGED <<Row, People, outages, watch, Rest, torn>>

\* And extends them one by one, unless the expiry has changed meanwhile.
Give(h, l) ==
  /\ l \in handler[h].todo
  /\ IF Untouched(l.who, l.expiry)
       THEN /\ until' = [until EXCEPT ![l.who] = Extended(l.expiry, handler[h].gap)]
            /\ status' = [status EXCEPT ![l.who] = "active"]
            /\ given' = [given EXCEPT ![l.who] = @ + Lost(l.expiry, handler[h].gap)]
       ELSE UNCHANGED People
  /\ handler' = [handler EXCEPT ![h].todo = @ \ {l}]
  /\ UNCHANGED <<Row, open, outages, watch, Rest, torn>>

\* And records the outage.
Settle(h) ==
  /\ handler[h].at = "give" /\ handler[h].todo = {}
  /\ outages' = outages \cup {handler[h].gap}
  /\ handler' = [handler EXCEPT ![h] = Idle]
  /\ UNCHANGED <<Row, open, People, watch, Rest, torn>>

\* runRouterHealthSweep loads the zone, then writes what it concludes by id.
WatchLoad ==
  /\ watch = Asleep
  /\ watch' = [at |-> "mark", seen |-> lastSeen, status |-> lastStatus]
  /\ UNCHANGED <<Row, open, People, outages, handler, Rest, torn>>

\* Mutant: no zone is ever marked offline.
MarkNever == FALSE
MarkOffline == Offline(watch.seen, now) /\ watch.status # "offline"
MarkOnline == ~Offline(watch.seen, now) /\ watch.status # "online"

WatchMark ==
  /\ watch.at = "mark"
  /\ \/ MarkOffline /\ lastStatus' = "offline" /\ watch' = [watch EXCEPT !.at = "raise"]
     \/ MarkOnline /\ lastStatus' = "online" /\ watch' = [watch EXCEPT !.at = "clear"]
     \/ ~MarkOffline /\ ~MarkOnline /\ watch' = Asleep /\ UNCHANGED lastStatus
  /\ UNCHANGED <<lastSeen, open, People, outages, handler, Rest, torn>>

\* The alert comes after; a check-in may have closed the alerts in between.
WatchAlert ==
  /\ \/ watch.at = "raise" /\ open' = AlertOnce
     \/ watch.at = "clear" /\ open' = 0
  /\ watch' = Asleep
  /\ UNCHANGED <<Row, People, outages, handler, Rest, torn>>

\* Any purchase of CustomerAccount.
Renew(c) ==
  /\ renewals < MaxRenewals /\ renewals' = renewals + 1
  /\ until' = [until EXCEPT ![c] = GreaterOf(@, now) + 1]
  /\ status' = [status EXCEPT ![c] = "active"]
  /\ UNCHANGED <<Row, open, outages, handler, watch, now, crashes, given, torn>>

\* The expiry sweep of CustomerAccount.
Expire(c) ==
  /\ status[c] = "active" /\ until[c] < now
  /\ status' = [status EXCEPT ![c] = "expired"]
  /\ UNCHANGED <<Row, open, until, given, outages, handler, watch, Rest, torn>>

Crash ==
  /\ crashes < MaxCrashes /\ crashes' = crashes + 1
  /\ handler' = [h \in Handlers |-> Idle] /\ watch' = Asleep
  /\ torn' = torn \cup {handler[h].gap : h \in {h \in Handlers : handler[h].at \in {"resolve", "give"}}}
  /\ UNCHANGED <<Row, open, People, outages, now, renewals>>

Tick ==
  /\ now < MaxTime /\ now' = now + 1
  /\ watch = Asleep /\ \A h \in Handlers : handler[h].at # "record"
  /\ UNCHANGED <<Row, open, People, outages, handler, watch, renewals, crashes, torn>>

Work(h) == Record(h) \/ Resolve(h) \/ Settle(h) \/ \E l \in handler[h].todo : Give(h, l)

Next ==
  \/ \E h \in Handlers : CheckIn(h) \/ Work(h)
  \/ \E c \in Customers : Renew(c) \/ Expire(c)
  \/ WatchLoad \/ WatchMark \/ WatchAlert \/ Crash \/ Tick

Spec == Init /\ [][Next]_vars

\* The watchdog ticks for as long as the server runs, and requests end.
FairSpec == /\ Spec /\ WF_vars(WatchLoad) /\ WF_vars(WatchMark)
            /\ WF_vars(WatchAlert)
            /\ \A h \in Handlers : WF_vars(Work(h))

-----------------------------------------------------------------------------
\* The tables have the values the code writes, and one alert at most is open.
TypeOK ==
  /\ lastSeen \in -1..MaxTime /\ lastStatus \in {"unknown", "online", "offline"} /\ open \in 0..1
  /\ until \in [Customers -> Nat] /\ status \in [Customers -> {"active", "expired", "suspended"}]
  /\ \A g \in outages \cup torn : g.start \in 0..MaxTime /\ g.end \in 0..MaxTime
  /\ \A h \in Handlers : handler[h].at \in {"idle", "record", "resolve", "give"}
  /\ watch.at \in {"asleep", "mark", "raise", "clear"}
  /\ given \in [Customers -> Nat]

Compensating == {handler[h].gap : h \in {h \in Handlers : handler[h].at \in {"resolve", "give"}}}

\* Two check-ins never compensate the same silence (RecordRouterCheckIn).
OutagesApart ==
  /\ \A a, b \in outages \cup Compensating : a = b \/ a.end <= b.start \/ b.end <= a.start
  /\ \A g, h \in Handlers : g # h /\ {handler[g].at, handler[h].at} \subseteq {"resolve", "give"}
                              => handler[g].gap # handler[h].gap
  /\ outages \cap Compensating = {}

\* Nobody is given more than the outages took, the cap counted for each.
NeverMoreThanLost ==
  LET back(S) == Cardinality(UNION {g.start..(LesserOf(g.end, g.start + Cap) - 1) : g \in S})
  IN \A c \in Customers : given[c] <= back(outages \cup Compensating \cup torn)

\* What the zone is shown as settles on what its router does.
StatusSettles == <>[](lastStatus = IF Offline(lastSeen, now) THEN "offline" ELSE "online")
=============================================================================
