------------------------------ MODULE OpsAlerts ------------------------------
(***************************************************************************)
(* The job that texts an ISP's owners when a router goes down or comes     *)
(* back (services/ops_alerts.go).  Its sweep remembers a change, writes    *)
(* the alert, sends the 06:00 summary and then the texts that are due.     *)
(* Time is a clock that goes round once a day, and the ages of the dates   *)
(* the code compares, each counted no further than the comparison needs.   *)
(* One ISP; wording, the admin banner and the list of phones are left out. *)
(***************************************************************************)
EXTENDS Integers, FiniteSets

CONSTANTS
  Zones,
  Day,         \* units of time in a day
  NightStart,  \* opsQuietStartHour and opsQuietEndHour
  NightEnd,
  FlapWindow,  \* OpsFlapWindow
  SummaryAge,  \* the oldest alert the summary takes
  StaleOutage, \* opsStaleOutage
  MaxCrashes   \* bound

ASSUME AlertsAssumption ==
  /\ Day \in Nat \ {0} /\ NightStart \in 0..(Day - 1) /\ NightEnd \in 0..NightStart
  /\ FlapWindow \in Nat \ {0} /\ SummaryAge \in Nat /\ StaleOutage \in Nat
  /\ MaxCrashes \in Nat
  \* A night is longer than two hours.
  /\ FlapWindow <= Day - NightStart + NightEnd

VARIABLES
  hour,
  router,   \* what each zone's router does, and since when it is silent
  enabled,  \* ops_alert_settings: texts switched on, with a phone
  state,    \* ops_zone_alert_states
  held,     \* ages of each zone's ops_alerts with delivery quiet_hours
  sweep,    \* the sweep in progress and what it has loaded
  crashes,
  told,     \* the last word the owner got; failed or untold if it never went out
  textAge,  \* how long ago the owner last got a "down" text
  torn      \* zones whose text went out and was not remembered

vars == <<hour, router, enabled, state, held, sweep, crashes, told, textAge, torn>>

-----------------------------------------------------------------------------
Unknown == [status |-> "none", sms |-> "none", since |-> 0, lastText |-> FlapWindow]
Resting == [at |-> "idle", todo |-> {}, order |-> {}, on |-> FALSE, quiet |-> FALSE,
            seen |-> [z \in Zones |-> [is |-> "gone", age |-> 0]]]

\* InQuietHours.
Quiet == hour >= NightStart \/ hour < NightEnd

Older(age, limit) == IF age < limit THEN age + 1 ELSE age

\* The zones the query returned, and what it says of one.
Live == {z \in Zones : sweep.seen[z].is # "gone"}
Cur(z) == IF sweep.seen[z].is = "down" THEN "offline" ELSE "online"

\* The state a zone is given at first sight.
Met(z) == [status |-> Cur(z), sms |-> Cur(z), since |-> sweep.seen[z].age, lastText |-> FlapWindow]

\* Mutant: a change in the night counts as told.
ClaimedTold(z) == [state[z] EXCEPT !.status = Cur(z), !.since = sweep.seen[z].age,
                                   !.sms = IF sweep.quiet THEN Cur(z) ELSE @]
Claimed(z) == [state[z] EXCEPT !.status = Cur(z), !.since = sweep.seen[z].age]

\* Mutant: the date of the text is not stored.
InformedUndated(z) == [state[z] EXCEPT !.sms = state[z].status]
Informed(z) == [state[z] EXCEPT !.sms = state[z].status,
                                !.lastText = IF state[z].status = "offline" THEN 0 ELSE @]

Flapping(z) == state[z].lastText < FlapWindow
Stale(z) == state[z].since > StaleOutage
DownDue(z) == state[z].status = "offline" /\ state[z].sms # "offline" /\ sweep.on
BackDue(z) == state[z].status = "online" /\ state[z].sms = "offline"

\* Nothing is texted, yet the state says the owner knows: an outage of over a
\* day, or a recovery while texts are switched off.
LetPass(z) == (DownDue(z) /\ Stale(z)) \/ (BackDue(z) /\ ~sweep.on)
TextDue(z) == (DownDue(z) /\ ~Stale(z) /\ ~Flapping(z)) \/ (BackDue(z) /\ sweep.on)

World == <<hour, router, enabled, crashes>>

-----------------------------------------------------------------------------
Init ==
  /\ hour \in 0..(Day - 1) /\ enabled \in BOOLEAN /\ crashes = 0
  /\ router \in [Zones -> {[is |-> i, age |-> 0] : i \in {"up", "down", "gone"}}]
  /\ state = [z \in Zones |-> Unknown] /\ held = [z \in Zones |-> {}]
  /\ sweep = Resting
  /\ told = [z \in Zones |-> "untold"] /\ textAge = [z \in Zones |-> FlapWindow]
  /\ torn = [z \in Zones |-> FALSE]

\* Sweep loads the zones and the settings and looks at the clock once.
Load ==
  /\ sweep.at = "idle"
  /\ sweep' = [at |-> "changes", todo |-> {z \in Zones : router[z].is # "gone"}, order |-> {},
               on |-> enabled, quiet |-> Quiet, seen |-> router]
  /\ UNCHANGED <<World, state, held, told, textAge, torn>>

\* 1. A zone met for the first time is remembered without an alert ...
FirstSight(z) ==
  /\ sweep.at = "changes" /\ z \in sweep.todo /\ state[z].status = "none"
  /\ state' = [state EXCEPT ![z] = Met(z)]
  /\ sweep' = [sweep EXCEPT !.todo = @ \ {z}]
  /\ UNCHANGED <<World, held, told, textAge, torn>>

NoChange(z) ==
  /\ sweep.at = "changes" /\ z \in sweep.todo /\ state[z].status = Cur(z)
  /\ sweep' = [sweep EXCEPT !.todo = @ \ {z}]
  /\ UNCHANGED <<World, state, held, told, textAge, torn>>

\* ... a change is claimed on the state ...
Claim(z) ==
  /\ sweep.at = "changes" /\ z \in sweep.todo /\ state[z].status \notin {"none", Cur(z)}
  /\ state' = [state EXCEPT ![z] = Claimed(z)]
  /\ sweep' = [sweep EXCEPT !.at = "note", !.order = {z}]
  /\ UNCHANGED <<World, held, told, textAge, torn>>

\* ... and its alert written, for the summary if this is the night.
Note(z) ==
  /\ sweep.at = "note" /\ z \in sweep.order
  /\ held' = [held EXCEPT ![z] = IF sweep.on /\ sweep.quiet THEN @ \cup {0} ELSE @]
  /\ sweep' = [sweep EXCEPT !.at = "changes", !.todo = @ \ {z}, !.order = {}]
  /\ UNCHANGED <<World, state, told, textAge, torn>>

EndChanges ==
  /\ sweep.at = "changes" /\ sweep.todo = {}
  /\ sweep' = IF sweep.quiet THEN Resting
              ELSE [sweep EXCEPT !.at = IF sweep.on THEN "summary" ELSE "texts", !.todo = Live]
  /\ UNCHANGED <<World, state, held, told, textAge, torn>>

\* What a message about the zones in ws does to its reader.
Send(ws) ==
  \E sent \in BOOLEAN :
    /\ told' = [z \in Zones |-> IF z \notin ws THEN told[z]
                                ELSE IF sent THEN state[z].status ELSE "failed"]
    /\ textAge' = [z \in Zones |-> IF z \in ws /\ sent /\ state[z].status = "offline" THEN 0
                                   ELSE textAge[z]]

\* 2. sendMorningSummary forgets the alerts of zones gone since, and texts the
\* state of the others.
Summary ==
  /\ sweep.at = "summary"
  /\ LET order == {z \in Live : held[z] # {}} IN
       /\ held' = [z \in Zones |-> IF z \in Live THEN held[z] ELSE {}]
       /\ sweep' = [sweep EXCEPT !.at = IF order = {} THEN "texts" ELSE "mark", !.order = order]
       /\ IF order = {} THEN UNCHANGED <<told, textAge>> ELSE Send(order)
  /\ UNCHANGED <<World, state, torn>>

MarkSummed ==
  /\ sweep.at = "mark"
  /\ held' = [z \in Zones |-> IF z \in sweep.order THEN {} ELSE held[z]]
  /\ sweep' = [sweep EXCEPT !.at = "remember"]
  /\ UNCHANGED <<World, state, told, textAge, torn>>

\* 3. The texts that are due, one zone at a time.
Text(z) ==
  /\ sweep.at = "texts" /\ z \in sweep.todo /\ TextDue(z)
  /\ Send({z})
  /\ sweep' = [sweep EXCEPT !.at = "remember", !.order = {z}, !.todo = @ \ {z}]
  /\ UNCHANGED <<World, state, held, torn>>

\* The state is stored after the message is out.
Remember(z) ==
  /\ sweep.at = "remember" /\ z \in sweep.order
  /\ state' = [state EXCEPT ![z] = Informed(z)]
  /\ torn' = [torn EXCEPT ![z] = @ /\ state[z].status = "online"]
  /\ sweep' = [sweep EXCEPT !.order = @ \ {z}, !.at = IF sweep.order = {z} THEN "texts" ELSE @]
  /\ UNCHANGED <<World, held, told, textAge>>

Pass(z) ==
  /\ sweep.at = "texts" /\ z \in sweep.todo /\ ~TextDue(z)
  /\ IF LetPass(z)
       THEN /\ state' = [state EXCEPT ![z].sms = state[z].status]
            /\ told' = [told EXCEPT ![z] = "untold"]
       ELSE UNCHANGED <<state, told>>
  /\ sweep' = [sweep EXCEPT !.todo = @ \ {z}]
  /\ UNCHANGED <<World, held, textAge, torn>>

EndTexts ==
  /\ sweep.at = "texts" /\ sweep.todo = {} /\ sweep' = Resting
  /\ UNCHANGED <<World, state, held, told, textAge, torn>>

-----------------------------------------------------------------------------
\* The router's check-ins of RouterHealth, and a zone disabled or deleted.
Becomes(z, i) ==
  /\ router[z].is # i /\ router' = [router EXCEPT ![z] = [is |-> i, age |-> 0]]
  /\ UNCHANGED <<hour, enabled, crashes, state, held, sweep, told, textAge, torn>>

\* OpsAlertSettingsUpdate.
Switch ==
  /\ enabled' = ~enabled
  /\ UNCHANGED <<hour, router, crashes, state, held, sweep, told, textAge, torn>>

Crash ==
  /\ crashes < MaxCrashes /\ crashes' = crashes + 1
  /\ sweep.at # "idle" /\ sweep' = Resting
  /\ torn' = [z \in Zones |-> torn[z] \/ (sweep.at \in {"mark", "remember"} /\ z \in sweep.order)]
  /\ UNCHANGED <<hour, router, enabled, state, held, told, textAge>>

\* A sweep is over long before any of the compared dates is a unit older.
Tick ==
  /\ sweep.at = "idle"
  /\ hour' = IF hour + 1 = Day THEN 0 ELSE hour + 1
  /\ router' = [z \in Zones |-> IF router[z].is = "down"
                                  THEN [router[z] EXCEPT !.age = Older(@, StaleOutage + 1)] ELSE router[z]]
  /\ state' = [z \in Zones |->
                 [state[z] EXCEPT !.lastText = Older(@, FlapWindow),
                                  !.since = IF state[z].status = "offline" THEN Older(@, StaleOutage + 1) ELSE @]]
  /\ held' = [z \in Zones |-> {a \in {b + 1 : b \in held[z]} : a <= SummaryAge}]
  /\ textAge' = [z \in Zones |-> Older(textAge[z], FlapWindow)]
  /\ UNCHANGED <<enabled, crashes, sweep, told, torn>>

Step(z) == FirstSight(z) \/ NoChange(z) \/ Claim(z) \/ Note(z) \/ Text(z) \/ Remember(z) \/ Pass(z)
Sweep == EndChanges \/ Summary \/ MarkSummed \/ EndTexts \/ \E z \in Zones : Step(z)

Next ==
  \/ Load \/ Sweep \/ Switch \/ Crash \/ Tick
  \/ \E z \in Zones, i \in {"up", "down", "gone"} : Becomes(z, i)

Spec == Init /\ [][Next]_vars

\* The ticker starts a sweep every minute, so by day too, a sweep ends, and the
\* clock goes on.
FairSpec == Spec /\ SF_vars(~Quiet /\ Load) /\ WF_vars(Sweep) /\ SF_vars(Tick)

-----------------------------------------------------------------------------

Texted(z) == sweep.at \in {"summary", "texts"} /\ sweep'.at \in {"mark", "remember"} /\ z \in sweep'.order

\* Two texts that a router is down are at least two hours apart, the summary
\* counted, unless the server died after the first (ops_alerts.go:23).
DownTextsApart ==
  [][\A z \in Zones : Texted(z) /\ told'[z] = "offline" => textAge[z] >= FlapWindow \/ torn[z]]_vars

\* While texts are on, an owner last told "down" of a router that stays up
\* hears that it is back, and the other way round: no flap or night makes the
\* job forget, only a crash between a text and the state that remembers it
\* (Sweep, sendMorningSummary).
LastWord ==
  \A z \in Zones :
    /\ <>[](router[z].is = "up" /\ enabled) => <>[](told[z] # "offline" \/ torn[z])
    /\ <>[](router[z].is = "down" /\ enabled) => <>[](told[z] # "online" \/ torn[z])
=============================================================================
