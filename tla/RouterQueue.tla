---------------------------- MODULE RouterQueue -----------------------------
(***************************************************************************)
(* services/router_actions.go: router changes owed to paying customers,    *)
(* kept in a table and tried until the router takes them.  An action is    *)
(* tried at once by a goroutine of its own and later by the money job;     *)
(* both claim it first.  What a router does with an attempt is external.   *)
(***************************************************************************)
EXTENDS Integers, FiniteSets

CONSTANTS
  Actions,     \* ids, handed out in increasing order
  Retries,     \* waits in routerActionBackoff
  Batch,       \* actions a round of the job takes at most
  MaxCrashes,  \* bound
  Job, Nobody

ASSUME QueueAssumption ==
  /\ Actions \subseteq Nat /\ Retries \in Nat /\ Batch \in Nat \ {0}
  /\ MaxCrashes \in Nat
  /\ Job \notin Actions /\ Nobody \notin Actions

VARIABLES
  action,   \* pending_router_actions
  started,  \* actions whose own goroutine has yet to run
  round,    \* what is left of the job's round, served in order of id
  work,     \* attempts in progress, of the goroutines and the job
  taken,    \* actions the router has carried out
  refused,  \* attempts the router has failed, counted up to Retries + 1
  overrun,  \* ghost: actions put back while an attempt at them, now five
            \* minutes old, went on, until their attempts are over
  crashes

vars == <<action, started, round, work, taken, refused, overrun, crashes>>

Workers == Actions \cup {Job}

\* due: next_attempt_at has come.  old: updated_at is over five minutes ago.
NoAction == [status |-> "none", attempts |-> 0, due |-> TRUE, old |-> FALSE]

Idle == [on |-> Nobody, attempts |-> 0, result |-> "none"]

Working(a) == {w \in Workers : work[w].on = a}

Claimable(a) == action[a].status = "pending" /\ action[a].due

\* Mutant: the last wait is not used.
SpentEarly(attempts) == attempts >= Retries
Spent(attempts) == attempts > Retries

\* Mutant: nothing is put back.
StaleNever(a) == FALSE
\* Mutant: also ended actions are put back.
StaleAnyway(a) == action[a].old
Stale(a) == action[a].status = "running" /\ action[a].old

-----------------------------------------------------------------------------
Init ==
  /\ action = [a \in Actions |-> NoAction]
  /\ started = {} /\ round = {}
  /\ work = [w \in Workers |-> Idle]
  /\ taken = {} /\ refused = [a \in Actions |-> 0] /\ overrun = {}
  /\ crashes = 0

\* EnqueueRouterAction.
Enqueue(a) ==
  /\ action[a].status = "none"
  /\ \A b \in Actions : b < a => action[b].status # "none"
  /\ action' = [action EXCEPT ![a].status = "pending"]
  /\ started' = started \cup {a}
  /\ UNCHANGED <<round, work, taken, refused, overrun, crashes>>

\* RunDueRouterActions: puts stale rows back and selects a round.
RunDue ==
  /\ round = {} /\ work[Job] = Idle
  /\ action' = [a \in Actions |->
                  IF Stale(a) THEN [action[a] EXCEPT !.status = "pending"]
                              ELSE action[a]]
  /\ LET due == {a \in Actions : action'[a].status = "pending" /\ action[a].due}
     IN  round' = {a \in due : Cardinality({b \in due : b < a}) < Batch}
  /\ overrun' = overrun \cup {a \in Actions : Stale(a) /\ Working(a) # {}}
  /\ UNCHANGED <<started, work, taken, refused, crashes>>

\* runRouterAction claims the row and reads it, or leaves it alone.
Claim(w, a) ==
  /\ work[w] = Idle
  /\ IF Claimable(a)
       THEN /\ action' = [action EXCEPT ![a].status = "running", ![a].old = FALSE]
            /\ work' = [work EXCEPT ![w].on = a, ![w].attempts = action[a].attempts]
       ELSE UNCHANGED <<action, work>>
  /\ UNCHANGED <<taken, refused, overrun, crashes>>

ClaimAtOnce(a) ==
  a \in started /\ Claim(a, a) /\ started' = started \ {a} /\ UNCHANGED round

ClaimNext(a) ==
  /\ a \in round /\ \A b \in round : a <= b
  /\ Claim(Job, a) /\ round' = round \ {a} /\ UNCHANGED started

\* executeRouterAction: the router carries the change out or fails it.
Execute(w) ==
  /\ work[w] # Idle /\ work[w].result = "none"
  /\ \/ /\ work' = [work EXCEPT ![w].result = "ok"]
        /\ taken' = taken \cup {work[w].on}
        /\ UNCHANGED refused
     \/ /\ work' = [work EXCEPT ![w].result = "error"]
        /\ refused' = [refused EXCEPT ![work[w].on] = IF @ > Retries THEN @ ELSE @ + 1]
        /\ UNCHANGED taken
  /\ UNCHANGED <<action, started, round, overrun, crashes>>

\* The row of action a after an attempt that ended in result.
Ended(a, attempts, result) ==
  CASE result = "ok" ->
         [action[a] EXCEPT !.status = "done", !.attempts = attempts]
    [] result = "error" /\ Spent(attempts) ->
         [action[a] EXCEPT !.status = "failed", !.attempts = attempts]
    [] OTHER -> [action[a] EXCEPT !.status = "pending", !.attempts = attempts,
                                  !.due = FALSE]

\* The rest of runRouterAction writes the outcome by id.
Finish(w) ==
  /\ work[w].result # "none"
  /\ action' = [action EXCEPT ![work[w].on] =
                  Ended(work[w].on, work[w].attempts + 1, work[w].result)]
  /\ work' = [work EXCEPT ![w] = Idle]
  /\ overrun' = {a \in overrun : Working(a) # {w}}
  /\ UNCHANGED <<started, round, taken, refused, crashes>>

\* The retry time of a waiting action comes.
Wait(a) ==
  /\ action[a].status = "pending" /\ ~action[a].due
  /\ action' = [action EXCEPT ![a].due = TRUE]
  /\ UNCHANGED <<started, round, work, taken, refused, overrun, crashes>>

\* Five minutes pass since the last write of a row, whether or not an attempt
\* at it is over by then.
Grow(a) ==
  /\ action[a].status # "none" /\ ~action[a].old
  /\ action' = [action EXCEPT ![a].old = TRUE]
  /\ UNCHANGED <<started, round, work, taken, refused, overrun, crashes>>

Crash ==
  /\ crashes < MaxCrashes
  /\ crashes' = crashes + 1
  /\ started' = {} /\ round' = {}
  /\ work' = [w \in Workers |-> Idle] /\ overrun' = {}
  /\ UNCHANGED <<action, taken, refused>>

Next ==
  \/ \E a \in Actions : Enqueue(a) \/ ClaimAtOnce(a) \/ ClaimNext(a)
                     \/ Wait(a) \/ Grow(a)
  \/ \E w \in Workers : Execute(w) \/ Finish(w)
  \/ RunDue \/ Crash

Spec == Init /\ [][Next]_vars

\* Goroutines run, the job's ticker fires and time passes.
FairSpec ==
  /\ Spec /\ WF_vars(RunDue) /\ WF_vars(\E a \in Actions : ClaimNext(a))
  /\ \A a \in Actions : WF_vars(ClaimAtOnce(a)) /\ WF_vars(Wait(a)) /\ WF_vars(Grow(a))
  /\ \A w \in Workers : WF_vars(Execute(w)) /\ WF_vars(Finish(w))

-----------------------------------------------------------------------------
ActionRow == [status : {"none", "pending", "running", "done", "failed"},
              attempts : 0..(Retries + 1), due : BOOLEAN, old : BOOLEAN]

TypeOK ==
  /\ action \in [Actions -> ActionRow]
  /\ started \subseteq Actions /\ round \subseteq Actions
  /\ work \in [Workers -> [on : Actions \cup {Nobody}, attempts : 0..Retries,
                           result : {"none", "ok", "error"}]]
  /\ taken \subseteq Actions /\ refused \in [Actions -> 0..(Retries + 1)]
  /\ overrun \subseteq Actions /\ crashes \in 0..MaxCrashes

\* Lines 82-84: the immediate attempt and the job never work on one action,
\* but for one that was put back under an attempt five minutes old.
OneWorker ==
  \A v, w \in Workers :
    work[v].on = work[w].on /\ work[v].on \notin overrun \cup {Nobody} => v = w

\* What staff read off the table is true: an action is done only when the
\* router took it, and given up only after the first attempt and every retry
\* have failed, in spite of crashes between an attempt and its record.
HonestRows ==
  \A a \in Actions :
    /\ action[a].status = "done" => a \in taken
    /\ action[a].status = "failed" => refused[a] = Retries + 1

\* An action that is done or given up stays so, whatever attempt or put-back
\* is late, but for one that was put back under an attempt five minutes old:
\* of two attempts then the last to end writes the row (runRouterAction).
EndedStays ==
  [][\A a \in Actions \ overrun : action[a].status \in {"done", "failed"} =>
       action'[a].status = action[a].status]_vars

\* models/c2b_transaction.go:46-47: neither an unreachable router nor a
\* restart loses an action.
EveryActionEnds ==
  \A a \in Actions : action[a].status = "pending"
                       ~> action[a].status \in {"done", "failed"}
=============================================================================
