----------------------------- MODULE RouterProofs -----------------------------
(***************************************************************************)
(* Proofs about what the server sends a zone's router.  First RouterQueue: *)
(* an attempt's row is its own and what is recorded of it is true, for any *)
(* number of actions, retries, crashes and actions per round.  Then        *)
(* RouterAccess: its types, and that a zone which left RADIUS stays        *)
(* without rows.  That needs to know who can still write some: no          *)
(* goroutine may have read a zone on RADIUS and be about to write when the *)
(* zone is not.                                                            *)
(***************************************************************************)
EXTENDS RouterQueue, TLAPS

-----------------------------------------------------------------------------
(* The inductive invariant. *)

\* The router has failed at least as many attempts as an open row counts, and
\* the result of an attempt is what the router did.
CountsOK ==
  /\ \A a \in Actions :
       /\ action[a].status = "none" => action[a].attempts = 0
       /\ action[a].status \in {"none", "pending", "running"} =>
            action[a].attempts <= Retries /\ action[a].attempts <= refused[a]
  /\ \A w \in Workers : \A a \in Actions :
       work[w].on = a =>
         /\ work[w].attempts <= refused[a]
         /\ work[w].result = "ok" => a \in taken
         /\ work[w].result = "error" => work[w].attempts + 1 <= refused[a]
  /\ \A w \in Workers : work[w].on = Nobody => work[w] = Idle

\* Unless it was put back under an attempt, the row of an attempt is running,
\* so nobody else can claim it.
Exclusive ==
  /\ OneWorker
  /\ \A w \in Workers : \A a \in Actions \ overrun : work[w].on = a => action[a].status = "running"

IInv == TypeOK /\ CountsOK /\ HonestRows /\ Exclusive

Task == [on : Actions \cup {Nobody}, attempts : 0..Retries,
         result : {"none", "ok", "error"}]

\* The rows, tasks and counts of a well-typed state.
LEMMA Types ==
  ASSUME TypeOK
  PROVE  /\ action \in [Actions -> ActionRow]
         /\ work \in [Workers -> Task]
         /\ refused \in [Actions -> 0..(Retries + 1)]
         /\ taken \subseteq Actions
         /\ Retries \in Nat /\ Nobody \notin Actions /\ Actions \subseteq Workers
         /\ Job \in Workers
BY QueueAssumption DEF TypeOK, Workers, Task

-----------------------------------------------------------------------------
(* Every action preserves the invariant. *)

LEMMA EnqueueStep ==
  ASSUME IInv, NEW a \in Actions, Enqueue(a)
  PROVE  IInv'
<1> USE Types DEF IInv, Enqueue
<1>1. TypeOK'
  BY DEF TypeOK, ActionRow
<1>2. CountsOK'
  BY DEF CountsOK, ActionRow
<1>3. HonestRows'
  BY DEF HonestRows, ActionRow
<1>4. Exclusive'
  BY DEF Exclusive, OneWorker, ActionRow
<1>5. QED
  BY <1>1, <1>2, <1>3, <1>4

LEMMA RunDueStep ==
  ASSUME IInv, RunDue
  PROVE  IInv'
<1> USE DEF IInv
<1>1. /\ \A a \in Actions :
           \/ action'[a] = action[a]
           \/ /\ action[a].status = "running" /\ action[a].old
              /\ action'[a] = [action[a] EXCEPT !.status = "pending"]
      /\ action' \in [Actions -> ActionRow]
  BY Types DEF RunDue, Stale, ActionRow
<1>2. /\ round' \subseteq Actions /\ UNCHANGED <<started, work, taken, refused, crashes>>
      /\ overrun' = overrun \cup {a \in Actions : Stale(a) /\ Working(a) # {}}
  BY DEF RunDue
<1>3. TypeOK'
  BY <1>1, <1>2 DEF TypeOK
<1>4. CountsOK'
  BY <1>1, <1>2, Types DEF CountsOK, ActionRow
<1>5. HonestRows'
  BY <1>1, <1>2, Types DEF HonestRows, ActionRow
<1>6. Exclusive'
  <2>1. OneWorker'
    BY <1>2 DEF Exclusive, OneWorker
  <2>2. ASSUME NEW w \in Workers, NEW a \in Actions \ overrun', work'[w].on = a
        PROVE  action'[a].status = "running"
    <3>1. a \notin overrun /\ work[w].on = a /\ ~Stale(a)
      BY <1>2, <2>2 DEF Working
    <3>2. action[a].status = "running"
      BY <3>1 DEF Exclusive
    <3>3. action'[a] = action[a]
      BY <3>1 DEF RunDue
    <3>4. QED
      BY <3>2, <3>3
  <2>3. QED
    BY <2>1, <2>2 DEF Exclusive
<1>7. QED
  BY <1>3, <1>4, <1>5, <1>6

LEMMA ClaimStep ==
  ASSUME IInv, NEW w \in Workers, NEW a \in Actions, Claim(w, a),
         started' \subseteq started, round' \subseteq round
  PROVE  IInv'
<1> USE Types DEF IInv
<1>1. CASE Claimable(a)
  <2>1. /\ action' = [action EXCEPT ![a].status = "running", ![a].old = FALSE]
        /\ work' = [work EXCEPT ![w].on = a, ![w].attempts = action[a].attempts]
        /\ UNCHANGED <<taken, refused, overrun, crashes>>
        /\ work[w] = Idle /\ action[a].status = "pending"
    BY <1>1 DEF Claim, Claimable
  <2>2. action[a].attempts <= Retries /\ action[a].attempts <= refused[a]
    BY <2>1 DEF CountsOK
  <2>3. action[a].attempts \in 0..Retries
    BY <2>2 DEF ActionRow
  <2>4. TypeOK'
    <3>1. action' \in [Actions -> ActionRow]
      <4>1. [action[a] EXCEPT !.status = "running", !.old = FALSE] \in ActionRow
        BY DEF ActionRow
      <4>2. action' = [action EXCEPT ![a] = [action[a] EXCEPT !.status = "running", !.old = FALSE]]
        BY <2>1
      <4>3. QED
        BY <4>1, <4>2
    <3>2. work' \in [Workers -> Task]
      <4>1. [work[w] EXCEPT !.on = a, !.attempts = action[a].attempts] \in Task
        BY <2>3 DEF Task
      <4>2. work' = [work EXCEPT ![w] = [work[w] EXCEPT !.on = a, !.attempts = action[a].attempts]]
        BY <2>1
      <4>3. QED
        BY <4>1, <4>2
    <3>3. QED
      BY <2>1, <3>1, <3>2 DEF TypeOK, Task
  <2> DEFINE row == [action[a] EXCEPT !.status = "running", !.old = FALSE]
             task == [work[w] EXCEPT !.on = a, !.attempts = action[a].attempts]
  <2>5. /\ row.status = "running" /\ row.attempts = action[a].attempts /\ ~row.old
        /\ task.on = a /\ task.attempts = action[a].attempts /\ task.result = "none"
    BY <2>1 DEF ActionRow, Idle
  <2>6. /\ action'[a] = row /\ \A b \in Actions \ {a} : action'[b] = action[b]
        /\ work'[w] = task /\ \A v \in Workers \ {w} : work'[v] = work[v]
    BY <2>1
  <2> HIDE DEF row, task
  <2>7. CountsOK'
    <3>1. \A b \in Actions :
            /\ action'[b].status = "none" => action'[b].attempts = 0
            /\ action'[b].status \in {"none", "pending", "running"} =>
                 action'[b].attempts <= Retries /\ action'[b].attempts <= refused[b]
      BY <2>2, <2>5, <2>6 DEF CountsOK
    <3>2. \A v \in Workers : \A b \in Actions :
            work'[v].on = b =>
              /\ work'[v].attempts <= refused[b]
              /\ work'[v].result = "ok" => b \in taken
              /\ work'[v].result = "error" => work'[v].attempts + 1 <= refused[b]
      BY <2>2, <2>5, <2>6 DEF CountsOK
    <3>3. \A v \in Workers : work'[v].on = Nobody => work'[v] = Idle
      BY <2>5, <2>6 DEF CountsOK
    <3>4. QED
      BY <2>1, <3>1, <3>2, <3>3 DEF CountsOK
  <2>8. HonestRows'
    BY <2>1, <2>5, <2>6 DEF HonestRows
  <2>9. Exclusive'
    BY <2>1, <2>5, <2>6 DEF Exclusive, OneWorker
  <2>10. QED
    BY <2>4, <2>7, <2>8, <2>9
<1>2. CASE ~Claimable(a)
  <2>1. UNCHANGED <<action, work, taken, refused, overrun, crashes>>
    BY <1>2 DEF Claim
  <2>2. QED
    BY <2>1 DEF TypeOK, CountsOK, HonestRows, Exclusive, OneWorker
<1>3. QED
  BY <1>1, <1>2

LEMMA ExecuteStep ==
  ASSUME IInv, NEW w \in Workers, Execute(w)
  PROVE  IInv'
<1> USE Types DEF IInv
<1>1. PICK a \in Actions : work[w].on = a
  BY DEF Execute, CountsOK, Task
<1>2. UNCHANGED <<action, started, round, overrun, crashes>> /\ work[w].result = "none"
  BY DEF Execute
<1>3. CASE /\ work' = [work EXCEPT ![w].result = "ok"]
           /\ taken' = taken \cup {a} /\ UNCHANGED refused
  <2>1. TypeOK' /\ HonestRows'
    BY <1>2, <1>3 DEF TypeOK, HonestRows, Task
  <2>2. CountsOK'
    BY <1>1, <1>2, <1>3 DEF CountsOK, Task
  <2>3. Exclusive'
    BY <1>1, <1>2, <1>3 DEF Exclusive, OneWorker, Task
  <2>4. QED
    BY <2>1, <2>2, <2>3
<1>4. CASE /\ work' = [work EXCEPT ![w].result = "error"]
           /\ refused' = [refused EXCEPT ![a] = IF @ > Retries THEN @ ELSE @ + 1]
           /\ UNCHANGED taken
  <2>1. /\ refused' \in [Actions -> 0..(Retries + 1)]
        /\ refused'[a] = IF refused[a] > Retries THEN refused[a] ELSE refused[a] + 1
        /\ \A b \in Actions : refused'[b] >= refused[b]
        /\ \A b \in Actions \ {a} : refused'[b] = refused[b]
    BY <1>4
  <2>2. work' \in [Workers -> Task] /\ work'[w] = [work[w] EXCEPT !.result = "error"]
          /\ \A v \in Workers \ {w} : work'[v] = work[v]
    BY <1>4 DEF Task
  <2>3. TypeOK'
    BY <1>2, <1>4, <2>1, <2>2 DEF TypeOK, Task
  <2>4. HonestRows'
    BY <1>2, <1>4, <2>1 DEF HonestRows
  <2>5. work[w].attempts \in 0..Retries /\ work[w].attempts + 1 <= refused'[a]
    <3>1. work[w].attempts \in 0..Retries /\ work[w].attempts <= refused[a]
      BY <1>1 DEF CountsOK, Task
    <3>2. QED
      BY <2>1, <3>1
  <2>6. CountsOK'
    <3>1. \A b \in Actions :
            /\ action[b].attempts \in 0..(Retries + 1)
            /\ refused[b] \in 0..(Retries + 1) /\ refused'[b] \in 0..(Retries + 1)
      BY <2>1 DEF ActionRow
    <3>2. \A v \in Workers : work[v].attempts \in 0..Retries
      BY DEF Task
    <3>3. work'[w].on = a /\ work'[w].attempts = work[w].attempts
            /\ work'[w].result = "error"
      BY <1>1, <2>2 DEF Task
    <3>4. QED
      BY <1>1, <1>2, <1>4, <2>1, <2>2, <2>5, <3>1, <3>2, <3>3 DEF CountsOK
  <2>7. Exclusive'
    <3>1. \A v \in Workers : work'[v].on = work[v].on
      BY <2>2 DEF Task
    <3>2. QED
      BY <1>2, <3>1 DEF Exclusive, OneWorker
  <2>8. QED
    BY <2>3, <2>4, <2>6, <2>7
<1>5. QED
  BY <1>1, <1>3, <1>4 DEF Execute

\* What an attempt that was the n-th makes of the row.
LEMMA EndedRow ==
  ASSUME TypeOK, NEW a \in Actions, NEW n \in 1..(Retries + 1),
         NEW result \in {"ok", "error"}
  PROVE  LET r == Ended(a, n, result) IN
         /\ r \in ActionRow /\ r.attempts = n
         /\ result = "ok" => r.status = "done"
         /\ result = "error" /\ n > Retries => r.status = "failed"
         /\ result = "error" /\ n <= Retries => r.status = "pending"
<1>1. action[a] \in ActionRow /\ n \in 0..(Retries + 1)
  BY Types
<1>2. CASE result = "ok"
  <2>1. Ended(a, n, result) = [action[a] EXCEPT !.status = "done", !.attempts = n]
    BY <1>2 DEF Ended
  <2>2. QED
    BY <1>1, <1>2, <2>1 DEF ActionRow
<1>3. CASE result = "error" /\ Spent(n)
  <2> DEFINE row == [action[a] EXCEPT !.status = "failed", !.attempts = n]
  <2>1. Ended(a, n, result) = row
    BY <1>3 DEF Ended
  <2>2. n > Retries /\ ~(n <= Retries)
    BY <1>3, Types DEF Spent
  <2>3. row \in ActionRow /\ row.attempts = n /\ row.status = "failed"
    BY <1>1 DEF ActionRow
  <2> HIDE DEF row
  <2>4. QED
    BY <1>3, <2>1, <2>2, <2>3
<1>4. CASE result = "error" /\ ~Spent(n)
  <2> DEFINE row == [action[a] EXCEPT !.status = "pending", !.attempts = n, !.due = FALSE]
  <2>1. Ended(a, n, result) = row
    BY <1>4 DEF Ended
  <2>2. ~(n > Retries)
    BY <1>4 DEF Spent
  <2>3. row \in ActionRow /\ row.attempts = n /\ row.status = "pending"
    BY <1>1 DEF ActionRow
  <2> HIDE DEF row
  <2>4. QED
    BY <1>4, <2>1, <2>2, <2>3, Types
<1>5. QED
  BY <1>2, <1>3, <1>4

LEMMA FinishStep ==
  ASSUME IInv, NEW w \in Workers, Finish(w)
  PROVE  IInv'
<1> USE Types DEF IInv
<1>1. PICK a \in Actions : work[w].on = a
  BY DEF Finish, CountsOK, Task, Idle
<1> DEFINE n == work[w].attempts + 1
           r == Ended(a, n, work[w].result)
<1>2. /\ work' = [work EXCEPT ![w] = Idle] /\ action' = [action EXCEPT ![a] = r]
      /\ overrun' = {b \in overrun : Working(b) # {w}}
      /\ UNCHANGED <<started, round, taken, refused, crashes>>
  BY <1>1 DEF Finish
<1>3. work[w].result \in {"ok", "error"} /\ n \in 1..(Retries + 1)
  BY DEF Finish, Task
<1>4. /\ r \in ActionRow
      /\ r.attempts = n
      /\ work[w].result = "ok" => r.status = "done"
      /\ work[w].result = "error" /\ n > Retries => r.status = "failed"
      /\ work[w].result = "error" /\ n <= Retries => r.status = "pending"
  BY <1>3, EndedRow
<1>5. /\ work[w].result = "ok" => a \in taken
      /\ work[w].result = "error" => n <= refused[a]
  BY <1>1 DEF CountsOK
<1>6. /\ action' \in [Actions -> ActionRow] /\ action'[a] = r
      /\ \A b \in Actions \ {a} : action'[b] = action[b]
      /\ work' \in [Workers -> Task] /\ work'[w] = Idle
      /\ \A v \in Workers \ {w} : work'[v] = work[v]
      /\ refused[a] \in 0..(Retries + 1)
  BY <1>2, <1>4 DEF Idle, Task
<1> HIDE DEF r, n
<1>7. TypeOK'
  BY <1>2, <1>6 DEF TypeOK, Task
<1>8. HonestRows'
  BY <1>2, <1>3, <1>4, <1>5, <1>6 DEF HonestRows
<1>9. CountsOK'
  BY <1>2, <1>3, <1>4, <1>5, <1>6 DEF CountsOK, Idle
<1>10. Exclusive'
  <2>1. \A v \in Workers : work'[v].on # Nobody => v # w /\ work'[v].on = work[v].on
    BY <1>6 DEF Idle
  <2>2. \A v \in Workers : v # w => v \in Working(work[v].on)
    BY DEF Working
  <2>3. \A v \in Workers : work'[v].on # Nobody /\ work[v].on \notin overrun' => work[v].on \notin overrun
    BY <1>2, <2>1, <2>2
  <2>4. OneWorker'
    BY <2>1, <2>3 DEF Exclusive, OneWorker
  <2>5. ASSUME NEW v \in Workers, NEW b \in Actions \ overrun', work'[v].on = b
        PROVE  action'[b].status = "running"
    <3>1. v # w /\ work[v].on = b /\ b \notin overrun
      BY <2>1, <2>3, <2>5
    <3>2. b # a
      BY <1>1, <3>1 DEF Exclusive, OneWorker
    <3>3. QED
      BY <1>6, <3>1, <3>2 DEF Exclusive
  <2>6. QED
    BY <2>4, <2>5 DEF Exclusive
<1>11. QED
  BY <1>7, <1>8, <1>9, <1>10

LEMMA TimeStep ==
  ASSUME IInv, NEW a \in Actions, Wait(a) \/ Grow(a)
  PROVE  IInv'
<1> USE Types DEF IInv
<1>1. UNCHANGED <<started, round, work, taken, refused, overrun, crashes>>
  BY DEF Wait, Grow
<1>2. /\ action' \in [Actions -> ActionRow]
      /\ \A b \in Actions : /\ action'[b].status = action[b].status
                            /\ action'[b].attempts = action[b].attempts
  <2>1. action[a] \in ActionRow
    OBVIOUS
  <2>2. CASE Wait(a)
    <3>1. action' = [action EXCEPT ![a] = [action[a] EXCEPT !.due = TRUE]]
      BY <2>2 DEF Wait
    <3>2. QED
      BY <2>1, <3>1 DEF ActionRow
  <2>3. CASE Grow(a)
    <3>1. action' = [action EXCEPT ![a] = [action[a] EXCEPT !.old = TRUE]]
      BY <2>3 DEF Grow
    <3>2. QED
      BY <2>1, <3>1 DEF ActionRow
  <2>4. QED
    BY <2>2, <2>3
<1>3. TypeOK'
  BY <1>1, <1>2 DEF TypeOK
<1>4. CountsOK' /\ HonestRows'
  BY <1>1, <1>2 DEF CountsOK, HonestRows
<1>5. Exclusive'
  BY <1>1, <1>2 DEF Exclusive, OneWorker
<1>6. QED
  BY <1>3, <1>4, <1>5

LEMMA CrashStep ==
  ASSUME IInv, Crash
  PROVE  IInv'
<1> USE Types DEF IInv, Crash
<1>1. \A v \in Workers : work'[v] = Idle
  OBVIOUS
<1>2. crashes' \in 0..MaxCrashes
  BY QueueAssumption DEF TypeOK
<1>3. TypeOK'
  BY <1>2, QueueAssumption DEF TypeOK, Idle
<1>4. CountsOK' /\ HonestRows'
  BY <1>1 DEF CountsOK, HonestRows, Idle
<1>5. Exclusive'
  BY <1>1 DEF Exclusive, OneWorker, Idle
<1>6. QED
  BY <1>3, <1>4, <1>5

-----------------------------------------------------------------------------
(* The theorems. *)

\* The invariant holds at the start, every step keeps it, and so it always
\* holds.
THEOREM Inductive == Spec => []IInv
<1>1. Init => IInv
  BY QueueAssumption DEF Init, IInv, TypeOK, CountsOK, HonestRows, Exclusive, OneWorker,
     NoAction, Idle, ActionRow, Workers
<1>2. IInv /\ [Next]_vars => IInv'
  <2> SUFFICES ASSUME IInv, [Next]_vars PROVE IInv'
    OBVIOUS
  <2>1. ASSUME NEW a \in Actions, ClaimAtOnce(a) \/ ClaimNext(a)
        PROVE  IInv'
    <3>1. a \in Workers /\ Job \in Workers
      BY DEF Workers
    <3>2. QED
      BY <2>1, <3>1, ClaimStep DEF ClaimAtOnce, ClaimNext
  <2>2. CASE UNCHANGED vars
    BY <2>2 DEF vars, IInv, TypeOK, CountsOK, HonestRows, Exclusive, OneWorker
  <2>3. QED
    BY <2>1, <2>2, EnqueueStep, RunDueStep, ExecuteStep, FinishStep, TimeStep, CrashStep
       DEF Next
<1>3. QED
  BY <1>1, <1>2, PTL DEF Spec

\* The table, the goroutines and the job's round keep their types; in
\* particular no wait beyond routerActionBackoff is ever looked up.
THEOREM TypeCorrect == Spec => []TypeOK
BY Inductive, PTL DEF IInv

\* An action reads done only if the router took it, and failed only if the
\* router failed the first attempt and every retry, also when routers hang.
THEOREM Honest == Spec => []HonestRows
BY Inductive, PTL DEF IInv

\* For any number of actions, retries and crashes and attempts of any length,
\* two attempts at one action overlap only once it was put back under one.
THEOREM OneAtATime == Spec => []OneWorker
BY Inductive, PTL DEF IInv, Exclusive

\* An ended action stays as it is, however long an attempt at another takes.
THEOREM EndedForGood == Spec => EndedStays
<1>1. ASSUME IInv, [Next]_vars, NEW a \in Actions \ overrun,
             action[a].status \in {"done", "failed"}
      PROVE  action'[a].status = action[a].status
  <2> USE <1>1, Types DEF IInv
  <2>1. \A w \in Workers : work[w].on # a
    BY DEF Exclusive
  <2>2. ASSUME NEW w \in Workers, Finish(w)
        PROVE  action'[a] = action[a]
    BY <2>1, <2>2 DEF Finish
  <2>3. ASSUME NEW w \in Workers, NEW b \in Actions, Claim(w, b)
        PROVE  action'[a] = action[a]
    BY <2>3 DEF Claim, Claimable
  <2>4. ASSUME NEW b \in Actions, Enqueue(b) \/ Wait(b) \/ Grow(b)
        PROVE  action'[a].status = action[a].status
    BY <2>4 DEF Enqueue, Wait, Grow, ActionRow
  <2>5. CASE RunDue
    BY <2>5 DEF RunDue, Stale
  <2>6. QED
    BY <2>2, <2>3, <2>4, <2>5 DEF Next, vars, ClaimAtOnce, ClaimNext, Execute, Crash
<1>2. IInv /\ [Next]_vars =>
        \A a \in Actions \ overrun : action[a].status \in {"done", "failed"} =>
          action'[a].status = action[a].status
  BY <1>1
<1>3. QED
  BY <1>2, Inductive, PTL DEF Spec, EndedStays

-----------------------------------------------------------------------------
(* RouterAccess: what a zone's router lets on.  Its tables, goroutines and  *)
(* restarts are named apart from those of RouterQueue.                      *)
CONSTANTS Logins, Ways, Window, MaxLost, Rec, Admins, Payers, MaxDates, MaxPushes, MaxSwitches, MaxRestarts
VARIABLES way, login, over, age, user, push, script, lost, missed, mode, rows, workers, late,
          dates, pushes, switches, restarts

Access == INSTANCE RouterAccess WITH MaxCrashes <- MaxRestarts,
            row <- rows, work <- workers, crashes <- restarts

Expiries == [Logins -> Access!Dates]
Stages == {"idle", "customers", "accounts", "write", "customer", "clear", "leave"}

ClockOK == dates \in Access!Dates /\ over \in 0..dates

LoginRow == [status : {"none", "active", "gone"}, until : Access!Dates]

LoginsOK ==
  /\ login \in [Logins -> LoginRow]
  /\ age \in [Logins -> 0..Window]

ScriptRow == [at : {"none", "made", "sent"}, line : [Logins -> Access!Lines], was : [Logins -> LoginRow], last : SUBSET Logins]
PushRow == [until : Access!Dates, at : {"none", "remove", "add"}]

RouterOK ==
  /\ user \in Expiries
  /\ push \in [Logins -> PushRow]
  /\ \A l \in Logins : push[l] = Access!NoPush \/ (push[l].at \in {"remove", "add"} /\ push[l].until \in 1..MaxDates)
  /\ script \in ScriptRow
  /\ lost \in 0..MaxLost /\ missed \subseteq Logins

WorkRow == [at : Stages, want : Expiries, have : Expiries, who : SUBSET Logins]

\* Each goroutine is in a stage of its own: only a platform request clears a
\* zone, and only a payment writes a single customer.
RadiusOK ==
  /\ mode \in {"api", "radius"} /\ late \in BOOLEAN /\ rows \in Expiries
  /\ workers \in [Access!Workers -> WorkRow]
  /\ Access!At(Rec, "idle") \/ Access!At(Rec, "customers") \/ Access!At(Rec, "accounts") \/ Access!At(Rec, "write")

\* Once a zone left with nobody at work no one writes its rows.
LeftOK == mode = "api" /\ ~late => rows = Access!Nobody /\ \A w \in Access!Workers : ~Access!Syncing(w)

AccessInv == Access!AccessAssumption /\ ClockOK /\ LoginsOK /\ RouterOK /\ RadiusOK /\ LeftOK

-----------------------------------------------------------------------------
LEMMA AccessValues ==
  ASSUME Access!AccessAssumption
  PROVE
  /\ 0 \in Access!Dates /\ Access!Dates \subseteq Nat /\ MaxDates \in Nat /\ Window \in Nat /\ MaxLost \in Nat
  /\ Window \in 0..Window /\ 0 \in 0..Window /\ 0 \in 0..MaxLost
  /\ Access!Nobody \in Expiries /\ Access!NoPush \in PushRow
  /\ Access!NoScript \in ScriptRow /\ Access!NoLogin \in LoginRow
  /\ Access!Free \in WorkRow /\ Access!Free.at = "idle"
  /\ Rec \in Access!Workers /\ Admins \subseteq Access!Workers /\ Payers \subseteq Access!Workers
  /\ Rec \notin Admins /\ Rec \notin Payers
<1>1. MaxDates \in Nat /\ Window \in Nat /\ MaxLost \in Nat /\ Rec \notin Admins /\ Rec \notin Payers
  BY DEF Access!AccessAssumption
<1>2. 0 \in Access!Dates /\ Access!Dates \subseteq Nat /\ Window \in 0..Window /\ 0 \in 0..Window /\ 0 \in 0..MaxLost
  BY <1>1 DEF Access!Dates
<1>3. Access!Nobody \in Expiries
  BY <1>2 DEF Access!Nobody, Expiries
<1>4. Access!NoPush \in PushRow
  BY <1>2 DEF Access!NoPush, PushRow
<1>5. Access!NoScript \in ScriptRow /\ Access!NoLogin \in LoginRow
  BY <1>2 DEF Access!NoScript, Access!NoLogin, Access!Lines, ScriptRow, LoginRow
<1>6. Access!Free \in WorkRow /\ Access!Free.at = "idle"
  BY <1>3 DEF Access!Free, WorkRow, Stages
<1>7. QED
  BY <1>1, <1>2, <1>3, <1>4, <1>5, <1>6 DEF Access!Workers

LEMMA ShouldIsDate ==
  ASSUME AccessInv, NEW l \in Logins
  PROVE  /\ Access!Should(l) \in Access!Dates /\ login[l].until \in Access!Dates
         /\ Access!PaidUp(l) => login[l].until \in 1..MaxDates
<1>1. login[l].until \in Access!Dates /\ over \in Nat
  BY AccessValues DEF AccessInv, LoginsOK, LoginRow, ClockOK, Access!Dates
<1>2. QED
  BY <1>1, AccessValues DEF AccessInv, Access!Should, Access!PaidUp, Access!Dates

-----------------------------------------------------------------------------
\* A login is granted, or ends.
LEMMA PlanStep ==
  ASSUME AccessInv, NEW l \in Logins, Access!Grant(l) \/ Access!Retire(l)
  PROVE  AccessInv'
<1>1. UNCHANGED <<user, push, script, lost, mode, rows, workers, late>> /\ missed' = missed \ {l}
  BY DEF Access!Grant, Access!Retire, Access!Router, Access!Radius
<1>2. RouterOK' /\ RadiusOK' /\ LeftOK'
  BY <1>1 DEF AccessInv, RouterOK, RadiusOK, LeftOK, Access!At, Access!Syncing
<1>3. CASE Access!Grant(l)
  <2>1. dates + 1 \in Access!Dates /\ over \in 0..(dates + 1)
    BY <1>3, AccessValues DEF Access!Grant, AccessInv, ClockOK, Access!Dates
  <2>2. ClockOK'
    BY <1>3, <2>1 DEF Access!Grant, ClockOK, Access!Dates
  <2>3. LoginsOK'
    BY <1>3, <2>1, AccessValues DEF Access!Grant, AccessInv, LoginsOK, LoginRow, Access!Dates
  <2>4. QED
    BY <1>2, <2>2, <2>3 DEF AccessInv
<1>4. CASE Access!Retire(l)
  <2>1. LoginsOK'
    BY <1>4, AccessValues DEF Access!Retire, AccessInv, LoginsOK, LoginRow
  <2>2. ClockOK'
    BY <1>4 DEF Access!Retire, AccessInv, ClockOK, Access!Dates
  <2>3. QED
    BY <1>2, <2>1, <2>2 DEF AccessInv
<1>5. QED
  BY <1>3, <1>4

\* The script and the pushes.
LEMMA ScriptInv ==
  ASSUME AccessInv, Access!ScriptStep
  PROVE  AccessInv'
<1>1. UNCHANGED <<login, over, dates, mode, rows, workers, late>>
  BY DEF Access!ScriptStep, Access!Generate, Access!Stamp, Access!Import, Access!Lose, Access!PushStart, Access!Pushing, Access!PushRemove, Access!PushAdd, Access!PushFail,
         Access!Plans, Access!Radius
<1>2. ClockOK' /\ RadiusOK' /\ LeftOK'
  BY <1>1 DEF AccessInv, ClockOK, RadiusOK, LeftOK, Access!At, Access!Busy, Access!Syncing, Access!Dates
<1>3. CASE Access!Generate
  <2>1. \A l \in Logins : Access!Line(l) \in Access!Lines
    BY DEF Access!Line, Access!Lines
  <2>2. script' \in ScriptRow
    BY <1>3, <2>1 DEF Access!Generate, AccessInv, LoginsOK, ScriptRow
  <2>3. RouterOK'
    BY <1>3, <2>2 DEF Access!Generate, AccessInv, RouterOK
  <2>4. LoginsOK'
    BY <1>3 DEF Access!Generate, Access!Plans, AccessInv, LoginsOK
  <2>5. QED
    BY <1>2, <2>3, <2>4 DEF AccessInv
<1>4. CASE Access!Stamp
  <2>1. PICK quiet \in SUBSET Logins :
          /\ script' = [script EXCEPT !.at = "sent", !.last = quiet]
          /\ age' = [l \in Logins |-> IF script.was[l] # login[l] THEN 0
                                      ELSE IF Access!Recent(l) /\ l \notin quiet THEN age[l] + 1 ELSE Window]
    BY <1>4 DEF Access!Stamp
  <2>2. \A l \in Logins : Access!Recent(l) => age[l] + 1 \in 0..Window
    BY AccessValues DEF AccessInv, LoginsOK, Access!Recent
  <2>3. LoginsOK'
    <3>1. login' = login
      BY <1>4 DEF Access!Stamp
    <3>2. QED
      BY <2>1, <2>2, <3>1, AccessValues DEF AccessInv, LoginsOK
  <2>4. script' \in ScriptRow
    BY <2>1 DEF AccessInv, RouterOK, ScriptRow
  <2>5. RouterOK'
    BY <1>4, <2>4 DEF Access!Stamp, AccessInv, RouterOK
  <2>6. QED
    BY <1>2, <2>3, <2>5 DEF AccessInv
<1>5. CASE Access!Import
  <2>1. \A l \in Logins : Access!Imported(l) \in Access!Dates
    BY AccessValues DEF AccessInv, RouterOK, Access!Imported, Expiries, ScriptRow, LoginRow
  <2>2. RouterOK'
    BY <1>5, <2>1, AccessValues DEF Access!Import, AccessInv, RouterOK, Expiries
  <2>3. LoginsOK'
    BY <1>5 DEF Access!Import, Access!Plans, AccessInv, LoginsOK
  <2>4. QED
    BY <1>2, <2>2, <2>3 DEF AccessInv
<1>6. CASE Access!Lose
  <2>1. RouterOK'
    BY <1>6, AccessValues DEF Access!Lose, AccessInv, RouterOK, ScriptRow
  <2>2. LoginsOK'
    BY <1>6 DEF Access!Lose, Access!Plans, AccessInv, LoginsOK
  <2>3. QED
    BY <1>2, <2>1, <2>2 DEF AccessInv
<1>7. ASSUME NEW l \in Logins, Access!PushStart(l) PROVE AccessInv'
  <2>1. login[l].until \in 1..MaxDates /\ login[l].until \in Access!Dates
    BY <1>7, ShouldIsDate DEF Access!PushStart, Access!Pushable
  <2>2. RouterOK'
    BY <1>7, <2>1 DEF Access!PushStart, AccessInv, RouterOK, PushRow
  <2>3. LoginsOK'
    BY <1>7 DEF Access!PushStart, Access!Plans, AccessInv, LoginsOK
  <2>4. QED
    BY <1>2, <2>2, <2>3 DEF AccessInv
<1>8. ASSUME NEW l \in Logins, Access!Pushing(l) PROVE AccessInv'
  <2>1. ASSUME Access!PushRemove(l) PROVE RouterOK'
    BY <2>1, AccessValues DEF Access!PushRemove, AccessInv, RouterOK, PushRow, Expiries, Access!NoPush
  <2>2. ASSUME Access!PushAdd(l) PROVE RouterOK'
    BY <2>2, AccessValues DEF Access!PushAdd, AccessInv, RouterOK, PushRow, Expiries
  <2>3. ASSUME Access!PushFail(l) PROVE RouterOK'
    BY <2>3, AccessValues DEF Access!PushFail, AccessInv, RouterOK, PushRow
  <2>4. RouterOK'
    BY <1>8, <2>1, <2>2, <2>3 DEF Access!Pushing
  <2>5. LoginsOK'
    BY <1>8 DEF Access!Pushing, Access!PushRemove, Access!PushAdd, Access!PushFail, Access!Plans, AccessInv, LoginsOK
  <2>6. QED
    BY <1>2, <2>4, <2>5 DEF AccessInv
<1>9. QED
  BY <1>3, <1>4, <1>5, <1>6, <1>7, <1>8 DEF Access!ScriptStep

-----------------------------------------------------------------------------
\* A goroutine takes its next step.
LEMMA WorkMoves ==
  ASSUME AccessInv, NEW w \in Access!Workers, NEW r \in WorkRow, workers' = [workers EXCEPT ![w] = r]
  PROVE  workers' \in [Access!Workers -> WorkRow] /\ workers'[w] = r /\ \A v \in Access!Workers \ {w} : workers'[v] = workers[v]
  BY DEF AccessInv, RadiusOK

LEMMA SyncZoneStep ==
  ASSUME AccessInv, NEW w \in Access!Workers, Access!SyncZone(w)
  PROVE  RadiusOK' /\ LeftOK'
<1>1. workers[w] \in WorkRow /\ UNCHANGED <<mode, late>>
  BY DEF Access!SyncZone, Access!ReadCustomers, Access!ReadAccounts, Access!WriteZone, AccessInv, RadiusOK
<1>2. mode = "radius" \/ late
  BY DEF Access!SyncZone, Access!ReadCustomers, Access!ReadAccounts, Access!WriteZone, Access!At, Access!Syncing, AccessInv, RadiusOK, LeftOK
<1>3. CASE Access!ReadCustomers(w)
  <2>1. [l \in Logins |-> Access!Should(l)] \in Expiries
    BY ShouldIsDate DEF Expiries
  <2>2. PICK r \in WorkRow : workers' = [workers EXCEPT ![w] = r] /\ r.at = "accounts" /\ rows' = rows
    <3> DEFINE new == [workers[w] EXCEPT !.at = "accounts", !.want = [l \in Logins |-> Access!Should(l)]]
    <3>1. new \in WorkRow /\ new.at = "accounts"
      BY <1>1, <2>1 DEF WorkRow, Stages
    <3>2. workers' = [workers EXCEPT ![w] = new] /\ rows' = rows
      BY <1>3 DEF Access!ReadCustomers
    <3> HIDE DEF new
    <3>3. QED
      BY <3>1, <3>2
  <2>3. QED
    BY <1>1, <1>2, <2>2, WorkMoves, AccessValues DEF AccessInv, RadiusOK, LeftOK, Access!At
<1>4. CASE Access!ReadAccounts(w)
  <2>1. PICK r \in WorkRow : workers' = [workers EXCEPT ![w] = r] /\ r.at = "write" /\ rows' = rows
    <3> DEFINE new == [workers[w] EXCEPT !.at = "write", !.have = rows]
    <3>1. new \in WorkRow /\ new.at = "write"
      BY <1>1 DEF WorkRow, Stages, AccessInv, RadiusOK
    <3>2. workers' = [workers EXCEPT ![w] = new] /\ rows' = rows
      BY <1>4 DEF Access!ReadAccounts
    <3> HIDE DEF new
    <3>3. QED
      BY <3>1, <3>2
  <2>2. QED
    BY <1>1, <1>2, <2>1, WorkMoves, AccessValues DEF AccessInv, RadiusOK, LeftOK, Access!At
<1>5. CASE Access!WriteZone(w)
  <2>1. rows' \in Expiries
    BY <1>1, <1>5 DEF Access!WriteZone, AccessInv, RadiusOK, WorkRow, Expiries
  <2>2. workers' = [workers EXCEPT ![w] = Access!Free]
    BY <1>5 DEF Access!WriteZone
  <2>3. QED
    BY <1>1, <1>2, <2>1, <2>2, WorkMoves, AccessValues DEF AccessInv, RadiusOK, LeftOK, Access!At
<1>6. QED
  BY <1>3, <1>4, <1>5 DEF Access!SyncZone

\* A payment's goroutine reads a customer and writes that customer's rows.
LEMMA PayReads ==
  ASSUME AccessInv, NEW w \in Payers, NEW l \in Logins, Access!PaySync(w, l)
  PROVE  RadiusOK' /\ LeftOK'
<1>1. w \in Access!Workers /\ w # Rec
  BY AccessValues DEF AccessInv
<1>2. [Access!Free EXCEPT !.at = "customer", !.who = {l}, !.want[l] = Access!Should(l)] \in WorkRow
  <2>1. [Access!Free.want EXCEPT ![l] = Access!Should(l)] \in Expiries
    BY AccessValues, ShouldIsDate DEF AccessInv, WorkRow, Expiries
  <2>2. QED
    BY <2>1, AccessValues DEF AccessInv, WorkRow, Stages
<1>3. PICK r \in WorkRow : workers' = [workers EXCEPT ![w] = r]
  BY <1>2 DEF Access!PaySync
<1>4. mode = "radius" /\ UNCHANGED <<mode, rows, late>>
  BY DEF Access!PaySync, Access!OnRadius
<1>5. QED
  BY <1>1, <1>3, <1>4, WorkMoves, AccessValues DEF AccessInv, RadiusOK, LeftOK, Access!At

LEMMA PayWrites ==
  ASSUME AccessInv, NEW w \in Payers, Access!WriteCustomer(w)
  PROVE  RadiusOK' /\ LeftOK'
<1>1. w \in Access!Workers /\ w # Rec
  BY AccessValues DEF AccessInv
<1>2. workers' = [workers EXCEPT ![w] = Access!Free] /\ UNCHANGED <<mode, late>> /\ (mode = "radius" \/ late)
  BY <1>1 DEF Access!WriteCustomer, Access!At, Access!Syncing, AccessInv, RadiusOK, LeftOK
<1>3. rows' \in Expiries
  BY <1>1 DEF Access!WriteCustomer, AccessInv, RadiusOK, WorkRow, Expiries
<1>4. QED
  BY <1>1, <1>2, <1>3, WorkMoves, AccessValues DEF AccessInv, RadiusOK, LeftOK, Access!At

\* A platform request puts a zone on RADIUS or takes it off.
LEMMA SwitchStep ==
  ASSUME AccessInv, NEW a \in Admins, Access!Enable(a) \/ Access!Disable(a) \/ Access!Switching(a)
  PROVE  RadiusOK' /\ LeftOK'
<1>1. a \in Access!Workers /\ a # Rec /\ workers[a] \in WorkRow
  BY AccessValues DEF AccessInv, RadiusOK
<1>2. CASE Access!Enable(a)
  <2>1. PICK r \in WorkRow : workers' = [workers EXCEPT ![a] = r]
    <3> DEFINE new == [workers[a] EXCEPT !.at = "customers"]
    <3>1. new \in WorkRow
      BY <1>1 DEF WorkRow, Stages
    <3>2. workers' = [workers EXCEPT ![a] = new]
      BY <1>2 DEF Access!Enable
    <3> HIDE DEF new
    <3>3. QED
      BY <3>1, <3>2
  <2>2. mode' \in {"api", "radius"} /\ late' = (mode' = "api") /\ rows' = rows
    BY <1>2 DEF Access!Enable, AccessInv, RadiusOK
  <2>3. QED
    BY <1>1, <2>1, <2>2, WorkMoves, AccessValues DEF AccessInv, RadiusOK, LeftOK, Access!At
<1>3. CASE Access!Disable(a)
  <2>1. PICK r \in WorkRow : workers' = [workers EXCEPT ![a] = r] /\ r.at = "clear"
    <3> DEFINE new == [Access!Free EXCEPT !.at = "clear", !.have = rows]
    <3>1. new \in WorkRow /\ new.at = "clear"
      BY AccessValues DEF AccessInv, RadiusOK, WorkRow, Stages
    <3>2. workers' = [workers EXCEPT ![a] = new]
      BY <1>3 DEF Access!Disable
    <3> HIDE DEF new
    <3>3. QED
      BY <3>1, <3>2
  <2>2. UNCHANGED <<mode, rows, late>>
    BY <1>3 DEF Access!Disable
  <2>3. QED
    BY <1>1, <2>1, <2>2, WorkMoves, AccessValues DEF AccessInv, RadiusOK, LeftOK, Access!At, Access!Syncing
<1>4. CASE Access!ClearZone(a)
  <2>1. PICK r \in WorkRow : workers' = [workers EXCEPT ![a] = r] /\ r.at = "leave"
    <3> DEFINE new == [Access!Free EXCEPT !.at = "leave"]
    <3>1. new \in WorkRow /\ new.at = "leave"
      BY AccessValues DEF AccessInv, WorkRow, Stages
    <3>2. workers' = [workers EXCEPT ![a] = new]
      BY <1>4 DEF Access!ClearZone
    <3> HIDE DEF new
    <3>3. QED
      BY <3>1, <3>2
  <2>2. UNCHANGED <<mode, late>>
    BY <1>4 DEF Access!ClearZone
  <2>3. rows' \in Expiries /\ (rows = Access!Nobody => rows' = Access!Nobody)
    BY <1>4, AccessValues DEF Access!ClearZone, AccessInv, RadiusOK, Expiries, Access!Nobody
  <2>4. QED
    BY <1>1, <2>1, <2>2, <2>3, WorkMoves, AccessValues DEF AccessInv, RadiusOK, LeftOK, Access!At, Access!Syncing
<1>5. CASE Access!Leave(a)
  <2>1. /\ workers' = [workers EXCEPT ![a] = Access!Free] /\ mode' = "api" /\ rows' = rows
        /\ late' = (rows # Access!Nobody \/ \E w \in Access!Workers : Access!Syncing(w))
    BY <1>5 DEF Access!Leave
  <2>2. RadiusOK'
    BY <1>1, <2>1, WorkMoves, AccessValues DEF AccessInv, RadiusOK, Access!At
  <2>3. LeftOK'
    BY <1>1, <2>1, WorkMoves, AccessValues DEF AccessInv, RadiusOK, LeftOK, Access!Syncing
  <2>4. QED
    BY <2>2, <2>3
<1>6. QED
  BY <1>2, <1>3, <1>4, <1>5 DEF Access!Switching

\* A transaction fails.
LEMMA UndoneStep ==
  ASSUME AccessInv, NEW w \in Access!Workers, Access!Undone(w)
  PROVE  RadiusOK' /\ LeftOK'
<1>1. [Access!Free EXCEPT !.at = "leave"] \in WorkRow /\ Access!Free \in WorkRow
  BY AccessValues DEF AccessInv, WorkRow, Stages
<1>2. UNCHANGED <<mode, rows, late>>
  BY DEF Access!Undone
<1>3. CASE Access!At(w, "clear")
  <2>1. workers' = [workers EXCEPT ![w] = [Access!Free EXCEPT !.at = "leave"]] /\ w # Rec
    BY <1>3 DEF Access!Undone, Access!At, AccessInv, RadiusOK
  <2>2. [Access!Free EXCEPT !.at = "leave"].at = "leave"
    BY <1>1 DEF Access!Free
  <2>3. PICK r \in WorkRow : workers' = [workers EXCEPT ![w] = r] /\ r.at = "leave"
    BY <1>1, <2>1, <2>2
  <2>4. QED
    BY <1>2, <2>1, <2>3, WorkMoves, AccessValues DEF AccessInv, RadiusOK, LeftOK, Access!At, Access!Syncing
<1>4. CASE ~Access!At(w, "clear")
  <2>1. workers' = [workers EXCEPT ![w] = Access!Free]
    BY <1>4 DEF Access!Undone
  <2>2. QED
    BY <1>1, <1>2, <2>1, WorkMoves, AccessValues DEF AccessInv, RadiusOK, LeftOK, Access!At, Access!Syncing
<1>5. QED
  BY <1>3, <1>4

LEMMA RadiusInv ==
  ASSUME AccessInv, Access!RadiusStep
  PROVE  AccessInv'
<1>1. UNCHANGED <<login, over, age, dates, user, push, script, lost, missed>>
  BY DEF Access!RadiusStep, Access!Pick, Access!SyncZone, Access!ReadCustomers, Access!ReadAccounts, Access!WriteZone, Access!WriteCustomer, Access!PaySync,
         Access!Enable, Access!Disable, Access!Switching, Access!ClearZone, Access!Leave, Access!Undone, Access!Plans, Access!Router
<1>2. ClockOK' /\ LoginsOK' /\ RouterOK'
  BY <1>1 DEF AccessInv, ClockOK, LoginsOK, RouterOK
<1>3. CASE Access!Pick
  <2>1. PICK r \in WorkRow : workers' = [workers EXCEPT ![Rec] = r] /\ r.at = "customers"
    <3> DEFINE new == [workers[Rec] EXCEPT !.at = "customers"]
    <3>1. new \in WorkRow /\ new.at = "customers"
      BY AccessValues DEF AccessInv, RadiusOK, WorkRow, Stages
    <3>2. workers' = [workers EXCEPT ![Rec] = new]
      BY <1>3 DEF Access!Pick
    <3> HIDE DEF new
    <3>3. QED
      BY <3>1, <3>2
  <2>2. mode = "radius" /\ UNCHANGED <<mode, rows, late>>
    BY <1>3 DEF Access!Pick
  <2>3. QED
    BY <1>2, <2>1, <2>2, WorkMoves, AccessValues DEF AccessInv, RadiusOK, LeftOK, Access!At
<1>4. ASSUME NEW w \in {Rec} \cup Admins, Access!SyncZone(w) PROVE AccessInv'
  BY <1>2, <1>4, SyncZoneStep DEF AccessInv, Access!Workers
<1>5. ASSUME NEW w \in Access!Workers, Access!Undone(w) PROVE AccessInv'
  BY <1>2, <1>5, UndoneStep DEF AccessInv
<1>6. ASSUME NEW w \in Payers, Access!WriteCustomer(w) PROVE AccessInv'
  BY <1>2, <1>6, PayWrites DEF AccessInv
<1>7. ASSUME NEW w \in Payers, NEW l \in Logins, Access!PaySync(w, l) PROVE AccessInv'
  BY <1>2, <1>7, PayReads DEF AccessInv
<1>8. ASSUME NEW a \in Admins, Access!Enable(a) \/ Access!Disable(a) \/ Access!Switching(a) PROVE AccessInv'
  BY <1>2, <1>8, SwitchStep DEF AccessInv
<1>9. QED
  BY <1>3, <1>4, <1>5, <1>6, <1>7, <1>8 DEF Access!RadiusStep

LEMMA RestartStep ==
  ASSUME AccessInv, Access!Crash
  PROVE  AccessInv'
<1>1. /\ UNCHANGED <<login, over, age, dates, user, lost, missed, mode, rows, late>>
      /\ push' = [l \in Logins |-> Access!NoPush] /\ workers' = [w \in Access!Workers |-> Access!Free]
      /\ script' \in {script, Access!NoScript}
  BY DEF Access!Crash, Access!Plans
<1>2. ClockOK' /\ LoginsOK'
  BY <1>1 DEF AccessInv, ClockOK, LoginsOK
<1>3. RouterOK'
  BY <1>1, AccessValues DEF AccessInv, RouterOK
<1>4. RadiusOK' /\ LeftOK'
  BY <1>1, AccessValues DEF AccessInv, RadiusOK, LeftOK, Access!At, Access!Busy, Access!Syncing
<1>5. QED
  BY <1>2, <1>3, <1>4 DEF AccessInv

-----------------------------------------------------------------------------
LEMMA AccessInit ==
  ASSUME Access!AccessAssumption, Access!Init
  PROVE  AccessInv
<1>1. ClockOK
  BY AccessValues DEF Access!Init, ClockOK, Access!Dates
<1>2. LoginsOK
  BY AccessValues DEF Access!Init, LoginsOK
<1>3. RouterOK
  BY AccessValues DEF Access!Init, RouterOK
<1>4. RadiusOK /\ LeftOK
  BY AccessValues DEF Access!Init, RadiusOK, LeftOK, Access!At, Access!Busy, Access!Syncing
<1>5. QED
  BY <1>1, <1>2, <1>3, <1>4 DEF AccessInv

LEMMA AccessNext == AccessInv /\ [Access!Next]_Access!vars => AccessInv'
<1> SUFFICES ASSUME AccessInv, [Access!Next]_Access!vars PROVE AccessInv'
  OBVIOUS
<1>1. CASE UNCHANGED Access!vars
  BY <1>1 DEF Access!vars, AccessInv, ClockOK, LoginsOK, RouterOK, RadiusOK, LeftOK, Access!At, Access!Busy, Access!Syncing
<1>2. ASSUME NEW l \in Logins, Access!Grant(l) \/ Access!Retire(l) PROVE AccessInv'
  BY <1>2, PlanStep
<1>3. CASE Access!Lapse
  <2>1. UNCHANGED <<login, age, user, push, script, lost, missed, mode, rows, workers, late, dates>>
    BY <1>3 DEF Access!Lapse, Access!Router, Access!Radius
  <2>2. ClockOK'
    BY <1>3, <2>1, AccessValues DEF Access!Lapse, AccessInv, ClockOK, Access!Dates
  <2>3. QED
    BY <2>1, <2>2 DEF AccessInv, LoginsOK, RouterOK, RadiusOK, LeftOK, Access!At, Access!Busy, Access!Syncing
<1>4. CASE Access!ScriptStep
  BY <1>4, ScriptInv
<1>5. CASE Access!RadiusStep
  BY <1>5, RadiusInv
<1>6. CASE Access!Crash
  BY <1>6, RestartStep
<1>7. QED
  BY <1>1, <1>2, <1>3, <1>4, <1>5, <1>6 DEF Access!Next

LEMMA AccessInductive ==
  ASSUME Access!AccessAssumption
  PROVE  Access!Spec => []AccessInv
  BY AccessInit, AccessNext, PTL DEF Access!Spec

\* The logins, the router, the tables and the goroutines always have values the
\* code gives them.
THEOREM AccessTypesHold ==
  ASSUME Access!AccessAssumption
  PROVE  Access!Spec => []Access!TypeOK
<1>1. AccessInv => Access!TypeOK
  BY AccessValues DEF AccessInv, ClockOK, LoginsOK, RouterOK, RadiusOK, LoginRow, PushRow, ScriptRow, WorkRow, Expiries, Stages, Access!TypeOK
<1>2. QED
  BY <1>1, AccessInductive, PTL

\* However many platform requests, payments, rounds, failed transactions and
\* crashes overlap, a zone that left RADIUS with no rows and nobody about to
\* write any has none (PlatformZoneRadiusSet, ClearZone, SyncZone, SyncCustomer).
THEOREM LeftStaysEmpty ==
  ASSUME Access!AccessAssumption
  PROVE  Access!Spec => []Access!LeftIsEmpty
<1>1. AccessInv => Access!LeftIsEmpty
  BY DEF AccessInv, LeftOK, Access!LeftIsEmpty
<1>2. QED
  BY <1>1, AccessInductive, PTL
=============================================================================
