----------------------- MODULE CustomerAccountProofs -----------------------
(***************************************************************************)
(* Machine-checked proofs about CustomerAccount, for any customers,        *)
(* payments and requests, and any operations that meet.                    *)
(***************************************************************************)
EXTENDS CustomerAccount, FiniteSetTheorems, TLAPS

-----------------------------------------------------------------------------
(* The inductive invariant. *)

\* A row that is not there has nothing on it.
RowsOK == \A c \in Customers : ~Exists(c) => customer[c] = NoRow

\* What a request that will write back has in its copy, whatever was written
\* to the row meanwhile.
CopyOK(h) ==
  LET t == task[h] IN
    /\ t.at = "buy" => t.row.credit >= Price
    /\ t.at = "expire" => t.row.until < now
    /\ t.at \in {"migrate", "take", "save"} => t.c \notin Guests
    /\ t.at \in {"migrate", "take"} => t.row.status = "expired"
    /\ t.at = "take" => t.p \in Guests
    /\ t.at = "migrate" => t.row.until = 0
    /\ t.at = "save" => \/ t.row.status = "active"
                        \/ t.row.status = "expired" /\ t.row.until = 0
    /\ t.at = "trial" => t.row.status = "active"
    /\ t.at \in {"completed", "serve"} => t.p \in Payments /\ t.c = PayerOf[t.p]

\* And that the row is as it was read, unless the customer is in raced.
FreshOK(h) ==
  LET t == task[h]
      x == customer[t.c]
  IN  t.at \in WriteBack /\ t.c \notin raced =>
        /\ t.at \in {"expire", "buy", "serve", "update"} => t.row = x
        /\ t.at \in {"migrate", "take", "save", "trial"} => t.row.credit = x.credit
        /\ t.at \in {"migrate", "take"} => ~Lasts(x.until)
        /\ t.at = "save" /\ Lasts(x.until) => t.row.until >= x.until

\* Whom the loops have loaded is still overdue, or abandoned.
LoopsOK ==
  /\ \A c \in sweep \ raced : customer[c].until # 0 /\ customer[c].until < now
  /\ \A c \in purge \ raced : customer[c].status \notin {"none", "active"}

At(c, stage) == {h \in Handlers : task[h].c = c /\ task[h].at = stage}

\* The books, with what manual payments have yet to log.
Worth(c) == customer[c].credit - logged[c] + unlogged[c]
Owed(c)  == Cardinality(At(c, "manuallog")) - Cardinality(At(c, "debitlog"))
BooksOK  == \A c \in Customers \ (raced \cup torn \cup wiped) : Worth(c) = Price * Owed(c)

\* The request that serves a payment.
Serves(h, p) == /\ task[h].at \in {"completed", "serve"}
                /\ task[h].p = p /\ task[h].c = PayerOf[p]

ServedOK == \A p \in Payments :
              payment[p] = "completed" =>
                PayerOf[p] \in torn \/ \E h \in Handlers : Serves(h, p)

TasksOK == \A h \in Handlers : task[h] # Idle => CopyOK(h) /\ FreshOK(h)

IInv == /\ TypeOK /\ RowsOK /\ TasksOK /\ LoopsOK /\ PaidTimeKept
        /\ BooksOK /\ ServedOK

-----------------------------------------------------------------------------
(* What steps keep. *)

Task == [at : Stages, c : Customers, row : Row, p : Customers \cup Payments \cup {Nobody}]

\* A request at some stage has a customer and a copy.
LEMMA AtWork ==
  ASSUME AccountAssumption, TypeOK, NEW h \in Handlers, task[h].at \in Stages
  PROVE  /\ task[h] # Idle /\ task[h] \in Task
         /\ task[h].c \in Customers /\ task[h].row \in Row
<1>1. "idle" \notin Stages
  BY DEF Stages, WriteBack
<1>2. QED
  BY <1>1 DEF TypeOK, Idle, Task

LEMMA Resting ==
  ASSUME AccountAssumption, TypeOK, NEW h \in Handlers, task[h] # Idle
  PROVE  task[h] \in Task /\ task[h].at \in Stages /\ task[h].c \in Customers
BY DEF TypeOK, Task

\* Go and End change the task of one request.
LEMMA GoTask ==
  ASSUME TypeOK, NEW h \in Handlers, NEW stage \in Stages, NEW c \in Customers,
         NEW row \in Row, NEW p \in Customers \cup Payments \cup {Nobody},
         Go(h, stage, c, row, p)
  PROVE  /\ task' \in [Handlers -> {Idle} \cup Task]
         /\ task'[h] = [at |-> stage, c |-> c, row |-> row, p |-> p]
         /\ \A k \in Handlers \ {h} : task'[k] = task[k]
<1>1. task \in [Handlers -> {Idle} \cup Task]
  BY DEF TypeOK, Task
<1>2. [at |-> stage, c |-> c, row |-> row, p |-> p] \in Task
  BY DEF Task
<1>3. QED
  BY <1>1, <1>2 DEF Go

LEMMA EndTask ==
  ASSUME TypeOK, NEW h \in Handlers, End(h)
  PROVE  /\ task' \in [Handlers -> {Idle} \cup Task]
         /\ task'[h] = Idle
         /\ \A k \in Handlers \ {h} : task'[k] = task[k]
<1>1. task \in [Handlers -> {Idle} \cup Task]
  BY DEF TypeOK, Task
<1>2. QED
  BY <1>1 DEF End

\* The customers table after a step of the writer by: whoever else holds a copy
\* of a row that is not in raced holds the row that is there.
Careful(by) ==
  /\ customer' \in [Customers -> Row] /\ raced \subseteq raced' /\ raced' \subseteq Customers
  /\ \A h \in Handlers \ {by} : task[h].at \in WriteBack /\ task[h].c \notin raced' =>
       customer'[task[h].c] = customer[task[h].c]
  /\ \A c \in sweep \ raced' : by = "sweep" \/ customer'[c] = customer[c]
  /\ \A c \in (purge \cap purge') \ raced' : customer'[c] = customer[c]

LEMMA WriteIsCareful ==
  ASSUME AccountAssumption, TypeOK, NEW c \in Customers, NEW row \in Row,
         NEW by \in Handlers \cup {Nobody, "sweep"}, Write(c, row, by)
  PROVE  /\ Careful(by) /\ customer'[c] = row
         /\ \A d \in Customers \ {c} : customer'[d] = customer[d]
<1>1. /\ customer' \in [Customers -> Row] /\ customer'[c] = row
      /\ \A d \in Customers \ {c} : customer'[d] = customer[d]
  BY DEF Write, TypeOK
<1>2. raced \subseteq raced' /\ raced' \subseteq Customers
  BY DEF Write, TypeOK
<1>3. \A w \in Holders(c) : w = by \/ row = customer[c] \/ c \in raced'
  BY DEF Write
<1>4. ASSUME NEW h \in Handlers \ {by}, task[h].at \in WriteBack, task[h].c \notin raced'
      PROVE  customer'[task[h].c] = customer[task[h].c]
  <2>1. task[h].c \in Customers
    BY <1>4, AtWork DEF Stages
  <2>2. CASE task[h].c = c
    <3>1. h \in Holders(c)
      BY <1>4, <2>2 DEF Holders
    <3>2. QED
      BY <1>1, <1>3, <1>4, <2>2, <3>1
  <2>3. QED
    BY <1>1, <2>1, <2>2
<1>5. ASSUME NEW d \in sweep \ raced', by # "sweep" PROVE customer'[d] = customer[d]
  <2>1. d = c => "sweep" \in Holders(c)
    BY DEF Holders
  <2>2. QED
    BY <1>1, <1>3, <1>5, <2>1 DEF TypeOK
<1>6. ASSUME NEW d \in purge \ raced' PROVE customer'[d] = customer[d]
  <2>1. d = c => "purge" \in Holders(c)
    BY DEF Holders
  <2>2. by # "purge" /\ d \in Customers
    BY DEF AccountAssumption, TypeOK
  <2>3. QED
    BY <1>1, <1>3, <1>6, <2>1, <2>2
<1>7. QED
  BY <1>1, <1>2, <1>4, <1>5, <1>6 DEF Careful

\* An UPDATE by id writes the row, or the row that is there.
LEMMA UpdateIsWrite ==
  ASSUME TypeOK, NEW c \in Customers, NEW row \in Row, NEW by, Update(c, row, by)
  PROVE  Write(c, IF Exists(c) THEN row ELSE customer[c], by)
<1>1. CASE Exists(c)
  BY <1>1 DEF Update
<1>2. CASE ~Exists(c)
  BY <1>2 DEF Update, Write, TypeOK
<1>3. QED
  BY <1>1, <1>2

LEMMA StayIsWrite ==
  ASSUME TypeOK, NEW c \in Customers, NEW by, UNCHANGED <<customer, raced>>
  PROVE  Write(c, customer[c], by)
BY DEF Write, TypeOK

\* The copies of everyone but the writer stay good.
LEMMA OthersKeep ==
  ASSUME AccountAssumption, IInv, NEW by, Careful(by), now' \in {now, now + 1},
         \A k \in Handlers \ {by} : task'[k] = task[k]
  PROVE  \A k \in Handlers \ {by} : task'[k] # Idle => CopyOK(k)' /\ FreshOK(k)'
<1> SUFFICES ASSUME NEW k \in Handlers \ {by}, task'[k] # Idle
             PROVE  CopyOK(k)' /\ FreshOK(k)'
  OBVIOUS
<1>1. task'[k] = task[k] /\ CopyOK(k) /\ FreshOK(k) /\ task[k] \in Task
  BY Resting DEF IInv, TasksOK
<1>2. now \in Nat /\ now' \in Nat /\ now' >= now /\ task[k].row.until \in Nat
  BY <1>1 DEF IInv, TypeOK, Task, Row
<1>3. CopyOK(k)'
  BY <1>1, <1>2 DEF CopyOK
<1>4. FreshOK(k)'
  <2> SUFFICES ASSUME task[k].at \in WriteBack, task[k].c \notin raced'
               PROVE  FreshOK(k)'
    BY <1>1 DEF FreshOK
  <2>1. customer'[task[k].c] = customer[task[k].c] /\ task[k].c \notin raced
    BY DEF Careful
  <2>2. customer[task[k].c].until \in Nat
    BY <1>1 DEF IInv, TypeOK, Task, Row
  <2>3. QED
    BY <1>1, <1>2, <2>1, <2>2 DEF FreshOK, Lasts
<1>5. QED
  BY <1>3, <1>4

LEMMA LoopsKeep ==
  ASSUME IInv, NEW by, by # "sweep", Careful(by), now' \in {now, now + 1},
         sweep' \subseteq sweep, purge' \subseteq purge
  PROVE  LoopsOK'
<1>1. raced \subseteq raced' /\ now \in Nat /\ sweep \subseteq Customers
  BY DEF Careful, IInv, TypeOK
<1>2. ASSUME NEW c \in sweep' \ raced' PROVE customer'[c].until # 0 /\ customer'[c].until < now'
  <2>1. customer'[c] = customer[c] /\ c \in sweep \ raced /\ customer[c].until \in Nat
    BY <1>1 DEF Careful, IInv, TypeOK, Row
  <2>2. QED
    BY <1>1, <2>1 DEF IInv, LoopsOK
<1>3. ASSUME NEW c \in purge' \ raced' PROVE customer'[c].status \notin {"none", "active"}
  BY <1>1 DEF Careful, IInv, LoopsOK
<1>4. QED
  BY <1>2, <1>3 DEF LoopsOK

\* The tasks of manual payments, which owe the books a log, stay what they are.
Quiet == \A c \in Customers : \A stage \in Unfinished : At(c, stage)' = At(c, stage)

LEMMA QuietStep ==
  ASSUME NEW by, \A k \in Handlers \ {by} : task'[k] = task[k],
         by \in Handlers => task[by].at \notin Unfinished /\ task'[by].at \notin Unfinished
  PROVE  Quiet
<1> SUFFICES ASSUME NEW c \in Customers, NEW stage \in Unfinished
             PROVE  At(c, stage)' = At(c, stage)
  BY DEF Quiet
<1>1. \A k \in Handlers : (task'[k].c = c /\ task'[k].at = stage) <=> (task[k].c = c /\ task[k].at = stage)
  <2>1. TAKE k \in Handlers
  <2>2. CASE k = by
    BY <2>2
  <2>3. CASE k # by
    BY <2>3
  <2>4. QED
    BY <2>2, <2>3
<1>2. QED
  BY <1>1 DEF At

LEMMA BooksKeep ==
  ASSUME IInv, Quiet, raced \subseteq raced', torn \subseteq torn', wiped \subseteq wiped',
         \A c \in Customers \ (raced' \cup torn' \cup wiped') : Worth(c)' = Worth(c)
  PROVE  BooksOK'
<1> SUFFICES ASSUME NEW c \in Customers \ (raced' \cup torn' \cup wiped')
             PROVE  Worth(c)' = Price * Owed(c)'
  BY DEF BooksOK
<1>1. Worth(c) = Price * Owed(c)
  BY DEF IInv, BooksOK
<1>2. Owed(c)' = Owed(c)
  BY DEF Quiet, Unfinished, Owed
<1>3. QED
  BY <1>1, <1>2

\* Nobody but the request that serves a payment ends that.
LEMMA ServedKeep ==
  ASSUME IInv, torn \subseteq torn',
         \A p \in Payments : payment'[p] = "completed" => payment[p] = "completed",
         NEW by, \A k \in Handlers \ {by} : task'[k] = task[k],
         by \in Handlers => task[by].at \notin {"completed", "serve"}
  PROVE  ServedOK'
<1> SUFFICES ASSUME NEW p \in Payments, payment'[p] = "completed"
             PROVE  PayerOf[p] \in torn' \/ \E k \in Handlers : Serves(k, p)'
  BY DEF ServedOK
<1>1. PayerOf[p] \in torn \/ \E k \in Handlers : Serves(k, p)
  BY DEF IInv, ServedOK
<1>2. \A k \in Handlers : Serves(k, p) => Serves(k, p)'
  BY DEF Serves
<1>3. QED
  BY <1>1, <1>2

\* Time is not shortened, whoever it was written back by.
Longer == \A c \in Customers \ raced' :
            Lasts(customer[c].until) => customer'[c].until >= customer[c].until

\* What all steps that write one row have in common.
LEMMA RowStep ==
  ASSUME AccountAssumption, IInv, NEW c \in Customers, NEW row \in Row,
         NEW by \in Handlers \cup {Nobody}, Write(c, row, by),
         row.status = "none" => row = NoRow,
         c \in raced' \cup typed' \/ ~Lasts(row.until) \/ row.status \in {"active", "suspended"},
         UNCHANGED <<sweep, purge, now>>, typed \subseteq typed',
         \A k \in Handlers \ {by} : task'[k] = task[k]
  PROVE  /\ Careful(by) /\ RowsOK' /\ LoopsOK' /\ PaidTimeKept'
         /\ \A k \in Handlers \ {by} : task'[k] # Idle => CopyOK(k)' /\ FreshOK(k)'
         /\ customer'[c] = row /\ \A d \in Customers \ {c} : customer'[d] = customer[d]
         /\ ~Lasts(customer[c].until) \/ row.until >= customer[c].until \/ c \in raced' => Longer
<1>1. /\ Careful(by) /\ customer'[c] = row
      /\ \A d \in Customers \ {c} : customer'[d] = customer[d]
  BY WriteIsCareful DEF IInv
<1>2. by # "sweep" /\ raced \subseteq raced'
  BY <1>1 DEF AccountAssumption, Careful
<1>3. LoopsOK'
  BY <1>1, <1>2, LoopsKeep
<1>4. \A k \in Handlers \ {by} : task'[k] # Idle => CopyOK(k)' /\ FreshOK(k)'
  BY <1>1, OthersKeep
<1>5. RowsOK'
  BY <1>1 DEF IInv, RowsOK, Exists
<1>6. PaidTimeKept'
  <2> SUFFICES ASSUME NEW d \in Customers \ (raced' \cup typed'), Exists(d)', Lasts(customer[d].until)'
               PROVE  customer'[d].status \in {"active", "suspended"}
    BY DEF PaidTimeKept
  <2>1. CASE d = c
    BY <1>1, <2>1 DEF Lasts
  <2>2. CASE d # c
    BY <1>1, <1>2, <2>2 DEF IInv, PaidTimeKept, Lasts, Exists
  <2>3. QED
    BY <2>1, <2>2
<1>7. ~Lasts(customer[c].until) \/ row.until >= customer[c].until \/ c \in raced' => Longer
  <2> SUFFICES ASSUME ~Lasts(customer[c].until) \/ row.until >= customer[c].until \/ c \in raced',
                      NEW d \in Customers \ raced', Lasts(customer[d].until)
               PROVE  customer'[d].until >= customer[d].until
    BY DEF Longer
  <2>1. customer[d].until \in Nat
    BY DEF IInv, TypeOK, Row
  <2>2. QED
    BY <1>1, <2>1
<1>8. QED
  BY <1>1, <1>3, <1>4, <1>5, <1>6, <1>7

-----------------------------------------------------------------------------
(* The writers that are one statement, or one transaction. *)

\* The row r with another status and expiry.
Renewed(r, status, until) == [r EXCEPT !.status = status, !.until = until]

LEMMA RenewedRow ==
  ASSUME NEW r \in Row, NEW status \in Statuses, NEW until \in Nat
  PROVE  LET new == Renewed(r, status, until)
         IN  new \in Row /\ new.status = status /\ new.until = until /\ new.credit = r.credit
BY DEF Renewed, Row

LEMMA NoRowIsRow == NoRow \in Row /\ NoRow.until = 0 /\ NoRow.credit = 0 /\ NoRow.status = "none"
BY DEF Row, NoRow, Statuses

\* What PaidTimeKept says of a row that keeps its status and its time.
LEMMA LetIn ==
  ASSUME IInv, NEW c \in Customers, NEW row,
         row.status = "none" => row = NoRow,
         row.status = customer[c].status, row.until = customer[c].until,
         raced \subseteq raced', typed \subseteq typed'
  PROVE  c \in raced' \cup typed' \/ ~Lasts(row.until) \/ row.status \in {"active", "suspended"}
<1>1. CASE c \in raced \cup typed
  BY <1>1
<1>2. CASE c \notin raced \cup typed /\ Exists(c)
  BY <1>2 DEF IInv, PaidTimeKept
<1>3. CASE ~Exists(c)
  <2>1. row.until = 0 /\ now \in Nat
    BY <1>3, NoRowIsRow DEF Exists, IInv, TypeOK
  <2>2. QED
    BY <2>1 DEF Lasts
<1>4. QED
  BY <1>1, <1>2, <1>3

LEMMA StatusNames == {"none", "active", "expired", "suspended"} = Statuses
BY DEF Statuses

\* CalculateExpiry adds to what is left.
LEMMA ExtendAdds ==
  ASSUME TypeOK, NEW until \in Nat
  PROVE  Extend(until) \in Nat /\ Extend(until) > now /\ Extend(until) > until
BY DEF Extend, Lasts, TypeOK

\* A transaction that leaves the requests alone, and the balance and its logs
\* in step.
LEMMA PlainStep ==
  ASSUME AccountAssumption, IInv, NEW c \in Customers, NEW row \in Row,
         Write(c, row, Nobody),
         row.status = "none" => row = NoRow,
         c \in raced' \cup typed' \/ ~Lasts(row.until) \/ row.status \in {"active", "suspended"},
         UNCHANGED <<sweep, purge, wiped, now, scene, task, torn>>,
         typed \subseteq typed', typed' \subseteq Customers, requests' \in Nat,
         payment' \in [Payments -> {"due", "completed", "served", "stray"}],
         \A p \in Payments : payment'[p] = "completed" => payment[p] = "completed",
         logged' \in [Customers -> Int], unlogged' \in [Customers -> Int],
         \A d \in Customers \ {c} : logged'[d] = logged[d] /\ unlogged'[d] = unlogged[d],
         Worth(c)' = Worth(c)
  PROVE  /\ IInv'
         /\ ~Lasts(customer[c].until) \/ row.until >= customer[c].until => Longer
<1>1. /\ Careful(Nobody) /\ RowsOK' /\ LoopsOK' /\ PaidTimeKept'
      /\ \A k \in Handlers \ {Nobody} : task'[k] # Idle => CopyOK(k)' /\ FreshOK(k)'
      /\ \A d \in Customers \ {c} : customer'[d] = customer[d]
      /\ ~Lasts(customer[c].until) \/ row.until >= customer[c].until => Longer
  BY RowStep
<1>2. Nobody \notin Handlers
  BY DEF AccountAssumption
<1>3. TypeOK'
  BY <1>1 DEF IInv, TypeOK, Careful
<1>4. BooksOK'
  <2>1. \A d \in Customers : Worth(d)' = Worth(d)
    BY <1>1 DEF Worth
  <2>2. Quiet
    BY <1>2, QuietStep
  <2>3. QED
    BY <1>1, <2>1, <2>2, BooksKeep DEF Careful
<1>5. ServedOK'
  BY <1>2, ServedKeep
<1>6. TasksOK'
  BY <1>1, <1>2 DEF TasksOK
<1>7. QED
  BY <1>1, <1>3, <1>4, <1>5, <1>6 DEF IInv

\* A log entry of the amount that the balance changed by.
LEMMA Logged ==
  ASSUME TypeOK, NEW c \in Customers, NEW amount \in Int, Log(c, amount)
  PROVE  /\ logged' \in [Customers -> Int] /\ logged'[c] = logged[c] + amount
         /\ \A d \in Customers \ {c} : logged'[d] = logged[d]
BY DEF Log, TypeOK

\* Staff and the portal open accounts and change their status.
LEMMA StatusStep ==
  ASSUME AccountAssumption, IInv, NEW c \in Customers, NEW row \in Row,
         Write(c, row, Nobody),
         row.status # "none", row.status \in {"active", "suspended"} \/ row.until = 0,
         row.credit = customer[c].credit,
         UNCHANGED <<Books, payment, Loops, task, torn>>, requests' = requests + 1
  PROVE  /\ IInv'
         /\ ~Lasts(customer[c].until) \/ row.until >= customer[c].until => Longer
<1>1. ~Lasts(row.until) \/ row.status \in {"active", "suspended"}
  BY DEF Lasts, IInv, TypeOK
<1>2. Worth(c)' = Worth(c)
  BY DEF Worth, Write, IInv, TypeOK, Books
<1>3. /\ requests' \in Nat /\ payment' \in [Payments -> {"due", "completed", "served", "stray"}]
      /\ logged' \in [Customers -> Int] /\ unlogged' \in [Customers -> Int]
      /\ \A d \in Customers \ {c} : logged'[d] = logged[d] /\ unlogged'[d] = unlogged[d]
      /\ UNCHANGED <<sweep, purge, wiped, now, scene, typed, task, torn>> /\ typed' \subseteq Customers
      /\ \A p \in Payments : payment'[p] = "completed" => payment[p] = "completed"
  BY DEF IInv, TypeOK, Books, Loops
<1>4. QED
  BY <1>1, <1>2, <1>3, PlainStep

LEMMA SetStatusStep ==
  ASSUME AccountAssumption, IInv, NEW c \in Customers, NEW status \in {"active", "suspended"},
         SetStatus(c, status)
  PROVE  IInv' /\ Longer
<1> DEFINE row == [customer[c] EXCEPT !.status = status]
<1>1. customer[c] \in Row /\ status \in Statuses
  BY StatusNames DEF IInv, TypeOK
<1>2. /\ row \in Row /\ row.status = status /\ row.until = customer[c].until
      /\ row.credit = customer[c].credit
  BY <1>1 DEF Row
<1>3. row.until >= customer[c].until
  BY <1>1, <1>2 DEF Row
<1>4. QED
  BY <1>2, <1>3, StatusStep DEF SetStatus, Arrive

LEMMA RegisterStep ==
  ASSUME AccountAssumption, IInv, NEW c \in Customers, Register(c)
  PROVE  IInv' /\ Longer
<1> DEFINE row == [NoRow EXCEPT !.status = "expired"]
<1>1. row \in Row /\ row.status = "expired" /\ row.credit = 0 /\ row.until = 0
  BY NoRowIsRow DEF Row, Statuses
<1>2. customer[c].until = 0 /\ customer[c].credit = 0
  BY NoRowIsRow DEF Register, Registers, IInv, RowsOK
<1>3. ~Lasts(customer[c].until)
  BY <1>2 DEF Lasts, IInv, TypeOK
<1>4. Write(c, row, Nobody) /\ requests' = requests + 1
  BY DEF Register, Registers, Arrive
<1> HIDE DEF row
<1>5. QED
  BY <1>1, <1>2, <1>3, <1>4, StatusStep DEF Register

\* What staff types keeps the books, as `unlogged' takes up the difference.
LEMMA Typing ==
  ASSUME IInv, NEW c \in Customers, NEW row \in Row, NEW by, Type(c, row, by), logged' = logged
  PROVE  /\ Write(c, row, by) /\ Worth(c)' = Worth(c)
         /\ logged' \in [Customers -> Int] /\ unlogged' \in [Customers -> Int]
         /\ \A d \in Customers \ {c} : logged'[d] = logged[d] /\ unlogged'[d] = unlogged[d]
         /\ typed \subseteq typed' /\ typed' \subseteq Customers
         /\ c \in raced' \cup typed' \/ ~Lasts(row.until) \/ row.status \in {"active", "suspended"}
<1>1. /\ customer[c].credit \in Nat /\ row.credit \in Nat /\ TypeOK
      /\ logged[c] \in Int /\ unlogged[c] \in Int
  BY DEF IInv, TypeOK, Row
<1>2. Write(c, row, by) /\ customer'[c] = row
  BY <1>1 DEF Type, Write, TypeOK
<1>3. /\ unlogged' \in [Customers -> Int]
      /\ unlogged'[c] = unlogged[c] + customer[c].credit - row.credit
      /\ \A d \in Customers \ {c} : unlogged'[d] = unlogged[d]
  BY <1>1 DEF Type, TypeOK
<1>4. Worth(c)' = Worth(c)
  BY <1>1, <1>2, <1>3 DEF Worth
<1>5. /\ typed \subseteq typed' /\ typed' \subseteq Customers
      /\ ~Lasts(row.until) \/ row.status \in {"active", "suspended"} \/ c \in typed'
  BY <1>1 DEF Type, TypeOK
<1>6. QED
  BY <1>1, <1>2, <1>3, <1>4, <1>5 DEF TypeOK

LEMMA StoreStep ==
  ASSUME AccountAssumption, IInv, NEW c \in Customers, CustomerStore(c)
  PROVE  IInv' /\ Longer
<1>1. PICK credit \in Balances, until \in Expiries \cup {now + 1},
           status \in {"active", "expired", "suspended"} :
        Type(c, [status |-> status, until |-> until, credit |-> credit], Nobody)
  BY DEF CustomerStore
<1> DEFINE row == [status |-> status, until |-> until, credit |-> credit]
<1>2. row \in Row /\ row.status # "none" /\ now \in Nat
  BY StatusNames DEF Row, AccountAssumption, IInv, TypeOK
<1>3. ~Lasts(customer[c].until)
  BY <1>2, NoRowIsRow DEF CustomerStore, Registers, IInv, RowsOK, Lasts
<1>4. /\ requests' \in Nat /\ payment' = payment /\ logged' = logged
      /\ payment' \in [Payments -> {"due", "completed", "served", "stray"}]
      /\ UNCHANGED <<sweep, purge, wiped, now, scene, task, torn>>
  BY DEF CustomerStore, Registers, Arrive, IInv, TypeOK
<1>5. Type(c, row, Nobody)
  BY <1>1
<1> HIDE DEF row
<1>6. QED
  BY <1>2, <1>3, <1>4, <1>5, Typing, PlainStep

\* The compensation of an outage.
LEMMA CompensateStep ==
  ASSUME AccountAssumption, IInv, NEW c \in Customers, Compensate(c)
  PROVE  IInv' /\ Longer
<1> DEFINE row == Renewed(customer[c], "active", Extend(customer[c].until))
<1>1. customer[c] \in Row /\ customer[c].until \in Nat /\ TypeOK
  BY DEF IInv, TypeOK, Row
<1>2. Extend(customer[c].until) \in Nat /\ Extend(customer[c].until) > customer[c].until
  BY <1>1, ExtendAdds
<1>3. /\ row \in Row /\ row.status = "active" /\ row.credit = customer[c].credit
      /\ row.until >= customer[c].until
  <2>1. "active" \in Statuses
    BY StatusNames
  <2>2. QED
    BY <1>1, <1>2, <2>1, RenewedRow
<1>4. /\ Write(c, row, Nobody) /\ requests' = requests + 1
      /\ UNCHANGED <<Books, payment, Loops, task, torn>>
  BY <1>1 DEF Compensate, Arrive, Renewed
<1> HIDE DEF row
<1>5. QED
  BY <1>3, <1>4, StatusStep

LEMMA AddCreditStep ==
  ASSUME AccountAssumption, IInv, NEW c \in Customers, NEW amount \in Amounts,
         AddCredit(c, amount)
  PROVE  IInv' /\ Longer
<1>1. /\ customer[c] \in Row /\ customer[c].credit \in Nat /\ customer[c].until \in Nat
      /\ amount \in Nat /\ amount > 0 /\ TypeOK
  BY DEF IInv, TypeOK, Row, AccountAssumption
<1>2. ASSUME NEW delta \in Int, customer[c].credit + delta >= 0,
             Write(c, [customer[c] EXCEPT !.credit = @ + delta], Nobody), Log(c, delta)
      PROVE  IInv' /\ Longer
  <2> DEFINE row == [customer[c] EXCEPT !.credit = customer[c].credit + delta]
  <2>1. /\ row \in Row /\ row.credit = customer[c].credit + delta
        /\ row.status = customer[c].status /\ row.until = customer[c].until
    <3>1. customer[c].credit + delta \in Nat
      BY <1>1, <1>2
    <3>2. QED
      BY <1>1, <3>1 DEF Row
  <2>2. /\ logged' \in [Customers -> Int] /\ logged'[c] = logged[c] + delta
        /\ \A d \in Customers \ {c} : logged'[d] = logged[d]
    BY <1>1, <1>2, Logged
  <2>3. Exists(c)
    BY DEF AddCredit
  <2>4. row.status # "none" /\ (c \in raced' \cup typed' \/ ~Lasts(row.until) \/ row.status \in {"active", "suspended"})
    <3>1. c \in raced \cup typed => c \in raced' \cup typed'
      BY <1>2 DEF Write, AddCredit, Loops
    <3>2. QED
      BY <2>1, <2>3, <3>1 DEF IInv, PaidTimeKept, Exists
  <2>5. customer'[c] = row
    BY <1>1, <1>2 DEF Write, TypeOK
  <2>6. Worth(c)' = Worth(c)
    <3>1. logged[c] \in Int /\ unlogged[c] \in Int /\ unlogged' = unlogged
      BY <1>1 DEF AddCredit, TypeOK
    <3>2. QED
      BY <1>1, <2>1, <2>2, <2>5, <3>1 DEF Worth
  <2>7. /\ UNCHANGED <<sweep, purge, wiped, now, scene, typed, task, torn>> /\ typed' \subseteq Customers /\ requests' \in Nat
        /\ payment' \in [Payments -> {"due", "completed", "served", "stray"}]
        /\ unlogged' \in [Customers -> Int] /\ payment' = payment /\ unlogged' = unlogged
    BY <1>1 DEF AddCredit, Arrive, Loops, TypeOK
  <2>8. Write(c, row, Nobody)
    BY <1>2
  <2>9. row.until >= customer[c].until
    BY <1>1, <2>1
  <2>10. QED
    BY <2>1, <2>2, <2>4, <2>6, <2>7, <2>8, <2>9, PlainStep
<1>3. CASE Write(c, [customer[c] EXCEPT !.credit = @ + amount], Nobody) /\ Log(c, amount)
  BY <1>1, <1>2, <1>3
<1>4. CASE /\ Covers(customer[c].credit, amount)
           /\ Write(c, [customer[c] EXCEPT !.credit = @ - amount], Nobody)
           /\ Log(c, -amount)
  <2>1. customer[c].credit + (-amount) = customer[c].credit - amount
    BY <1>1
  <2>2. customer[c].credit + (-amount) >= 0 /\ -amount \in Int
    BY <1>1, <1>4 DEF Covers
  <2>3. [customer[c] EXCEPT !.credit = @ - amount] = [customer[c] EXCEPT !.credit = @ + (-amount)]
    BY <2>1
  <2>4. QED
    BY <1>2, <1>4, <2>2, <2>3
<1>5. QED
  BY <1>3, <1>4 DEF AddCredit

LEMMA UnderpayStep ==
  ASSUME AccountAssumption, IInv, NEW p \in Payments, NEW amount \in Amounts,
         Underpay(p, amount)
  PROVE  IInv' /\ Longer
<1> DEFINE c == PayerOf[p]
           row == IF Exists(c) THEN [customer[c] EXCEPT !.credit = @ + amount] ELSE customer[c]
<1>1. /\ c \in Customers /\ customer[c] \in Row /\ customer[c].credit \in Nat
      /\ customer[c].until \in Nat /\ amount \in Nat /\ amount \in Int /\ TypeOK
  BY DEF IInv, TypeOK, Row, AccountAssumption
<1>2. /\ row \in Row /\ row.status = customer[c].status /\ row.until = customer[c].until
      /\ row.status = "none" => row = NoRow
  <2>1. CASE Exists(c)
    <3>1. row \in Row /\ row.status = customer[c].status /\ row.until = customer[c].until
      BY <1>1, <2>1 DEF Row
    <3>2. QED
      BY <2>1, <3>1 DEF Exists
  <2>2. CASE ~Exists(c)
    BY <1>1, <2>2 DEF IInv, RowsOK
  <2>3. QED
    BY <2>1, <2>2
<1>3. Write(c, row, Nobody)
  <2>1. CASE Exists(c)
    BY <2>1 DEF Underpay
  <2>2. CASE ~Exists(c)
    BY <1>1, <2>2, StayIsWrite DEF Underpay
  <2>3. QED
    BY <2>1, <2>2
<1>4. /\ logged' \in [Customers -> Int] /\ Worth(c)' = Worth(c)
      /\ \A d \in Customers \ {c} : logged'[d] = logged[d]
  <2>1. unlogged' = unlogged /\ logged[c] \in Int /\ unlogged[c] \in Int /\ customer'[c] = row
    BY <1>1, <1>3 DEF Underpay, Write, TypeOK
  <2>2. CASE Exists(c)
    <3>1. /\ logged' \in [Customers -> Int] /\ logged'[c] = logged[c] + amount
          /\ \A d \in Customers \ {c} : logged'[d] = logged[d]
      BY <1>1, <2>2, Logged DEF Underpay
    <3>2. row.credit = customer[c].credit + amount
      BY <1>1, <2>2 DEF Row
    <3> HIDE DEF row, c
    <3>3. QED
      BY <1>1, <2>1, <3>1, <3>2 DEF Worth
  <2>3. CASE ~Exists(c)
    BY <1>1, <2>1, <2>3 DEF Worth, Underpay, TypeOK
  <2>4. QED
    BY <2>2, <2>3
<1>5. c \in raced' \cup typed' \/ ~Lasts(row.until) \/ row.status \in {"active", "suspended"}
  <2>1. c \in raced \cup typed => c \in raced' \cup typed'
    BY <1>3 DEF Write, Underpay, Loops
  <2>2. customer[c].until = 0 => ~Lasts(customer[c].until)
    BY <1>1 DEF Lasts, TypeOK
  <2>3. QED
    BY <1>1, <1>2, <2>1, <2>2, NoRowIsRow DEF IInv, PaidTimeKept, RowsOK
<1>6. /\ UNCHANGED <<sweep, purge, wiped, now, scene, typed, task, torn>> /\ typed' \subseteq Customers /\ requests' \in Nat
      /\ unlogged' \in [Customers -> Int] /\ unlogged' = unlogged
  BY <1>1 DEF Underpay, Arrive, Loops, TypeOK
<1>7. /\ payment' \in [Payments -> {"due", "completed", "served", "stray"}]
      /\ \A q \in Payments : payment'[q] = "completed" => payment[q] = "completed"
  BY <1>1 DEF Underpay, Settle, TypeOK
<1>8. row.until >= customer[c].until
  BY <1>1, <1>2
<1> HIDE DEF row, c
<1>9. QED
  BY <1>1, <1>2, <1>3, <1>4, <1>5, <1>6, <1>7, <1>8, PlainStep

-----------------------------------------------------------------------------
(* Requests, statement by statement. *)

\* A statement of a request, on the row of c.
LEMMA StatementStep ==
  ASSUME AccountAssumption, IInv, NEW h \in Handlers, NEW c \in Customers, NEW row \in Row,
         Write(c, row, h),
         row.status = "none" => row = NoRow,
         c \in raced' \cup typed' \/ ~Lasts(row.until) \/ row.status \in {"active", "suspended"},
         UNCHANGED <<sweep, purge, wiped, now, scene>>,
         typed \subseteq typed', typed' \subseteq Customers, requests' \in Nat,
         task' \in [Handlers -> {Idle} \cup Task],
         \A k \in Handlers \ {h} : task'[k] = task[k],
         task'[h] # Idle => CopyOK(h)' /\ FreshOK(h)',
         payment' \in [Payments -> {"due", "completed", "served", "stray"}],
         logged' \in [Customers -> Int], unlogged' \in [Customers -> Int],
         torn' \subseteq Customers, BooksOK', ServedOK'
  PROVE  /\ IInv'
         /\ ~Lasts(customer[c].until) \/ row.until >= customer[c].until \/ c \in raced' => Longer
<1>1. UNCHANGED <<sweep, purge, now>> /\ scene' = scene /\ wiped' = wiped
  OBVIOUS
<1>2. /\ Careful(h) /\ RowsOK' /\ LoopsOK' /\ PaidTimeKept'
      /\ \A k \in Handlers \ {h} : task'[k] # Idle => CopyOK(k)' /\ FreshOK(k)'
      /\ ~Lasts(customer[c].until) \/ row.until >= customer[c].until \/ c \in raced' => Longer
  BY <1>1, RowStep
<1>3. TypeOK'
  BY <1>1, <1>2 DEF IInv, TypeOK, Careful, Task
<1>4. TasksOK'
  BY <1>2 DEF TasksOK
<1>5. QED
  BY <1>2, <1>3, <1>4 DEF IInv

\* Most leave alone what is not theirs.
LEMMA RequestStep ==
  ASSUME AccountAssumption, IInv, NEW h \in Handlers, NEW c \in Customers, NEW row \in Row,
         Write(c, row, h),
         row.status = "none" => row = NoRow,
         c \in raced' \cup typed' \/ ~Lasts(row.until) \/ row.status \in {"active", "suspended"},
         UNCHANGED Loops, requests' \in Nat,
         task' \in [Handlers -> {Idle} \cup Task],
         \A k \in Handlers \ {h} : task'[k] = task[k],
         task'[h] # Idle => CopyOK(h)' /\ FreshOK(h)',
         payment' \in [Payments -> {"due", "completed", "served", "stray"}],
         logged' \in [Customers -> Int], unlogged' \in [Customers -> Int],
         torn' \subseteq Customers, BooksOK', ServedOK'
  PROVE  /\ IInv'
         /\ ~Lasts(customer[c].until) \/ row.until >= customer[c].until \/ c \in raced' => Longer
<1>1. UNCHANGED <<sweep, purge, wiped, now, scene, typed>> /\ typed' \subseteq Customers
  BY DEF Loops, IInv, TypeOK
<1>2. QED
  BY <1>1, StatementStep

\* Any statement but those that credit and debit a manual payment.
LEMMA QuietBooks ==
  ASSUME IInv, NEW h \in Handlers, NEW c \in Customers, NEW row, NEW by, Write(c, row, by),
         \A k \in Handlers \ {h} : task'[k] = task[k],
         task[h].at \notin Unfinished, task'[h].at \notin Unfinished,
         torn' = torn, wiped' = wiped,
         \A d \in Customers \ {c} : logged'[d] = logged[d] /\ unlogged'[d] = unlogged[d],
         c \in raced' \/ Worth(c)' = Worth(c)
  PROVE  BooksOK'
<1>1. \A d \in Customers \ {c} : customer'[d] = customer[d]
  BY DEF Write, IInv, TypeOK
<1>2. raced \subseteq raced'
  BY DEF Write
<1>3. \A d \in Customers \ (raced' \cup torn' \cup wiped') : Worth(d)' = Worth(d)
  BY <1>1 DEF Worth
<1>4. Quiet
  BY QuietStep
<1>5. QED
  BY <1>2, <1>3, <1>4, BooksKeep

LEMMA StageNames ==
  /\ "idle" \notin Stages /\ Idle.at = "idle" /\ Unfinished \subseteq Stages
  /\ WriteBack \subseteq Stages /\ Unfinished \cap WriteBack = {}
  /\ {"completed", "debit", "renew", "redeem", "credit"} \subseteq Stages
  /\ {"completed", "debit", "renew", "redeem", "credit"} \cap (Unfinished \cup WriteBack) = {}
BY DEF Stages, WriteBack, Unfinished, Idle

\* A request reads a row and changes nothing.
LEMMA ReadStep ==
  ASSUME AccountAssumption, IInv, NEW h \in Handlers, NEW c \in Customers, NEW stage \in Stages,
         NEW row \in Row, NEW p \in Customers \cup Payments \cup {Nobody},
         Go(h, stage, c, row, p), CopyOK(h)', FreshOK(h)',
         stage \notin Unfinished, task[h].at \notin Unfinished, ServedOK',
         UNCHANGED <<customer, Books, Loops, raced, torn>>, requests' \in Nat,
         payment' \in [Payments -> {"due", "completed", "served", "stray"}]
  PROVE  IInv' /\ Longer
<1>0. /\ task' \in [Handlers -> {Idle} \cup Task]
      /\ task'[h] = [at |-> stage, c |-> c, row |-> row, p |-> p]
      /\ \A k \in Handlers \ {h} : task'[k] = task[k]
  BY GoTask DEF IInv
<1>1. task'[h].at = stage
  BY <1>0
<1>2. Write(c, customer[c], h)
  BY StayIsWrite DEF IInv
<1>3. /\ customer[c] \in Row /\ logged' \in [Customers -> Int] /\ unlogged' \in [Customers -> Int]
      /\ torn' \subseteq Customers /\ customer[c].until \in Nat /\ torn' = torn
      /\ logged' = logged /\ unlogged' = unlogged /\ customer' = customer /\ raced' = raced
      /\ wiped' = wiped /\ typed' = typed
  BY DEF IInv, TypeOK, Row, Books, Loops
<1>4. Worth(c)' = Worth(c)
  BY <1>3 DEF Worth
<1>5. BooksOK'
  BY <1>0, <1>1, <1>2, <1>3, <1>4, QuietBooks
<1>6. customer[c].status = "none" => customer[c] = NoRow
  BY DEF IInv, RowsOK, Exists
<1>7. c \in raced' \cup typed' \/ ~Lasts(customer[c].until) \/ customer[c].status \in {"active", "suspended"}
  <2>1. customer[c].status = "none" => ~Lasts(customer[c].until)
    BY <1>6, NoRowIsRow DEF Lasts, IInv, TypeOK
  <2>2. QED
    BY <1>3, <2>1 DEF IInv, PaidTimeKept, Exists
<1>8. customer[c].until >= customer[c].until
  BY <1>3
<1>9. QED
  BY <1>0, <1>2, <1>3, <1>5, <1>6, <1>7, <1>8, RequestStep

LEMMA ProfileReadStep ==
  ASSUME AccountAssumption, IInv, NEW h \in Handlers, NEW c \in Customers,
         ProfileRead(h, c) \/ PurchaseRead(h, c) \/ UpdateRead(h, c)
  PROVE  IInv' /\ Longer
<1>1. PICK stage \in {"expire", "buy", "update"} :
        /\ Go(h, stage, c, customer[c], Nobody)
        /\ stage = "expire" => customer[c].until < now
        /\ stage = "buy" => customer[c].credit >= Price
  BY DEF ProfileRead, PurchaseRead, UpdateRead, Overdue, Covers
<1>2. /\ task[h] = Idle /\ UNCHANGED <<customer, Books, payment, Loops, raced, torn>>
      /\ requests' = requests + 1
  BY DEF ProfileRead, PurchaseRead, UpdateRead, Arrived, Arrive
<1>3. /\ customer[c] \in Row /\ stage \in Stages /\ stage \notin Unfinished
      /\ task[h].at \notin Unfinished /\ task[h].at \notin {"completed", "serve"}
      /\ requests' \in Nat /\ payment' = payment /\ torn' = torn
      /\ payment' \in [Payments -> {"due", "completed", "served", "stray"}]
      /\ now' = now /\ customer' = customer
  BY <1>2, StageNames DEF IInv, TypeOK, Unfinished, Stages, WriteBack, Idle, Loops
<1>4. /\ task'[h] = [at |-> stage, c |-> c, row |-> customer[c], p |-> Nobody]
      /\ \A k \in Handlers \ {h} : task'[k] = task[k]
  BY <1>1, <1>3, GoTask DEF IInv
<1>5. CopyOK(h)' /\ FreshOK(h)'
  BY <1>1, <1>3, <1>4 DEF CopyOK, FreshOK
<1>6. ServedOK'
  BY <1>3, <1>4, ServedKeep
<1>7. QED
  BY <1>1, <1>2, <1>3, <1>5, <1>6, ReadStep

\* The last statement of a request.
LEMMA LastStep ==
  ASSUME AccountAssumption, IInv, NEW h \in Handlers, NEW c \in Customers,
         task[h].at \in Stages \ Unfinished,
         NEW row \in Row, Write(c, row, h), End(h),
         row.status = "none" => row = NoRow,
         c \in raced' \cup typed' \/ ~Lasts(row.until) \/ row.status \in {"active", "suspended"},
         UNCHANGED <<Loops, requests, torn>>,
         payment' \in [Payments -> {"due", "completed", "served", "stray"}],
         \A p \in Payments : payment'[p] = "completed" => payment[p] = "completed",
         \/ task[h].at \notin {"completed", "serve"}
         \/ payment'[task[h].p] # "completed",
         logged' \in [Customers -> Int], unlogged' \in [Customers -> Int],
         \A d \in Customers \ {c} : logged'[d] = logged[d] /\ unlogged'[d] = unlogged[d],
         c \in raced' \/ Worth(c)' = Worth(c)
  PROVE  /\ IInv'
         /\ \/ ~Lasts(customer[c].until) \/ c \in raced'
            \/ row.until >= customer[c].until
            => Longer
<1>1. task[h] # Idle
  BY AtWork DEF IInv
<1>2. /\ task' \in [Handlers -> {Idle} \cup Task] /\ task'[h] = Idle
      /\ \A k \in Handlers \ {h} : task'[k] = task[k]
  BY EndTask DEF IInv
<1>3. task'[h].at \notin Unfinished
  BY <1>2, StageNames
<1>4. BooksOK'
  <2>1. wiped' = wiped
    BY DEF Loops
  <2>2. QED
    BY <1>1, <1>2, <1>3, <2>1, QuietBooks
<1>5. ServedOK'
  <2>1. CASE task[h].at \notin {"completed", "serve"}
    BY <1>2, <2>1, ServedKeep
  <2>2. CASE payment'[task[h].p] # "completed"
    <3> SUFFICES ASSUME NEW p \in Payments, payment'[p] = "completed"
                 PROVE  PayerOf[p] \in torn' \/ \E k \in Handlers : Serves(k, p)'
      BY DEF ServedOK
    <3>1. PayerOf[p] \in torn \/ \E k \in Handlers : Serves(k, p)
      BY DEF IInv, ServedOK
    <3>2. ~Serves(h, p)
      BY <2>2 DEF Serves
    <3>3. \A k \in Handlers \ {h} : Serves(k, p) => Serves(k, p)'
      BY <1>2 DEF Serves
    <3>4. QED
      BY <3>1, <3>2, <3>3
  <2>3. QED
    BY <2>1, <2>2
<1>6. torn' \subseteq Customers /\ requests' \in Nat
  BY DEF IInv, TypeOK
<1>7. QED
  BY <1>1, <1>2, <1>4, <1>5, <1>6, RequestStep

\* An UPDATE of status and expiry as the last statement.
LEMMA LastUpdate ==
  ASSUME AccountAssumption, IInv, NEW h \in Handlers, NEW c \in Customers, c = task[h].c,
         task[h].at \in Stages \ Unfinished,
         NEW status \in Statuses, NEW until \in Nat,
         Update(c, Renewed(customer[c], status, until), h), End(h),
         status # "none", UNCHANGED <<Books, Loops, requests, torn>>,
         c \in raced' \cup typed' \/ ~Lasts(until) \/ status \in {"active", "suspended"},
         payment' \in [Payments -> {"due", "completed", "served", "stray"}],
         \A p \in Payments : payment'[p] = "completed" => payment[p] = "completed",
         \/ task[h].at \notin {"completed", "serve"}
         \/ payment'[task[h].p] # "completed"
  PROVE  /\ IInv'
         /\ \/ ~Lasts(customer[c].until) \/ c \in raced'
            \/ until >= customer[c].until
            => Longer
<1> DEFINE row == Renewed(customer[c], status, until)
           kept == IF Exists(c) THEN row ELSE customer[c]
<1>1. c \in Customers /\ customer[c] \in Row /\ customer[c].until \in Nat /\ TypeOK
  BY AtWork DEF IInv, TypeOK, Row
<1>2. /\ row \in Row /\ row.status = status /\ row.until = until
      /\ row.credit = customer[c].credit
  BY <1>1 DEF Row, Renewed
<1> HIDE DEF row
<1>3. Write(c, kept, h)
  <2>1. Update(c, row, h)
    BY DEF row
  <2>2. QED
    BY <1>1, <1>2, <2>1, UpdateIsWrite
<1>4. /\ kept \in Row /\ kept.credit = customer[c].credit
      /\ kept.status = "none" => kept = NoRow
      /\ c \in raced' \cup typed' \/ ~Lasts(kept.until) \/ kept.status \in {"active", "suspended"}
      /\ kept.until = until \/ kept.until >= customer[c].until
  <2>1. CASE Exists(c)
    BY <1>2, <2>1
  <2>2. CASE ~Exists(c)
    <3>1. customer[c] = NoRow
      BY <1>1, <2>2 DEF IInv, RowsOK
    <3>2. ~Lasts(NoRow.until)
      BY <1>1, NoRowIsRow DEF Lasts, TypeOK
    <3>3. QED
      BY <1>1, <2>2, <3>1, <3>2
  <2>3. QED
    BY <2>1, <2>2
<1>5. Worth(c)' = Worth(c)
  <2>1. customer'[c] = kept /\ logged' = logged /\ unlogged' = unlogged
    BY <1>1, <1>3 DEF Write, TypeOK, Books
  <2> HIDE DEF kept
  <2>2. QED
    BY <1>4, <2>1 DEF Worth
<1>6. logged' \in [Customers -> Int] /\ unlogged' \in [Customers -> Int]
      /\ logged' = logged /\ unlogged' = unlogged
  BY <1>1 DEF Books, TypeOK
<1> HIDE DEF kept
<1>7. QED
  BY <1>3, <1>4, <1>5, <1>6, LastStep

\* What is not a Write leaves rows in raced that were there.
LEMMA RacedStays ==
  ASSUME NEW c, NEW row, NEW by, Update(c, row, by) \/ Write(c, row, by)
  PROVE  raced \subseteq raced'
BY DEF Update, Write

LEMMA ProfileExpireStep ==
  ASSUME AccountAssumption, IInv, NEW h \in Handlers, ProfileExpire(h)
  PROVE  IInv' /\ Longer
<1>0. PICK c \in Customers : c = task[h].c
  <2>1. task[h].at \in Stages
    BY StageNames DEF ProfileExpire, WriteBack
  <2>2. QED
    BY <2>1, AtWork DEF IInv
<1> DEFINE x == customer[c]
<1>1. /\ task[h].at = "expire" /\ task[h].at \in Stages \ Unfinished
      /\ task[h].at \notin {"completed", "serve"}
  BY StageNames DEF ProfileExpire, WriteBack, Unfinished
<1>2. /\ x \in Row /\ x.until \in Nat /\ CopyOK(h) /\ FreshOK(h)
      /\ task[h].row \in Row /\ now \in Nat
  BY <1>0, <1>1, AtWork DEF IInv, TypeOK, TasksOK, Row
<1>u. PICK until \in Nat : until = x.until
  BY <1>2
<1>3. [x EXCEPT !.status = "expired"] = Renewed(x, "expired", until)
  BY <1>2, <1>u DEF Row, Renewed
<1>4. raced \subseteq raced'
  BY <1>0, RacedStays DEF ProfileExpire
<1>5. c \in raced' \cup typed' \/ ~Lasts(until)
  BY <1>0, <1>u, <1>1, <1>2, <1>4 DEF CopyOK, FreshOK, Lasts, WriteBack, Row
<1>6. /\ payment' = payment /\ payment \in [Payments -> {"due", "completed", "served", "stray"}]
      /\ UNCHANGED <<Books, Loops, requests, torn>> /\ End(h)
      /\ Update(c, Renewed(x, "expired", until), h)
  BY <1>0, <1>3 DEF ProfileExpire, IInv, TypeOK
<1>7. "expired" \in Statuses /\ until >= x.until
  BY <1>2, <1>u DEF Statuses
<1>8. QED
  BY <1>0, <1>u, <1>1, <1>5, <1>6, <1>7, LastUpdate

\* A request that staff's typing ends.
LEMMA TypeStep ==
  ASSUME AccountAssumption, IInv, NEW h \in Handlers, NEW c \in Customers, c = task[h].c,
         task[h].at = "update", End(h), NEW row \in Row, Type(c, row, h), row.status # "none",
         UNCHANGED <<logged, payment, sweep, purge, wiped, now, scene, requests, torn>>
  PROVE  /\ IInv'
         /\ ~Lasts(customer[c].until) \/ row.until >= customer[c].until \/ c \in raced' => Longer
<1>1. /\ Write(c, row, h) /\ Worth(c)' = Worth(c)
      /\ logged' \in [Customers -> Int] /\ unlogged' \in [Customers -> Int]
      /\ \A d \in Customers \ {c} : logged'[d] = logged[d] /\ unlogged'[d] = unlogged[d]
      /\ typed \subseteq typed' /\ typed' \subseteq Customers
      /\ c \in raced' \cup typed' \/ ~Lasts(row.until) \/ row.status \in {"active", "suspended"}
  BY Typing
<1>2. /\ task[h].at \notin Unfinished /\ task[h].at \notin {"completed", "serve"}
      /\ requests' \in Nat /\ torn' \subseteq Customers
      /\ payment' \in [Payments -> {"due", "completed", "served", "stray"}]
  BY DEF Unfinished, IInv, TypeOK
<1>3. /\ task' \in [Handlers -> {Idle} \cup Task] /\ task'[h] = Idle
      /\ \A k \in Handlers \ {h} : task'[k] = task[k]
  BY EndTask DEF IInv
<1>4. task'[h].at \notin Unfinished
  BY <1>3, StageNames
<1>5. BooksOK'
  BY <1>1, <1>2, <1>3, <1>4, QuietBooks
<1>6. ServedOK'
  BY <1>2, <1>3, ServedKeep
<1>7. QED
  BY <1>1, <1>2, <1>3, <1>5, <1>6, StatementStep

LEMMA UpdateWriteStep ==
  ASSUME AccountAssumption, IInv, NEW h \in Handlers, UpdateWrite(h)
  PROVE  IInv' /\ Longer
<1>0. PICK c \in Customers : c = task[h].c
  <2>1. task[h].at \in Stages
    BY StageNames DEF UpdateWrite, WriteBack
  <2>2. QED
    BY <2>1, AtWork DEF IInv
<1> DEFINE x == customer[c]
           r == task[h].row.until
           until == IF r < now THEN now + 1 ELSE x.until
<1>1. task[h].at = "update" /\ task[h].at \in Stages
  BY StageNames DEF UpdateWrite, WriteBack
<1>2. /\ x \in Row /\ x.until \in Nat /\ x.credit \in Nat /\ FreshOK(h) /\ x.status \in Statuses
      /\ r \in Nat /\ now \in Nat /\ x.status # "none"
  BY <1>0, <1>1, AtWork DEF IInv, TypeOK, TasksOK, Row, UpdateWrite, Exists
<1>3. PICK credit \in Nat :
        \/ Type(c, [status |-> "active", until |-> until, credit |-> credit], h)
        \/ \E status \in {"expired", "suspended", x.status} :
             Type(c, [status |-> status, until |-> x.until, credit |-> credit], h)
  <2>1. Balances \cup {x.credit} \subseteq Nat
    BY <1>2 DEF AccountAssumption
  <2>2. QED
    BY <1>0, <2>1 DEF UpdateWrite
<1>4. PICK row \in Row : Type(c, row, h) /\ row.status # "none" /\ row.until \in {until, x.until}
  <2>1. CASE Type(c, [status |-> "active", until |-> until, credit |-> credit], h)
    BY <1>2, <2>1, StatusNames DEF Row
  <2>2. ASSUME NEW status \in {"expired", "suspended", x.status},
               Type(c, [status |-> status, until |-> x.until, credit |-> credit], h)
        PROVE  \E row \in Row : Type(c, row, h) /\ row.status # "none" /\ row.until \in {until, x.until}
    <3>1. [status |-> status, until |-> x.until, credit |-> credit] \in Row /\ status # "none"
      BY <1>2, StatusNames DEF Row
    <3>2. QED
      BY <2>2, <3>1
  <2>3. QED
    BY <1>3, <2>1, <2>2
<1>5. raced \subseteq raced'
  BY <1>4, RacedStays DEF Type
<1>6. c \in raced' \/ ~Lasts(x.until) \/ row.until >= x.until
  BY <1>0, <1>1, <1>2, <1>4, <1>5 DEF FreshOK, Lasts, WriteBack
<1>7. /\ UNCHANGED <<logged, payment, sweep, purge, wiped, now, scene, requests, torn>>
      /\ End(h)
  BY DEF UpdateWrite
<1>8. QED
  BY <1>0, <1>1, <1>4, <1>6, <1>7, TypeStep

LEMMA UpdateExpiryStep ==
  ASSUME AccountAssumption, IInv, NEW h \in Handlers, UpdateExpiry(h)
  PROVE  IInv'
<1>0. PICK c \in Customers : c = task[h].c
  <2>1. task[h].at \in Stages
    BY StageNames DEF UpdateExpiry, WriteBack
  <2>2. QED
    BY <2>1, AtWork DEF IInv
<1>1. PICK row \in Row : Type(c, row, h) /\ row.status # "none"
  <2>1. customer[c].credit \in Nat
    BY DEF IInv, TypeOK, Row
  <2>2. PICK until \in Expiries, status \in {"active", "expired", "suspended"},
             credit \in Balances \cup {customer[c].credit} :
          Type(c, [status |-> status, until |-> until, credit |-> credit], h)
    BY <1>0 DEF UpdateExpiry
  <2>3. [status |-> status, until |-> until, credit |-> credit] \in Row /\ status # "none"
    BY <2>1, StatusNames DEF Row, AccountAssumption
  <2>4. QED
    BY <2>2, <2>3
<1>2. /\ UNCHANGED <<logged, payment, sweep, purge, wiped, now, scene, requests, torn>>
      /\ End(h) /\ task[h].at = "update"
  BY DEF UpdateExpiry
<1>3. QED
  BY <1>0, <1>1, <1>2, TypeStep

LEMMA UpdateMissStep ==
  ASSUME AccountAssumption, IInv, NEW h \in Handlers, UpdateMiss(h)
  PROVE  IInv' /\ Longer
<1>0. PICK c \in Customers : c = task[h].c
  <2>1. task[h].at \in Stages
    BY StageNames DEF UpdateMiss, WriteBack
  <2>2. QED
    BY <2>1, AtWork DEF IInv
<1>1. task[h].at \in Stages \ Unfinished /\ task[h].at \notin {"completed", "serve"}
  BY StageNames DEF UpdateMiss, Unfinished, WriteBack
<1>2. /\ TypeOK /\ customer' = customer /\ customer[c] \in Row /\ customer[c] = NoRow
      /\ ~Lasts(customer[c].until)
  BY <1>0, NoRowIsRow DEF UpdateMiss, IInv, TypeOK, RowsOK, Lasts
<1>3. Write(c, customer[c], h)
  BY <1>2, StayIsWrite DEF UpdateMiss
<1>4. /\ UNCHANGED <<Loops, requests, torn>> /\ End(h)
      /\ payment' = payment /\ logged' = logged /\ unlogged' = unlogged
      /\ payment' \in [Payments -> {"due", "completed", "served", "stray"}]
      /\ logged' \in [Customers -> Int] /\ unlogged' \in [Customers -> Int]
  BY <1>2 DEF UpdateMiss, Books, TypeOK
<1>5. Worth(c)' = Worth(c)
  BY <1>2, <1>4 DEF Worth
<1>6. QED
  BY <1>1, <1>2, <1>3, <1>4, <1>5, LastStep

\* A manual renewal and a voucher count from now.
LEMMA ManualRenewStep ==
  ASSUME AccountAssumption, IInv, NEW h \in Handlers, ManualRenew(h)
  PROVE  IInv'
<1>1. /\ task[h].at = "renew" /\ task[h].at \in Stages \ Unfinished
      /\ task[h].at \notin {"completed", "serve"}
  BY StageNames DEF ManualRenew, Unfinished
<1>0. task[h].c \in Customers
  BY <1>1, AtWork DEF IInv
<1>2. /\ payment' = payment /\ payment \in [Payments -> {"due", "completed", "served", "stray"}]
      /\ UNCHANGED <<Books, Loops, requests, torn>> /\ End(h)
      /\ Update(task[h].c, Renewed(customer[task[h].c], "active", now + 1), h)
  BY DEF ManualRenew, IInv, TypeOK, Renewed
<1>3. "active" \in Statuses /\ now + 1 \in Nat
  BY DEF Statuses, IInv, TypeOK
<1>4. QED
  BY <1>0, <1>1, <1>2, <1>3, LastUpdate

LEMMA RedeemStep ==
  ASSUME AccountAssumption, IInv, NEW h \in Handlers, Redeem(h)
  PROVE  IInv'
<1>1. /\ task[h].at = "redeem" /\ task[h].at \in Stages \ Unfinished
      /\ task[h].at \notin {"completed", "serve"}
  BY StageNames DEF Redeem, Unfinished
<1>0. task[h].c \in Customers
  BY <1>1, AtWork DEF IInv
<1>2. customer \in [Customers -> Row] /\ now \in Nat /\ TypeOK
  BY DEF IInv, TypeOK
<1>3. PICK c \in Customers :
        \E row \in {customer[c], Renewed(customer[c], "active", now + 1)} : Write(c, row, h)
  <2>1. CASE UNCHANGED <<customer, raced>>
    BY <1>0, <1>2, <2>1, StayIsWrite
  <2>2. QED
    BY <2>1 DEF Redeem, Renewed
<1>x. PICK row \in {customer[c], Renewed(customer[c], "active", now + 1)} : Write(c, row, h)
  BY <1>3
<1>4. /\ row \in Row /\ row.credit = customer[c].credit
      /\ row.status = "active" \/ row = customer[c]
  <2>1. "active" \in Statuses /\ now + 1 \in Nat
    BY <1>2 DEF Statuses
  <2>2. LET new == Renewed(customer[c], "active", now + 1)
        IN  new \in Row /\ new.credit = customer[c].credit /\ new.status = "active"
    BY <1>2, <2>1, RenewedRow
  <2>3. QED
    BY <1>2, <1>x, <2>2
<1>5. row.status = "none" => row = NoRow
  BY <1>2, <1>4 DEF IInv, RowsOK, Exists
<1>6. c \in raced' \cup typed' \/ ~Lasts(row.until) \/ row.status \in {"active", "suspended"}
  <2>1. raced \subseteq raced' /\ typed \subseteq typed'
    BY <1>x, RacedStays DEF Redeem, Loops
  <2>2. CASE row = customer[c]
    BY <1>5, <2>1, <2>2, LetIn
  <2>3. QED
    BY <1>4, <2>2
<1>7. /\ UNCHANGED <<Loops, requests, torn>> /\ End(h)
      /\ payment' = payment /\ logged' = logged /\ unlogged' = unlogged
      /\ payment' \in [Payments -> {"due", "completed", "served", "stray"}]
      /\ logged' \in [Customers -> Int] /\ unlogged' \in [Customers -> Int]
  BY <1>2 DEF Redeem, Books, TypeOK
<1>8. Worth(c)' = Worth(c)
  <2>1. customer'[c] = row
    BY <1>2, <1>x DEF Write, TypeOK
  <2>2. QED
    BY <1>4, <1>7, <2>1 DEF Worth
<1>9. QED
  BY <1>1, <1>x, <1>4, <1>5, <1>6, <1>7, <1>8, LastStep

\* A trial is made, or a new one goes on the copy of the account.
LEMMA TrialReadStep ==
  ASSUME AccountAssumption, IInv, NEW h \in Handlers, NEW c \in Customers, TrialRead(h, c)
  PROVE  IInv' /\ Longer
<1> DEFINE row == Renewed(customer[c], "active", now + 1)
<1>1. customer[c] \in Row /\ now \in Nat /\ TypeOK
  BY DEF IInv, TypeOK
<1>2. /\ row \in Row /\ row.status = "active" /\ row.credit = customer[c].credit
      /\ row.until = now + 1
  <2>1. "active" \in Statuses /\ now + 1 \in Nat
    BY <1>1, StatusNames
  <2>2. QED
    BY <1>1, <2>1, RenewedRow
<1>3. /\ UNCHANGED <<Books, payment, Loops, torn>> /\ requests' = requests + 1 /\ task[h] = Idle
  BY DEF TrialRead, Arrived, Arrive
<1>4. CASE Exists(c)
  <2>1. Go(h, "trial", c, row, Nobody) /\ UNCHANGED <<customer, raced>>
    BY <1>4 DEF TrialRead, Renewed
  <2> HIDE DEF row
  <2>2. /\ "trial" \in Stages /\ "trial" \notin Unfinished
        /\ task[h].at \notin Unfinished /\ task[h].at \notin {"completed", "serve"}
    BY <1>3 DEF Unfinished, Stages, WriteBack, Idle
  <2>3. /\ task'[h] = [at |-> "trial", c |-> c, row |-> row, p |-> Nobody]
        /\ \A k \in Handlers \ {h} : task'[k] = task[k]
    BY <1>1, <1>2, <2>1, <2>2, GoTask
  <2>4. CopyOK(h)' /\ FreshOK(h)'
    BY <1>2, <2>1, <2>3 DEF CopyOK, FreshOK
  <2>5. requests' \in Nat /\ torn' = torn /\ payment' = payment
        /\ payment' \in [Payments -> {"due", "completed", "served", "stray"}]
    BY <1>1, <1>3 DEF TypeOK
  <2>6. ServedOK'
    BY <2>2, <2>3, <2>5, ServedKeep
  <2>7. QED
    BY <1>2, <1>3, <2>1, <2>2, <2>4, <2>5, <2>6, ReadStep
<1>5. CASE ~Exists(c)
  <2>1. Write(c, row, Nobody) /\ UNCHANGED task
    BY <1>5 DEF TrialRead, Renewed
  <2>2. ~Lasts(customer[c].until)
    BY <1>1, <1>5, NoRowIsRow DEF IInv, RowsOK, Lasts
  <2> HIDE DEF row
  <2>3. QED
    BY <1>2, <1>3, <2>1, <2>2, StatusStep
<1>6. QED
  BY <1>4, <1>5

LEMMA TrialSaveStep ==
  ASSUME AccountAssumption, IInv, NEW h \in Handlers, TrialSave(h)
  PROVE  IInv'
<1>0. PICK c \in Customers, row \in Row : c = task[h].c /\ row = task[h].row
  <2>1. task[h].at \in Stages
    BY StageNames DEF TrialSave, WriteBack
  <2>2. QED
    BY <2>1, AtWork DEF IInv
<1>1. /\ task[h].at = "trial" /\ task[h].at \in Stages \ Unfinished
      /\ task[h].at \notin {"completed", "serve"}
  BY StageNames DEF TrialSave, WriteBack, Unfinished
<1>2. CopyOK(h) /\ FreshOK(h) /\ TypeOK /\ Write(c, row, h) /\ End(h)
  BY <1>0, <1>1 DEF IInv, TasksOK, Idle, TrialSave
<1>3. raced \subseteq raced' /\ customer'[c] = row
  BY <1>2 DEF Write, TypeOK
<1>4. row.status = "active" /\ (c \in raced' \/ row.credit = customer[c].credit)
  BY <1>0, <1>1, <1>2, <1>3 DEF CopyOK, FreshOK, WriteBack
<1>5. /\ logged' = logged /\ unlogged' = unlogged /\ payment' = payment
      /\ logged' \in [Customers -> Int] /\ unlogged' \in [Customers -> Int]
      /\ payment' \in [Payments -> {"due", "completed", "served", "stray"}]
      /\ UNCHANGED <<Loops, requests, torn>>
  BY <1>2 DEF TrialSave, Books, TypeOK
<1>6. c \in raced' \/ Worth(c)' = Worth(c)
  BY <1>3, <1>4, <1>5 DEF Worth
<1>7. QED
  BY <1>1, <1>2, <1>4, <1>5, <1>6, LastStep

\* The paybill's transaction: the plan it buys is credit that goes unlogged.
LEMMA C2BCreditStep ==
  ASSUME AccountAssumption, IInv, NEW h \in Handlers, NEW amount \in Amounts,
         C2BCredit(h, amount)
  PROVE  IInv' /\ Longer
<1>a. /\ task[h].at \in Stages \ Unfinished /\ task[h].at \notin {"completed", "serve"}
      /\ End(h) /\ UNCHANGED <<Loops, requests, torn>> /\ payment' = payment
  BY StageNames DEF C2BCredit, Unfinished
<1>0. PICK c \in Customers : c = task[h].c
  BY <1>a, AtWork DEF IInv
<1> DEFINE x == customer[c]
           credit == x.credit + amount
           new  == [status |-> "active", until |-> Extend(x.until), credit |-> credit - Price]
           more == [x EXCEPT !.credit = credit]
           paid == IF Exists(c) THEN amount ELSE 0
<1>b. PICK bought \in {0, Price} :
        /\ bought = Price => Exists(c) /\ Covers(credit, Price) /\ Write(c, new, h)
        /\ bought # Price /\ Exists(c) => Write(c, more, h)
        /\ Exists(c) => Log(c, amount)
        /\ bought = Price => unlogged' = [unlogged EXCEPT ![c] = @ + Price]
        /\ bought # Price => unlogged' = unlogged
        /\ ~Exists(c) => UNCHANGED <<customer, raced>> /\ logged' = logged
  <2>0. Price # 0
    BY DEF AccountAssumption
  <2>1. CASE Exists(c) /\ Covers(credit, Price) /\ Write(c, new, h)
             /\ unlogged' = [unlogged EXCEPT ![c] = @ + Price] /\ Log(c, amount)
    BY <2>1
  <2>2. CASE Exists(c) /\ Write(c, more, h) /\ Log(c, amount) /\ unlogged' = unlogged
    BY <2>0, <2>2
  <2>3. CASE ~Exists(c) /\ UNCHANGED <<customer, raced, Books>>
    BY <2>0, <2>3 DEF Books
  <2>4. QED
    BY <1>0, <2>1, <2>2, <2>3 DEF C2BCredit
<1> DEFINE row == IF ~Exists(c) THEN x ELSE IF bought = Price THEN new ELSE more
<1>1. /\ x \in Row /\ x.credit \in Nat /\ x.until \in Nat
      /\ amount \in Nat /\ Price \in Nat /\ Price > 0 /\ TypeOK /\ amount \in Int
  BY DEF IInv, TypeOK, Row, AccountAssumption
<1>2. credit \in Nat /\ (Covers(credit, Price) => credit - Price \in Nat)
  BY <1>1 DEF Covers
<1>3. Extend(x.until) \in Nat /\ Extend(x.until) > x.until
  BY <1>1, ExtendAdds
<1>4. /\ row \in Row /\ row.credit = x.credit + paid - bought /\ row.until >= x.until
      /\ row.status = "active" \/ (row.status = x.status /\ row.until = x.until)
      /\ row.status = "none" => row = NoRow
  <2>1. CASE Exists(c) /\ bought = Price
    <3>1. row = [status |-> "active", until |-> Extend(x.until), credit |-> credit - Price]
      BY <2>1
    <3>2. row \in Row
      BY <1>b, <1>2, <1>3, <2>1, <3>1, StatusNames DEF Row
    <3>3. QED
      BY <1>1, <1>3, <2>1, <3>1, <3>2
  <2>2. CASE Exists(c) /\ bought # Price
    <3>1. row \in Row /\ row.credit = credit /\ row.until = x.until /\ row.status = x.status
      BY <1>1, <1>2, <2>2 DEF Row
    <3>2. QED
      BY <1>b, <1>1, <2>2, <3>1 DEF Exists
  <2>3. CASE ~Exists(c)
    <3>1. row = x /\ x = NoRow /\ paid = 0 /\ bought = 0
      BY <1>b, <2>3 DEF IInv, RowsOK
    <3>2. QED
      BY <1>1, <3>1
  <2>4. QED
    BY <2>1, <2>2, <2>3
<1>5. /\ Write(c, row, h)
      /\ logged' \in [Customers -> Int] /\ logged'[c] = logged[c] + paid
      /\ \A d \in Customers \ {c} : logged'[d] = logged[d]
      /\ unlogged' \in [Customers -> Int] /\ unlogged'[c] = unlogged[c] + bought
      /\ \A d \in Customers \ {c} : unlogged'[d] = unlogged[d]
  <2>0. logged \in [Customers -> Int] /\ unlogged \in [Customers -> Int]
    BY <1>1 DEF TypeOK
  <2>1. CASE Exists(c) /\ bought = Price
    <3>1. /\ Write(c, row, h) /\ Log(c, amount)
          /\ unlogged' = [unlogged EXCEPT ![c] = @ + Price]
      BY <1>b, <2>1
    <3>2. QED
      BY <1>1, <2>0, <2>1, <3>1, Logged
  <2>2. CASE Exists(c) /\ bought # Price
    <3>1. Write(c, row, h) /\ Log(c, amount) /\ unlogged' = unlogged /\ bought = 0
      BY <1>b, <2>2
    <3>2. QED
      BY <1>1, <2>0, <2>2, <3>1, Logged
  <2>3. CASE ~Exists(c)
    <3>1. UNCHANGED <<customer, raced>> /\ logged' = logged /\ unlogged' = unlogged /\ bought = 0
      BY <1>b, <2>3
    <3>2. Write(c, row, h)
      BY <1>1, <2>3, <3>1, StayIsWrite
    <3>3. QED
      BY <2>0, <2>3, <3>1, <3>2
  <2>4. QED
    BY <2>1, <2>2, <2>3
<1>6. c \in raced' \cup typed' \/ ~Lasts(row.until) \/ row.status \in {"active", "suspended"}
  <2>1. raced \subseteq raced' /\ typed \subseteq typed'
    BY <1>5, RacedStays DEF C2BCredit, Loops
  <2>2. CASE row.status = customer[c].status /\ row.until = customer[c].until
    <3> HIDE DEF row
    <3>1. QED
      BY <1>4, <2>1, <2>2, LetIn
  <2>3. QED
    BY <1>4, <2>2
<1>7. Worth(c)' = Worth(c)
  <2>1. customer'[c] = row
    BY <1>1, <1>5 DEF Write, TypeOK
  <2>2. logged[c] \in Int /\ unlogged[c] \in Int /\ bought \in Int /\ paid \in Int
    BY <1>1 DEF TypeOK
  <2> HIDE DEF row, paid
  <2>3. QED
    BY <1>1, <1>4, <1>5, <2>1, <2>2 DEF Worth
<1>8. payment' \in [Payments -> {"due", "completed", "served", "stray"}]
  BY <1>1, <1>a DEF TypeOK
<1> HIDE DEF row, paid
<1>9. QED
  BY <1>a, <1>1, <1>4, <1>5, <1>6, <1>7, <1>8, LastStep

LEMMA PurchaseCommitStep ==
  ASSUME AccountAssumption, IInv, NEW h \in Handlers, PurchaseCommit(h)
  PROVE  IInv' /\ Longer
<1>0. PICK c \in Customers : c = task[h].c
  <2>1. task[h].at \in Stages
    BY StageNames DEF PurchaseCommit, WriteBack
  <2>2. QED
    BY <2>1, AtWork DEF IInv
<1> DEFINE x == customer[c]
           r == task[h].row
           bought == [status |-> "active", until |-> Extend(r.until), credit |-> r.credit - Price]
           row == IF Exists(c) THEN bought ELSE x
<1>1. /\ task[h].at = "buy" /\ task[h].at \in Stages \ Unfinished
      /\ task[h].at \notin {"completed", "serve"}
  BY StageNames DEF PurchaseCommit, WriteBack, Unfinished
<1>2. /\ x \in Row /\ x.until \in Nat /\ x.credit \in Nat /\ r \in Row /\ r.until \in Nat
      /\ r.credit \in Nat /\ r.credit >= Price /\ FreshOK(h) /\ Price \in Nat /\ Price > 0
      /\ logged[c] \in Int /\ unlogged[c] \in Int /\ TypeOK
  BY <1>0, <1>1, AtWork DEF IInv, TypeOK, TasksOK, CopyOK, Row, AccountAssumption
<1>3. Extend(r.until) \in Nat /\ Extend(r.until) > r.until
  BY <1>2, ExtendAdds
<1>4. bought \in Row /\ bought.status = "active" /\ bought.until > r.until /\ bought.credit = r.credit - Price
  <2>1. r.credit - Price \in Nat
    BY <1>2
  <2>2. QED
    BY <1>3, <2>1, StatusNames DEF Row
<1>5. Write(c, row, h)
  BY <1>0, <1>2, <1>4, UpdateIsWrite DEF PurchaseCommit
<1>6. raced \subseteq raced' /\ customer'[c] = row
  BY <1>2, <1>5 DEF Write, TypeOK
<1>7. c \in raced' \/ r = x
  BY <1>0, <1>1, <1>6 DEF IInv, TasksOK, FreshOK, WriteBack, Idle
<1>8. ~Exists(c) => x = NoRow
  BY DEF IInv, RowsOK
<1>9. c \in raced' \/ Exists(c)
  BY <1>2, <1>7, <1>8, NoRowIsRow
<1>10. /\ row \in Row /\ (row.status = "none" => row = NoRow)
       /\ c \in raced' \cup typed' \/ ~Lasts(row.until) \/ row.status \in {"active", "suspended"}
       /\ c \in raced' \/ row.until >= x.until
  <2>1. CASE Exists(c)
    <3>1. row = bought
      BY <2>1
    <3> HIDE DEF row, bought
    <3>2. c \in raced' \/ row.until >= x.until
      BY <1>2, <1>4, <1>7, <3>1 DEF Row
    <3>3. QED
      BY <1>4, <3>1, <3>2
  <2>2. CASE ~Exists(c)
    <3>1. row = x
      BY <2>2
    <3> HIDE DEF row, bought
    <3>2. QED
      BY <1>2, <1>8, <1>9, <2>2, <3>1
  <2>3. QED
    BY <2>1, <2>2
<1>11. /\ logged' \in [Customers -> Int] /\ logged'[c] = logged[c] + (-Price)
       /\ \A d \in Customers \ {c} : logged'[d] = logged[d]
  BY <1>0, <1>2, Logged DEF PurchaseCommit
<1>12. /\ unlogged' = unlogged /\ unlogged \in [Customers -> Int]
       /\ payment' = payment /\ payment \in [Payments -> {"due", "completed", "served", "stray"}]
       /\ UNCHANGED <<Loops, requests, torn>> /\ End(h)
  BY <1>2 DEF PurchaseCommit, TypeOK
<1>13. c \in raced' \/ Worth(c)' = Worth(c)
  <2> SUFFICES ASSUME c \notin raced' PROVE Worth(c)' = Worth(c)
    OBVIOUS
  <2>1. customer'[c].credit = x.credit - Price
    BY <1>4, <1>6, <1>7, <1>9
  <2>2. QED
    BY <1>2, <1>11, <1>12, <2>1 DEF Worth
<1> HIDE DEF row, bought
<1>14. QED
  BY <1>0, <1>1, <1>5, <1>10, <1>11, <1>12, <1>13, LastStep

\* The saved row has the time of the row in the table, or a guest's.
LEMMA VerifySaveStep ==
  ASSUME AccountAssumption, IInv, NEW h \in Handlers, VerifySave(h)
  PROVE  IInv' /\ Longer
<1>0. PICK c \in Customers, row \in Row : c = task[h].c /\ row = task[h].row
  <2>1. task[h].at \in Stages
    BY StageNames DEF VerifySave, WriteBack
  <2>2. QED
    BY <2>1, AtWork DEF IInv
<1>1. /\ task[h].at = "save" /\ task[h].at \in Stages \ Unfinished
      /\ task[h].at \notin {"completed", "serve"}
  BY StageNames DEF VerifySave, WriteBack, Unfinished
<1>2. /\ CopyOK(h) /\ FreshOK(h) /\ row.until \in Nat /\ row.credit \in Nat /\ TypeOK
      /\ customer[c].until \in Nat /\ now \in Nat
  BY <1>0, <1>1 DEF IInv, TypeOK, TasksOK, Row, Idle
<1>3. Write(c, row, h) /\ End(h)
  BY <1>0 DEF VerifySave
<1>4. raced \subseteq raced' /\ customer'[c] = row
  BY <1>2, <1>3 DEF Write, TypeOK
<1>5. row.status # "none" /\ (~Lasts(row.until) \/ row.status \in {"active", "suspended"})
  BY <1>0, <1>1, <1>2 DEF CopyOK, Lasts
<1>6. c \in raced' \/ row.credit = customer[c].credit
  BY <1>0, <1>1, <1>2, <1>4 DEF FreshOK, WriteBack
<1>7. \/ ~Lasts(customer[c].until) \/ c \in raced'
      \/ row.until >= customer[c].until
  BY <1>0, <1>1, <1>2, <1>4 DEF FreshOK, WriteBack
<1>8. /\ logged' = logged /\ unlogged' = unlogged /\ payment' = payment
      /\ logged' \in [Customers -> Int] /\ unlogged' \in [Customers -> Int]
      /\ payment' \in [Payments -> {"due", "completed", "served", "stray"}]
      /\ UNCHANGED <<Loops, requests, torn>>
  BY <1>2 DEF VerifySave, Books, TypeOK
<1>9. c \in raced' \/ Worth(c)' = Worth(c)
  BY <1>4, <1>6, <1>8 DEF Worth
<1>10. QED
  BY <1>0, <1>1, <1>3, <1>5, <1>7, <1>8, <1>9, LastStep

\* Serving a payment settles it.
LEMMA Settled ==
  ASSUME TypeOK, NEW p \in Payments, Settle(p)
  PROVE  /\ payment' \in [Payments -> {"due", "completed", "served", "stray"}]
         /\ payment'[p] # "completed"
         /\ \A q \in Payments : payment'[q] = "completed" => payment[q] = "completed"
BY DEF Settle, TypeOK

LEMMA CreditTopUpStep ==
  ASSUME AccountAssumption, IInv, NEW h \in Handlers, CreditTopUp(h)
  PROVE  IInv' /\ Longer
<1>0. PICK c \in Customers : c = task[h].c
  <2>1. task[h].at \in Stages
    BY StageNames DEF CreditTopUp
  <2>2. QED
    BY <2>1, AtWork DEF IInv
<1> DEFINE x == customer[c]
           more == [x EXCEPT !.credit = @ + Price]
           row == IF Exists(c) THEN more ELSE x
<1>1. task[h].at = "completed" /\ task[h].at \in Stages \ Unfinished
  BY StageNames DEF CreditTopUp, Unfinished
<1>2. /\ x \in Row /\ x.until \in Nat /\ x.credit \in Nat /\ TypeOK
      /\ Price \in Nat /\ Price \in Int /\ logged[c] \in Int /\ unlogged[c] \in Int
  BY DEF IInv, TypeOK, Row, AccountAssumption
<1>3. task[h].p \in Payments
  BY <1>1 DEF IInv, TasksOK, CopyOK, Idle
<1>4. more \in Row /\ more.credit = x.credit + Price /\ more.until = x.until /\ more.status = x.status
  BY <1>2 DEF Row
<1>5. Write(c, row, h)
  <2>1. CASE Exists(c)
    BY <1>0, <2>1 DEF CreditTopUp
  <2>2. CASE ~Exists(c)
    BY <1>0, <1>2, <2>2, StayIsWrite DEF CreditTopUp
  <2>3. QED
    BY <2>1, <2>2
<1>6. raced \subseteq raced' /\ customer'[c] = row
  BY <1>2, <1>5 DEF Write, TypeOK
<1>7. /\ row \in Row /\ row.until = x.until /\ row.status = x.status
      /\ row.status = "none" => row = NoRow
  BY <1>2, <1>4 DEF Exists, IInv, RowsOK
<1>8. c \in raced' \cup typed' \/ ~Lasts(row.until) \/ row.status \in {"active", "suspended"}
  <2>1. typed \subseteq typed'
    BY DEF CreditTopUp, Loops
  <2> HIDE DEF row, more
  <2>2. QED
    BY <1>6, <1>7, <2>1, LetIn
<1>9. /\ unlogged' = unlogged /\ unlogged' \in [Customers -> Int]
      /\ UNCHANGED <<Loops, requests, torn>> /\ End(h) /\ Settle(task[h].p)
  BY <1>2 DEF CreditTopUp, TypeOK
<1>10. /\ logged' \in [Customers -> Int] /\ Worth(c)' = Worth(c)
       /\ \A d \in Customers \ {c} : logged'[d] = logged[d]
  <2>1. CASE Exists(c)
    <3>1. /\ logged' \in [Customers -> Int] /\ logged'[c] = logged[c] + Price
          /\ \A d \in Customers \ {c} : logged'[d] = logged[d]
      BY <1>0, <1>2, <2>1, Logged DEF CreditTopUp
    <3>2. customer'[c].credit = x.credit + Price
      BY <1>4, <1>6, <2>1
    <3>3. QED
      BY <1>2, <1>9, <3>1, <3>2 DEF Worth
  <2>2. CASE ~Exists(c)
    BY <1>0, <1>2, <1>6, <1>9, <2>2 DEF Worth, CreditTopUp, TypeOK
  <2>3. QED
    BY <2>1, <2>2
<1>11. row.until >= x.until
  BY <1>2, <1>7
<1> HIDE DEF row, more
<1>12. /\ payment' \in [Payments -> {"due", "completed", "served", "stray"}]
       /\ payment'[task[h].p] # "completed"
       /\ \A q \in Payments : payment'[q] = "completed" => payment[q] = "completed"
  BY <1>2, <1>3, <1>9, Settled
<1>13. QED
  BY <1>0, <1>1, <1>5, <1>7, <1>8, <1>9, <1>10, <1>11, <1>12, LastStep

LEMMA ServeWriteStep ==
  ASSUME AccountAssumption, IInv, NEW h \in Handlers, ServeWrite(h)
  PROVE  IInv' /\ Longer
<1>0. PICK c \in Customers : c = task[h].c
  <2>1. task[h].at \in Stages
    BY StageNames DEF ServeWrite, WriteBack
  <2>2. QED
    BY <2>1, AtWork DEF IInv
<1> DEFINE x == customer[c]
           r == task[h].row.until
<1>1. task[h].at = "serve" /\ task[h].at \in Stages \ Unfinished
  BY StageNames DEF ServeWrite, WriteBack, Unfinished
<1>2. /\ x \in Row /\ x.until \in Nat /\ r \in Nat /\ TypeOK
      /\ task[h].p \in Payments /\ FreshOK(h)
  BY <1>0, <1>1, AtWork DEF IInv, TypeOK, TasksOK, CopyOK, Row
<1>3. PICK until \in Nat : until = Extend(r) /\ until > r
  BY <1>2, ExtendAdds
<1>4. raced \subseteq raced'
  BY <1>0, RacedStays DEF ServeWrite
<1>5. c \in raced' \/ until >= x.until
  BY <1>0, <1>1, <1>2, <1>3, <1>4 DEF FreshOK, WriteBack
<1>6. /\ UNCHANGED <<Books, Loops, requests, torn>> /\ End(h) /\ Settle(task[h].p)
      /\ Update(c, Renewed(x, "active", until), h)
  BY <1>0, <1>3 DEF ServeWrite, Renewed
<1>7. /\ payment' \in [Payments -> {"due", "completed", "served", "stray"}]
      /\ payment'[task[h].p] # "completed"
      /\ \A q \in Payments : payment'[q] = "completed" => payment[q] = "completed"
  BY <1>2, <1>6, Settled
<1>8. "active" \in Statuses
  BY DEF Statuses
<1>9. QED
  BY <1>0, <1>1, <1>5, <1>6, <1>7, <1>8, LastUpdate

\* An account that is found, or made with nothing on it.
LEMMA FoundOrMade ==
  ASSUME AccountAssumption, IInv, NEW c \in Customers, NEW status \in {"active", "expired"},
         NEW row, row = IF Exists(c) THEN customer[c] ELSE [NoRow EXCEPT !.status = status]
  PROVE  /\ row \in Row /\ row.status # "none" /\ row.until \in Nat
         /\ row.credit = customer[c].credit /\ row.until = customer[c].until
         /\ c \in raced \cup typed \/ ~Lasts(row.until) \/ row.status \in {"active", "suspended"}
<1>1. customer[c] \in Row /\ customer[c].until \in Nat /\ now \in Nat
  BY DEF IInv, TypeOK, Row
<1>2. CASE Exists(c)
  <2>1. row = customer[c]
    BY <1>2
  <2>2. QED
    BY <1>1, <1>2, <2>1 DEF IInv, PaidTimeKept, Exists
<1>3. CASE ~Exists(c)
  <2>1. customer[c] = NoRow /\ row = [NoRow EXCEPT !.status = status]
    BY <1>3 DEF IInv, RowsOK
  <2>2. row \in Row /\ row.until = 0 /\ row.credit = 0 /\ row.status = status
    BY <2>1 DEF NoRow, Row, Statuses
  <2>3. ~Lasts(row.until)
    BY <1>1, <2>2 DEF Lasts
  <2>4. QED
    BY <2>1, <2>2, <2>3, NoRowIsRow
<1>4. QED
  BY <1>2, <1>3

\* A request finds or makes the account and goes on with it.
LEMMA FindStep ==
  ASSUME AccountAssumption, IInv, NEW h \in Handlers, NEW c \in Customers,
         NEW stage \in Stages, NEW copy \in Row, NEW p \in Customers \cup Payments \cup {Nobody},
         NEW row \in Row, Write(c, row, h), Go(h, stage, c, copy, p),
         row.status # "none", row.credit = customer[c].credit, row.until = customer[c].until,
         c \in raced \cup typed \/ ~Lasts(row.until) \/ row.status \in {"active", "suspended"},
         CopyOK(h)', FreshOK(h)', ServedOK',
         stage \notin Unfinished, task[h].at \notin Unfinished,
         UNCHANGED <<Books, payment, Loops, torn>>, requests' \in Nat
  PROVE  IInv' /\ Longer
<1>1. /\ task' \in [Handlers -> {Idle} \cup Task]
      /\ task'[h] = [at |-> stage, c |-> c, row |-> copy, p |-> p]
      /\ \A k \in Handlers \ {h} : task'[k] = task[k]
  BY GoTask DEF IInv
<1>2. task'[h].at = stage
  BY <1>1
<1>3. /\ logged' \in [Customers -> Int] /\ unlogged' \in [Customers -> Int]
      /\ torn' \subseteq Customers /\ customer[c].until \in Nat /\ torn' = torn
      /\ logged' = logged /\ unlogged' = unlogged
      /\ payment' \in [Payments -> {"due", "completed", "served", "stray"}]
      /\ customer'[c] = row /\ wiped' = wiped /\ typed' = typed
  BY DEF IInv, TypeOK, Row, Books, Write, Loops
<1>4. Worth(c)' = Worth(c)
  BY <1>3 DEF Worth
<1>5. BooksOK'
  BY <1>1, <1>2, <1>3, <1>4, QuietBooks
<1>6. raced \subseteq raced' /\ row.until >= customer[c].until /\ UNCHANGED Loops
  BY <1>3, RacedStays
<1>7. c \in raced' \cup typed' \/ ~Lasts(row.until) \/ row.status \in {"active", "suspended"}
  BY <1>3, <1>6
<1>8. QED
  BY <1>1, <1>3, <1>5, <1>6, <1>7, RequestStep

\* The clock decides what a customer is at sign-in.
LEMMA Recomputed ==
  ASSUME TypeOK, NEW row \in Row
  PROVE  /\ Recompute(row) \in Row /\ Recompute(row).credit = row.credit
         /\ \/ Recompute(row).status = "active" /\ Recompute(row).until = row.until
            \/ /\ Recompute(row).status = "expired" /\ Recompute(row).until = 0
               /\ ~Lasts(row.until)
<1>1. {"active", "expired"} \subseteq Statuses
  BY DEF Statuses
<1>2. CASE Lasts(row.until)
  BY <1>1, <1>2 DEF Recompute, Row
<1>3. CASE ~Lasts(row.until)
  BY <1>1, <1>3 DEF Recompute, Row
<1>4. QED
  BY <1>2, <1>3

LEMMA VerifyReadStep ==
  ASSUME AccountAssumption, IInv, NEW h \in Handlers, NEW c \in Customers, VerifyRead(h, c)
  PROVE  IInv' /\ Longer
<1>1. PICK row : row = IF Exists(c) THEN customer[c] ELSE [NoRow EXCEPT !.status = "expired"]
  OBVIOUS
<1>2. /\ row \in Row /\ row.status # "none" /\ row.until \in Nat
      /\ row.credit = customer[c].credit /\ row.until = customer[c].until
      /\ c \in raced \cup typed \/ ~Lasts(row.until) \/ row.status \in {"active", "suspended"}
  BY <1>1, FoundOrMade
<1>3. PICK copy \in Row, stage \in {"migrate", "save"} :
        /\ copy = Recompute(row) /\ (stage = "migrate" => copy.status # "active")
        /\ Go(h, stage, c, copy, Nobody)
  <2>1. Recompute(row) \in Row
    BY <1>2, Recomputed DEF IInv
  <2>2. QED
    BY <1>1, <2>1 DEF VerifyRead
<1>4. /\ copy.credit = row.credit
      /\ \/ copy.status = "active" /\ copy.until = row.until
         \/ copy.status = "expired" /\ copy.until = 0 /\ ~Lasts(row.until)
  BY <1>2, <1>3, Recomputed DEF IInv
<1>5. /\ Write(c, row, h) /\ task[h] = Idle /\ c \notin Guests
      /\ UNCHANGED <<Books, payment, Loops, torn>> /\ requests' = requests + 1
  BY <1>1 DEF VerifyRead, Arrived, Arrive
<1>6. /\ stage \in Stages /\ stage \notin Unfinished /\ stage \notin {"completed", "serve"}
      /\ task[h].at \notin Unfinished /\ task[h].at \notin {"completed", "serve"}
  BY <1>5 DEF Unfinished, Stages, WriteBack, Idle
<1>7. /\ task'[h] = [at |-> stage, c |-> c, row |-> copy, p |-> Nobody]
      /\ \A k \in Handlers \ {h} : task'[k] = task[k]
  BY <1>3, <1>6, GoTask DEF IInv
<1>8. customer'[c] = row /\ now' = now /\ requests' \in Nat /\ payment' = payment /\ torn' = torn
      /\ now \in Nat
  BY <1>5 DEF Write, IInv, TypeOK, Loops
<1>9. CopyOK(h)'
  <2>1. task'[h].at = stage /\ task'[h].row = copy /\ task'[h].c = c
    BY <1>7
  <2>2. QED
    BY <1>3, <1>4, <1>5, <1>6, <2>1 DEF CopyOK
<1>10. FreshOK(h)'
  <2>1. task'[h].at = stage /\ task'[h].row = copy /\ task'[h].c = c
    BY <1>7
  <2>2. Lasts(row.until) => copy.until = row.until /\ copy.status = "active"
    BY <1>4
  <2>3. stage \notin {"expire", "buy", "serve", "update", "take"}
    OBVIOUS
  <2>4. stage = "migrate" => ~Lasts(row.until)
    BY <1>3, <1>4
  <2>5. QED
    BY <1>2, <1>4, <1>8, <2>1, <2>2, <2>3, <2>4 DEF FreshOK, Lasts
<1>11. ServedOK'
  BY <1>6, <1>7, <1>8, ServedKeep
<1>12. QED
  BY <1>2, <1>3, <1>5, <1>6, <1>8, <1>9, <1>10, <1>11, FindStep

LEMMA VoucherResolveStep ==
  ASSUME AccountAssumption, IInv, NEW h \in Handlers, NEW c \in Customers,
         VoucherResolve(h, c) \/ C2BRead(h, c)
  PROVE  IInv' /\ Longer
<1>1. PICK row : row = IF Exists(c) THEN customer[c] ELSE [NoRow EXCEPT !.status = "active"]
  OBVIOUS
<1>2. /\ row \in Row /\ row.status # "none"
      /\ row.credit = customer[c].credit /\ row.until = customer[c].until
      /\ c \in raced \cup typed \/ ~Lasts(row.until) \/ row.status \in {"active", "suspended"}
  BY <1>1, FoundOrMade
<1>3. PICK stage \in {"redeem", "credit"} :
        /\ Write(c, row, h) /\ task[h] = Idle /\ Go(h, stage, c, NoRow, Nobody)
        /\ UNCHANGED <<Books, payment, Loops, torn>> /\ requests' = requests + 1
  BY <1>1 DEF VoucherResolve, C2BRead, Arrived, Arrive
<1>4. /\ stage \in Stages /\ stage \notin Unfinished
      /\ task[h].at \notin Unfinished /\ task[h].at \notin {"completed", "serve"}
  BY <1>3 DEF Unfinished, Stages, Idle
<1>5. /\ task'[h] = [at |-> stage, c |-> c, row |-> NoRow, p |-> Nobody]
      /\ \A k \in Handlers \ {h} : task'[k] = task[k]
  BY <1>3, <1>4, NoRowIsRow, GoTask DEF IInv
<1>6. CopyOK(h)' /\ FreshOK(h)'
  BY <1>5 DEF CopyOK, FreshOK, WriteBack
<1>7. requests' \in Nat /\ torn' = torn /\ payment' = payment
  BY <1>3 DEF IInv, TypeOK
<1>8. ServedOK'
  BY <1>4, <1>5, <1>7, ServedKeep
<1>9. QED
  BY <1>2, <1>3, <1>4, <1>6, <1>7, <1>8, NoRowIsRow, FindStep

\* A payment's request that goes on with it still serves it.
LEMMA GoesOnServing ==
  ASSUME IInv, NEW h \in Handlers, torn' = torn,
         \A p \in Payments : payment'[p] = "completed" => payment[p] = "completed" \/ Serves(h, p)',
         \A k \in Handlers \ {h} : task'[k] = task[k],
         \A p \in Payments : Serves(h, p) => Serves(h, p)'
  PROVE  ServedOK'
<1> SUFFICES ASSUME NEW p \in Payments, payment'[p] = "completed"
             PROVE  PayerOf[p] \in torn' \/ \E k \in Handlers : Serves(k, p)'
  BY DEF ServedOK
<1>1. CASE Serves(h, p)'
  BY <1>1
<1>2. CASE payment[p] = "completed"
  <2>1. PayerOf[p] \in torn \/ \E k \in Handlers : Serves(k, p)
    BY <1>2 DEF IInv, ServedOK
  <2>2. \A k \in Handlers : Serves(k, p) => Serves(k, p)'
    BY DEF Serves
  <2>3. QED
    BY <2>1, <2>2
<1>3. QED
  BY <1>1, <1>2

LEMMA ServeReadStep ==
  ASSUME AccountAssumption, IInv, NEW h \in Handlers, ServeRead(h)
  PROVE  IInv' /\ Longer
<1>0. PICK c \in Customers, p \in Payments : c = task[h].c /\ p = task[h].p /\ c = PayerOf[p]
  <2>1. task[h].at = "completed" /\ task[h].at \in Stages
    BY StageNames DEF ServeRead
  <2>2. QED
    BY <2>1, AtWork DEF IInv, TasksOK, CopyOK
<1>1. PICK row : row = IF Exists(c) THEN customer[c] ELSE [NoRow EXCEPT !.status = "active"]
  OBVIOUS
<1>2. /\ row \in Row /\ row.status # "none"
      /\ row.credit = customer[c].credit /\ row.until = customer[c].until
      /\ c \in raced \cup typed \/ ~Lasts(row.until) \/ row.status \in {"active", "suspended"}
  BY <1>1, FoundOrMade
<1>3. /\ Write(c, row, h) /\ Go(h, "serve", c, row, p)
      /\ UNCHANGED <<Books, payment, Loops, torn>> /\ requests' = requests
  BY <1>0, <1>1 DEF ServeRead
<1>4. /\ "serve" \in Stages /\ "serve" \notin Unfinished /\ task[h].at \notin Unfinished
      /\ p \in Customers \cup Payments \cup {Nobody}
  BY DEF ServeRead, Unfinished, Stages, WriteBack
<1>5. /\ task'[h] = [at |-> "serve", c |-> c, row |-> row, p |-> p]
      /\ \A k \in Handlers \ {h} : task'[k] = task[k]
  BY <1>2, <1>3, <1>4, GoTask DEF IInv
<1>6. customer'[c] = row /\ requests' \in Nat /\ torn' = torn /\ payment' = payment
  BY <1>3 DEF Write, IInv, TypeOK
<1>7. CopyOK(h)' /\ FreshOK(h)'
  <2>1. task'[h].at = "serve" /\ task'[h].row = row /\ task'[h].c = c /\ task'[h].p = p
    BY <1>5
  <2>2. CopyOK(h)'
    BY <1>0, <2>1 DEF CopyOK
  <2>3. FreshOK(h)'
    BY <1>6, <2>1 DEF FreshOK
  <2>4. QED
    BY <2>2, <2>3
<1>8. ServedOK'
  <2>1. \A q \in Payments : Serves(h, q) => Serves(h, q)'
    BY <1>0, <1>5 DEF Serves
  <2>2. QED
    BY <1>5, <1>6, <2>1, GoesOnServing
<1>9. QED
  BY <1>2, <1>3, <1>4, <1>6, <1>7, <1>8, FindStep

LEMMA CompleteStep ==
  ASSUME AccountAssumption, IInv, NEW h \in Handlers, NEW p \in Payments, Complete(h, p)
  PROVE  IInv' /\ Longer
<1>1. PICK c \in Customers : c = PayerOf[p]
  BY DEF AccountAssumption
<1>2. /\ task[h] = Idle /\ Go(h, "completed", c, NoRow, p)
      /\ UNCHANGED <<customer, Books, Loops, raced, torn>> /\ requests' = requests + 1
      /\ payment' = [payment EXCEPT ![p] = "completed"]
  BY <1>1 DEF Complete, Arrived, Arrive
<1>3. /\ "completed" \in Stages /\ "completed" \notin Unfinished /\ task[h].at \notin Unfinished
      /\ task[h].at \notin {"completed", "serve"} /\ p \in Customers \cup Payments \cup {Nobody}
  BY <1>2, StageNames DEF Unfinished
<1>4. /\ task'[h] = [at |-> "completed", c |-> c, row |-> NoRow, p |-> p]
      /\ \A k \in Handlers \ {h} : task'[k] = task[k]
  BY <1>2, <1>3, NoRowIsRow, GoTask DEF IInv
<1>5. CopyOK(h)' /\ FreshOK(h)'
  BY <1>1, <1>4 DEF CopyOK, FreshOK, WriteBack
<1>6. /\ requests' \in Nat /\ torn' = torn
      /\ payment' \in [Payments -> {"due", "completed", "served", "stray"}]
      /\ \A q \in Payments \ {p} : payment'[q] = payment[q]
  BY <1>2 DEF IInv, TypeOK
<1>7. ServedOK'
  <2>1. Serves(h, p)' /\ \A q \in Payments : ~Serves(h, q)
    BY <1>1, <1>3, <1>4 DEF Serves
  <2>2. QED
    BY <1>4, <1>6, <2>1, GoesOnServing
<1>8. QED
  BY <1>2, <1>3, <1>5, <1>6, <1>7, NoRowIsRow, ReadStep

\* Moving a guest's plan: the guest's row, then the copy of the customer's.
LEMMA MigrateReadStep ==
  ASSUME AccountAssumption, IInv, NEW h \in Handlers, NEW g \in Customers, MigrateRead(h, g)
  PROVE  IInv' /\ Longer
<1>0. PICK c \in Customers, r \in Row : c = task[h].c /\ r = task[h].row
  <2>1. task[h].at \in Stages
    BY StageNames DEF MigrateRead, WriteBack
  <2>2. QED
    BY <2>1, AtWork DEF IInv
<1>1. /\ task[h].at = "migrate" /\ task[h].at \notin Unfinished
      /\ task[h].at \notin {"completed", "serve"} /\ g \in Guests
  BY DEF MigrateRead, Unfinished
<1>2. CopyOK(h) /\ FreshOK(h) /\ TypeOK /\ customer[g].until \in Nat
  BY <1>1 DEF IInv, TypeOK, TasksOK, Row, Idle
<1>3. /\ UNCHANGED <<customer, Books, Loops, raced, torn>> /\ requests' \in Nat
      /\ payment' = payment /\ torn' = torn /\ now' = now /\ customer' = customer /\ raced' = raced
      /\ payment' \in [Payments -> {"due", "completed", "served", "stray"}]
  BY <1>2 DEF MigrateRead, TypeOK, Loops
<1>4. c \notin Guests /\ r.status = "expired" /\ r.until = 0
  BY <1>0, <1>1, <1>2 DEF CopyOK
<1>5. c \notin raced => ~Lasts(customer[c].until) /\ r.credit = customer[c].credit
  BY <1>0, <1>1, <1>2 DEF FreshOK, WriteBack
<1>6. PICK stage \in {"take", "save"}, copy \in Row, p \in Guests \cup {Nobody} :
        /\ Go(h, stage, c, copy, p)
        /\ copy.status = "expired" /\ copy.credit = r.credit
        /\ stage = "take" => p = g
        /\ stage = "save" => copy.until = 0
  <2>1. LET copy == [r EXCEPT !.until = customer[g].until]
        IN  copy \in Row /\ copy.status = "expired" /\ copy.credit = r.credit
    BY <1>2, <1>4 DEF Row
  <2>2. QED
    BY <1>0, <1>1, <1>4, <2>1 DEF MigrateRead
<1>7. stage \in Stages /\ stage \notin Unfinished /\ p \in Customers \cup Payments \cup {Nobody}
  BY DEF Stages, WriteBack, Unfinished, AccountAssumption
<1>8. /\ task'[h] = [at |-> stage, c |-> c, row |-> copy, p |-> p]
      /\ \A k \in Handlers \ {h} : task'[k] = task[k]
  BY <1>2, <1>6, <1>7, GoTask
<1>9. task'[h].at = stage /\ task'[h].row = copy /\ task'[h].c = c /\ task'[h].p = p
  BY <1>8
<1>10. CopyOK(h)'
  BY <1>1, <1>4, <1>6, <1>9 DEF CopyOK
<1>11. FreshOK(h)'
  BY <1>3, <1>5, <1>6, <1>9 DEF FreshOK, Lasts
<1>12. ServedOK'
  BY <1>1, <1>3, <1>8, ServedKeep
<1>13. QED
  BY <1>1, <1>3, <1>6, <1>7, <1>10, <1>11, <1>12, ReadStep

LEMMA MigrateTakeStep ==
  ASSUME AccountAssumption, IInv, NEW h \in Handlers, MigrateTake(h)
  PROVE  IInv'
<1>0. PICK c \in Customers, r \in Row, g \in Guests :
        c = task[h].c /\ r = task[h].row /\ g = task[h].p
  <2>1. task[h].at = "take" /\ task[h].at \in Stages
    BY StageNames DEF MigrateTake, WriteBack
  <2>2. QED
    BY <2>1, AtWork DEF IInv, TasksOK, CopyOK
<1>1. /\ task[h].at = "take" /\ task[h].at \notin Unfinished
      /\ task[h].at \notin {"completed", "serve"}
  BY DEF MigrateTake, Unfinished
<1>2. /\ CopyOK(h) /\ FreshOK(h) /\ TypeOK /\ g \in Customers /\ customer[g] \in Row
      /\ now \in Nat
  BY <1>1 DEF IInv, TypeOK, TasksOK, Idle, AccountAssumption
<1>3. c \notin Guests /\ r.status = "expired" /\ c # g
  BY <1>0, <1>1, <1>2 DEF CopyOK
<1>4. c \notin raced => ~Lasts(customer[c].until) /\ r.credit = customer[c].credit
  BY <1>0, <1>1, <1>2 DEF FreshOK, WriteBack
<1>5. /\ UNCHANGED <<Books, Loops, torn>> /\ UNCHANGED Loops /\ requests' \in Nat
      /\ payment' = payment /\ torn' = torn /\ now' = now /\ torn' \subseteq Customers
      /\ payment' \in [Payments -> {"due", "completed", "served", "stray"}]
      /\ logged' = logged /\ unlogged' = unlogged
      /\ logged' \in [Customers -> Int] /\ unlogged' \in [Customers -> Int]
  BY <1>2 DEF MigrateTake, TypeOK, Loops, Books
<1>6. PICK copy \in Row, row \in Row :
        /\ Go(h, "save", c, copy, Nobody) /\ Write(g, row, h)
        /\ copy.credit = r.credit
        /\ copy.status = "active" \/ (copy.status = "expired" /\ copy.until = 0)
        /\ row.credit = customer[g].credit
        /\ row = customer[g] \/ (row.status = "expired" /\ row.until = now)
  <2>1. CASE Movable(g)
    <3>1. LET copy == [r EXCEPT !.status = "active"]
          IN  copy \in Row /\ copy.status = "active" /\ copy.credit = r.credit
      BY StatusNames DEF Row
    <3>2. LET row == [customer[g] EXCEPT !.status = "expired", !.until = now]
          IN  /\ row \in Row /\ row.credit = customer[g].credit
              /\ row.status = "expired" /\ row.until = now
      BY <1>2, StatusNames DEF Row
    <3>3. QED
      BY <1>0, <2>1, <3>1, <3>2 DEF MigrateTake
  <2>2. CASE ~Movable(g)
    <3>1. LET copy == [r EXCEPT !.until = 0]
          IN  /\ copy \in Row /\ copy.credit = r.credit
              /\ copy.status = "expired" /\ copy.until = 0
      BY <1>3 DEF Row
    <3>2. Write(g, customer[g], h)
      BY <1>0, <1>2, <2>2, StayIsWrite DEF MigrateTake
    <3>3. QED
      BY <1>0, <1>2, <2>2, <3>1, <3>2 DEF MigrateTake
  <2>3. QED
    BY <2>1, <2>2
<1>7. /\ task' \in [Handlers -> {Idle} \cup Task]
      /\ task'[h] = [at |-> "save", c |-> c, row |-> copy, p |-> Nobody]
      /\ \A k \in Handlers \ {h} : task'[k] = task[k]
  BY <1>2, <1>6, GoTask DEF Stages, WriteBack
<1>8. task'[h].at = "save" /\ task'[h].row = copy /\ task'[h].c = c
  BY <1>7
<1>9. customer'[c] = customer[c] /\ customer'[g] = row /\ raced \subseteq raced'
  BY <1>2, <1>3, <1>6 DEF Write, TypeOK
<1>10. CopyOK(h)' /\ FreshOK(h)'
  <2>1. CopyOK(h)'
    BY <1>3, <1>6, <1>8 DEF CopyOK
  <2>2. FreshOK(h)'
    BY <1>4, <1>5, <1>6, <1>8, <1>9 DEF FreshOK, Lasts
  <2>3. QED
    BY <2>1, <2>2
<1>11. ServedOK'
  BY <1>1, <1>5, <1>7, ServedKeep
<1>12. BooksOK'
  <2>1. Worth(g)' = Worth(g)
    BY <1>5, <1>6, <1>9 DEF Worth
  <2>2. task'[h].at \notin Unfinished /\ wiped' = wiped
    BY <1>5, <1>8 DEF Unfinished, Loops
  <2>3. QED
    BY <1>1, <1>2, <1>5, <1>6, <1>7, <2>1, <2>2, QuietBooks
<1>13. row.status = "none" => row = NoRow
  BY <1>2, <1>6 DEF IInv, RowsOK, Exists
<1>14. g \in raced' \cup typed' \/ ~Lasts(row.until) \/ row.status \in {"active", "suspended"}
  <2>1. row.until = now => ~Lasts(row.until)
    BY <1>2 DEF Lasts
  <2>2. CASE row = customer[g]
    <3>1. typed' = typed
      BY <1>5 DEF Loops
    <3>2. QED
      BY <1>2, <1>9, <1>13, <2>2, <3>1, LetIn
  <2>3. QED
    BY <1>6, <2>1, <2>2
<1>15. QED
  BY <1>2, <1>5, <1>6, <1>7, <1>10, <1>11, <1>12, <1>13, <1>14, RequestStep

-----------------------------------------------------------------------------
(* Manual payments, which change the balance and its log one at a time. *)

\* What a task at a stage has done to the balance and not yet logged.
Weight(stage) == CASE stage = "manuallog" -> 1 [] stage = "debitlog" -> -1 [] OTHER -> 0

\* Members of a finite set that are counted by one step of one of them.
LEMMA CountAfter ==
  ASSUME NEW S, NEW T, NEW x, IsFiniteSet(S), T \ {x} = S \ {x}
  PROVE  /\ IsFiniteSet(T)
         /\ Cardinality(S) \in Int /\ Cardinality(T) \in Int
         /\ Cardinality(T) = Cardinality(S) + (IF x \in T THEN 1 ELSE 0) - (IF x \in S THEN 1 ELSE 0)
<1>1. PICK R : R = S \ {x}
  OBVIOUS
<1>2. IsFiniteSet(R) /\ x \notin R
  BY <1>1, FS_Subset
<1>3. IsFiniteSet(R \cup {x}) /\ Cardinality(R \cup {x}) = Cardinality(R) + 1
  BY <1>2, FS_AddElement
<1>4. Cardinality(R) \in Int
  BY <1>2, FS_CardinalityType
<1>5. (x \in S => S = R \cup {x}) /\ (x \notin S => S = R)
  BY <1>1
<1>6. (x \in T => T = R \cup {x}) /\ (x \notin T => T = R)
  BY <1>1
<1>7. /\ x \in S => Cardinality(S) = Cardinality(R) + 1
      /\ x \notin S => Cardinality(S) = Cardinality(R)
  BY <1>3, <1>5
<1>8. /\ x \in T => Cardinality(T) = Cardinality(R) + 1
      /\ x \notin T => Cardinality(T) = Cardinality(R)
  BY <1>3, <1>6
<1>9. IsFiniteSet(T)
  BY <1>2, <1>3, <1>6
<1>10. QED
  BY <1>4, <1>7, <1>8, <1>9

LEMMA OwedAfter ==
  ASSUME AccountAssumption, NEW h \in Handlers, NEW c \in Customers,
         \A k \in Handlers \ {h} : task'[k] = task[k],
         task[h].c = c \/ task[h].at \notin Unfinished,
         task'[h].c = c \/ task'[h].at \notin Unfinished
  PROVE  /\ \A d \in Customers \ {c} : Owed(d)' = Owed(d)
         /\ Owed(c) \in Int /\ Owed(c)' \in Int
         /\ Owed(c)' = Owed(c) + Weight(task'[h].at) - Weight(task[h].at)
<1>1. ASSUME NEW d \in Customers, NEW stage \in Unfinished
      PROVE  /\ At(d, stage)' \ {h} = At(d, stage) \ {h} /\ IsFiniteSet(At(d, stage))
             /\ h \in At(d, stage) <=> (task[h].c = d /\ task[h].at = stage)
             /\ h \in At(d, stage)' <=> (task'[h].c = d /\ task'[h].at = stage)
  <2>1. At(d, stage) \subseteq Handlers
    BY DEF At
  <2>2. IsFiniteSet(At(d, stage))
    BY <2>1, FS_Subset DEF AccountAssumption
  <2>3. QED
    BY <2>2 DEF At
<1>2. ASSUME NEW d \in Customers \ {c}, NEW stage \in Unfinished
      PROVE  At(d, stage)' = At(d, stage)
  <2>1. h \notin At(d, stage) /\ h \notin At(d, stage)'
    BY <1>1
  <2>2. At(d, stage)' \ {h} = At(d, stage) \ {h}
    BY <1>1
  <2> HIDE DEF At
  <2>3. PICK S, T : S = At(d, stage) /\ T = At(d, stage)'
    OBVIOUS
  <2>4. S = T
    BY <2>1, <2>2, <2>3
  <2>5. QED
    BY <2>3, <2>4
<1>3. \A d \in Customers \ {c} : Owed(d)' = Owed(d)
  BY <1>2 DEF Owed, Unfinished
<1>4. ASSUME NEW stage \in Unfinished
      PROVE  /\ Cardinality(At(c, stage)) \in Int /\ Cardinality(At(c, stage)') \in Int
             /\ Cardinality(At(c, stage)') = Cardinality(At(c, stage))
                  + (IF task'[h].at = stage THEN 1 ELSE 0) - (IF task[h].at = stage THEN 1 ELSE 0)
  <2>1. /\ h \in At(c, stage) <=> task[h].at = stage
        /\ h \in At(c, stage)' <=> task'[h].at = stage
    BY <1>1, <1>4
  <2>2. At(c, stage)' \ {h} = At(c, stage) \ {h} /\ IsFiniteSet(At(c, stage))
    BY <1>1
  <2>3. QED
    BY <2>1, <2>2, CountAfter
<1>5. /\ Cardinality(At(c, "manuallog")) \in Int /\ Cardinality(At(c, "manuallog")') \in Int
      /\ Cardinality(At(c, "debitlog")) \in Int /\ Cardinality(At(c, "debitlog")') \in Int
      /\ Cardinality(At(c, "manuallog")') = Cardinality(At(c, "manuallog"))
           + (IF task'[h].at = "manuallog" THEN 1 ELSE 0) - (IF task[h].at = "manuallog" THEN 1 ELSE 0)
      /\ Cardinality(At(c, "debitlog")') = Cardinality(At(c, "debitlog"))
           + (IF task'[h].at = "debitlog" THEN 1 ELSE 0) - (IF task[h].at = "debitlog" THEN 1 ELSE 0)
  BY <1>4 DEF Unfinished
<1>6. /\ Owed(c) = Cardinality(At(c, "manuallog")) - Cardinality(At(c, "debitlog"))
      /\ Owed(c)' = Cardinality(At(c, "manuallog")') - Cardinality(At(c, "debitlog")')
  BY DEF Owed
<1>7. /\ Weight(task'[h].at) = (IF task'[h].at = "manuallog" THEN 1 ELSE 0) - (IF task'[h].at = "debitlog" THEN 1 ELSE 0)
      /\ Weight(task[h].at) = (IF task[h].at = "manuallog" THEN 1 ELSE 0) - (IF task[h].at = "debitlog" THEN 1 ELSE 0)
  BY DEF Weight
<1>8. QED
  BY <1>3, <1>5, <1>6, <1>7

\* The balance or the log of c moves by what the task comes to owe.
LEMMA BooksMove ==
  ASSUME AccountAssumption, IInv, NEW h \in Handlers, NEW c \in Customers,
         \A k \in Handlers \ {h} : task'[k] = task[k],
         task[h].c = c \/ task[h].at \notin Unfinished,
         task'[h].c = c \/ task'[h].at \notin Unfinished,
         raced \subseteq raced', torn \subseteq torn', wiped \subseteq wiped',
         \A d \in Customers \ {c} : Worth(d)' = Worth(d),
         \/ c \in torn'
         \/ Worth(c)' = Worth(c) + Price * (Weight(task'[h].at) - Weight(task[h].at))
  PROVE  BooksOK'
<1> SUFFICES ASSUME NEW d \in Customers \ (raced' \cup torn' \cup wiped')
             PROVE  Worth(d)' = Price * Owed(d)'
  BY DEF BooksOK
<1>1. Worth(d) = Price * Owed(d)
  BY DEF IInv, BooksOK
<1>2. /\ \A e \in Customers \ {c} : Owed(e)' = Owed(e)
      /\ Owed(c) \in Int /\ Owed(c)' = Owed(c) + Weight(task'[h].at) - Weight(task[h].at)
  BY OwedAfter
<1>3. CASE d # c
  BY <1>1, <1>2, <1>3
<1>4. CASE d = c
  <2>1. Price \in Int /\ Weight(task'[h].at) \in Int /\ Weight(task[h].at) \in Int
    BY DEF AccountAssumption, Weight
  <2>2. PICK n \in Int, v \in Int, w \in Int :
          n = Owed(c) /\ v = Weight(task'[h].at) /\ w = Weight(task[h].at)
    BY <1>2, <2>1
  <2>3. Worth(c)' = Price * n + Price * (v - w)
    BY <1>1, <1>4, <2>2
  <2>4. Price * n + Price * (v - w) = Price * (n + v - w)
    BY <2>1
  <2>5. QED
    BY <1>2, <1>4, <2>2, <2>3, <2>4
<1>5. QED
  BY <1>3, <1>4

\* One statement of a manual payment: what it adds to the balance and to the
\* log differs by what the task has still to log.
Statement(h, c, row, delta, entry, stage) ==
  /\ Write(c, row, h) /\ row \in Row
  /\ row = customer[c] \/ (Exists(c) /\ row = [customer[c] EXCEPT !.credit = customer[c].credit + delta])
  /\ row.credit = customer[c].credit + delta
  /\ logged' = [logged EXCEPT ![c] = @ + entry]
  /\ IF stage = "idle" THEN End(h) ELSE Go(h, stage, c, NoRow, Nobody)
  /\ delta - entry = Price * (Weight(stage) - Weight(task[h].at))

LEMMA ManualStep ==
  ASSUME AccountAssumption, IInv, NEW h \in Handlers, NEW c \in Customers,
         NEW row, NEW delta \in Int, NEW entry \in Int,
         NEW stage \in {"idle", "manuallog", "debit", "debitlog", "renew"},
         Statement(h, c, row, delta, entry, stage),
         task[h] = Idle \/ task[h].c = c, task[h].at \notin {"completed", "serve"},
         UNCHANGED <<unlogged, payment, Loops, torn>>, requests' \in Nat
  PROVE  IInv' /\ Longer
<1>0. /\ Write(c, row, h) /\ row \in Row
      /\ row = customer[c] \/ (Exists(c) /\ row = [customer[c] EXCEPT !.credit = customer[c].credit + delta])
      /\ row.credit = customer[c].credit + delta
      /\ logged' = [logged EXCEPT ![c] = @ + entry]
      /\ IF stage = "idle" THEN End(h) ELSE Go(h, stage, c, NoRow, Nobody)
      /\ delta - entry = Price * (Weight(stage) - Weight(task[h].at))
  BY DEF Statement
<1>1. /\ TypeOK /\ customer[c] \in Row /\ customer[c].credit \in Int /\ customer[c].until \in Nat
      /\ logged[c] \in Int /\ unlogged[c] \in Int
  BY DEF IInv, TypeOK, Row
<1>2. /\ task' \in [Handlers -> {Idle} \cup Task] /\ task'[h].at = stage
      /\ task'[h] = Idle \/ task'[h].c = c
      /\ \A k \in Handlers \ {h} : task'[k] = task[k]
  <2>1. CASE stage = "idle"
    BY <1>0, <1>1, <2>1, EndTask DEF Idle
  <2>2. CASE stage # "idle"
    <3>1. stage \in Stages /\ Nobody \in Customers \cup Payments \cup {Nobody} /\ NoRow \in Row
      BY <2>2, NoRowIsRow DEF Stages
    <3>2. /\ task' \in [Handlers -> {Idle} \cup Task]
          /\ task'[h] = [at |-> stage, c |-> c, row |-> NoRow, p |-> Nobody]
          /\ \A k \in Handlers \ {h} : task'[k] = task[k]
      BY <1>0, <1>1, <2>2, <3>1, GoTask
    <3>3. QED
      BY <3>2
  <2>3. QED
    BY <2>1, <2>2
<1>3. CopyOK(h)' /\ FreshOK(h)'
  BY <1>2 DEF CopyOK, FreshOK, WriteBack
<1>4. /\ raced \subseteq raced' /\ customer'[c] = row
      /\ \A d \in Customers \ {c} : customer'[d] = customer[d]
  BY <1>0, <1>1 DEF Write, TypeOK
<1>5. /\ logged' \in [Customers -> Int] /\ logged'[c] = logged[c] + entry
      /\ \A d \in Customers \ {c} : logged'[d] = logged[d]
      /\ unlogged' = unlogged /\ unlogged' \in [Customers -> Int] /\ torn' = torn
      /\ payment' = payment /\ torn' \subseteq Customers
      /\ payment' \in [Payments -> {"due", "completed", "served", "stray"}]
  BY <1>0, <1>1 DEF TypeOK
<1>6. BooksOK'
  <2>1. \A d \in Customers \ {c} : Worth(d)' = Worth(d)
    BY <1>4, <1>5 DEF Worth
  <2>2. Worth(c)' = Worth(c) + (delta - entry)
    BY <1>0, <1>1, <1>4, <1>5 DEF Worth
  <2>3. Worth(c)' = Worth(c) + Price * (Weight(task'[h].at) - Weight(task[h].at))
    BY <1>0, <1>2, <2>2
  <2>4. Idle.at \notin Unfinished /\ wiped' = wiped
    BY StageNames DEF Loops
  <2>5. QED
    BY <1>2, <1>4, <1>5, <2>1, <2>3, <2>4, BooksMove
<1>7. ServedOK'
  BY <1>2, <1>5, ServedKeep
<1>8. row.status = customer[c].status /\ row.until = customer[c].until
  BY <1>0, <1>1 DEF Row
<1>9. row.status = "none" => row = NoRow
  BY <1>0, <1>8 DEF IInv, RowsOK, Exists
<1>10. c \in raced' \cup typed' \/ ~Lasts(row.until) \/ row.status \in {"active", "suspended"}
  <2>1. typed' = typed
    BY DEF Loops
  <2>2. QED
    BY <1>4, <1>8, <1>9, <2>1, LetIn
<1>11. row.until >= customer[c].until
  BY <1>1, <1>8
<1>12. QED
  BY <1>0, <1>2, <1>3, <1>5, <1>6, <1>7, <1>9, <1>10, <1>11, RequestStep

LEMMA Weights ==
  /\ Weight("idle") = 0 /\ Weight("manuallog") = 1 /\ Weight("debit") = 0
  /\ Weight("debitlog") = -1 /\ Weight("renew") = 0
BY DEF Weight

LEMMA ManualStartStep ==
  ASSUME AccountAssumption, IInv, NEW h \in Handlers, NEW c \in Customers, ManualStart(h, c)
  PROVE  IInv' /\ Longer
<1> DEFINE x == customer[c]
<1>1. /\ x \in Row /\ x.credit \in Nat /\ Price \in Nat /\ TypeOK
      /\ logged' = logged /\ logged \in [Customers -> Int] /\ logged[c] \in Int
  BY DEF IInv, TypeOK, Row, AccountAssumption, ManualStart, Books
<1>2. /\ task[h] = Idle /\ task[h].at = "idle" /\ Exists(c) /\ requests' \in Nat
      /\ UNCHANGED <<unlogged, payment, Loops, torn>>
  BY <1>1 DEF ManualStart, Arrived, Arrive, Idle, Books, TypeOK
<1>3. logged' = [logged EXCEPT ![c] = @ + 0]
  BY <1>1
<1>4. CASE /\ Write(c, [x EXCEPT !.credit = @ + Price], h)
           /\ Go(h, "manuallog", c, NoRow, Nobody)
  <2>1. PICK row : row = [x EXCEPT !.credit = x.credit + Price]
    OBVIOUS
  <2>2. row \in Row /\ row.credit = x.credit + Price
    BY <1>1, <2>1 DEF Row
  <2>3. Price - 0 = Price * (Weight("manuallog") - Weight(task[h].at))
    BY <1>1, <1>2, Weights
  <2>4. Write(c, row, h) /\ Go(h, "manuallog", c, NoRow, Nobody)
    BY <1>4, <2>1
  <2>5. Statement(h, c, row, Price, 0, "manuallog")
    BY <1>2, <1>3, <2>1, <2>2, <2>3, <2>4 DEF Statement
  <2>6. QED
    BY <1>1, <1>2, <2>5, ManualStep
<1>5. CASE Go(h, "renew", c, NoRow, Nobody) /\ UNCHANGED <<customer, raced>>
  <2>1. Write(c, x, h)
    BY <1>1, <1>5, StayIsWrite
  <2>2. 0 - 0 = Price * (Weight("renew") - Weight(task[h].at)) /\ x.credit = x.credit + 0
    BY <1>1, <1>2, Weights
  <2>3. Statement(h, c, x, 0, 0, "renew")
    BY <1>1, <1>3, <1>5, <2>1, <2>2 DEF Statement
  <2>4. QED
    BY <1>1, <1>2, <2>3, ManualStep
<1>6. QED
  BY <1>4, <1>5 DEF ManualStart

LEMMA ManualLogStep ==
  ASSUME AccountAssumption, IInv, NEW h \in Handlers, ManualLog(h)
  PROVE  IInv' /\ Longer
<1>0. PICK c \in Customers : c = task[h].c
  <2>1. task[h].at \in Stages
    BY StageNames DEF ManualLog, Unfinished
  <2>2. QED
    BY <2>1, AtWork DEF IInv
<1> DEFINE x == customer[c]
<1>1. /\ x \in Row /\ x.credit \in Nat /\ Price \in Nat /\ -Price \in Int /\ TypeOK
      /\ UNCHANGED <<unlogged, payment, Loops, torn>> /\ requests' \in Nat
      /\ task[h].at \notin {"completed", "serve"}
  BY DEF IInv, TypeOK, Row, AccountAssumption, ManualLog
<1>2. Write(c, x, h) /\ x.credit = x.credit + 0
  BY <1>1, StayIsWrite DEF ManualLog
<1>3. CASE task[h].at = "manuallog"
  <2>1. logged' = [logged EXCEPT ![c] = @ + Price]
    BY <1>0, <1>3 DEF ManualLog, Log
  <2>2. /\ 0 - Price = Price * (Weight("idle") - Weight(task[h].at))
        /\ 0 - Price = Price * (Weight("debit") - Weight(task[h].at))
    BY <1>1, <1>3, Weights
  <2>3. End(h) \/ Go(h, "debit", c, NoRow, Nobody)
    BY <1>0, <1>3 DEF ManualLog
  <2>4. CASE End(h)
    <3>1. Statement(h, c, x, 0, Price, "idle")
      BY <1>1, <1>2, <2>1, <2>2, <2>4 DEF Statement
    <3>2. QED
      BY <1>0, <1>1, <3>1, ManualStep
  <2>5. CASE Go(h, "debit", c, NoRow, Nobody)
    <3>1. Statement(h, c, x, 0, Price, "debit")
      BY <1>1, <1>2, <2>1, <2>2, <2>5 DEF Statement
    <3>2. QED
      BY <1>0, <1>1, <3>1, ManualStep
  <2>6. QED
    BY <2>3, <2>4, <2>5
<1>4. CASE task[h].at = "debitlog"
  <2>1. logged' = [logged EXCEPT ![c] = @ + (-Price)] /\ Go(h, "renew", c, NoRow, Nobody)
    BY <1>0, <1>4 DEF ManualLog, Log
  <2>2. 0 - (-Price) = Price * (Weight("renew") - Weight(task[h].at))
    BY <1>1, <1>4, Weights
  <2>3. Statement(h, c, x, 0, -Price, "renew")
    BY <1>1, <1>2, <2>1, <2>2 DEF Statement
  <2>4. QED
    BY <1>0, <1>1, <2>3, ManualStep
<1>5. QED
  BY <1>3, <1>4 DEF ManualLog

LEMMA ManualDebitStep ==
  ASSUME AccountAssumption, IInv, NEW h \in Handlers, ManualDebit(h)
  PROVE  IInv' /\ Longer
<1>0. PICK c \in Customers : c = task[h].c
  <2>1. task[h].at \in Stages
    BY StageNames DEF ManualDebit
  <2>2. QED
    BY <2>1, AtWork DEF IInv
<1> DEFINE x == customer[c]
<1>1. /\ x \in Row /\ x.credit \in Nat /\ Price \in Nat /\ Price > 0 /\ -Price \in Int /\ TypeOK
      /\ UNCHANGED <<unlogged, payment, Loops, torn>> /\ requests' \in Nat
      /\ task[h].at = "debit" /\ logged' = logged /\ logged[c] \in Int
      /\ logged \in [Customers -> Int]
  BY DEF IInv, TypeOK, Row, AccountAssumption, ManualDebit, Books
<1>2. logged' = [logged EXCEPT ![c] = @ + 0]
  BY <1>1
<1>3. CASE Covers(x.credit, Price)
  <2>1. PICK row : row = [x EXCEPT !.credit = x.credit + (-Price)]
    OBVIOUS
  <2>2. x.credit + (-Price) \in Nat /\ x.credit + (-Price) = x.credit - Price
    BY <1>1, <1>3 DEF Covers
  <2>3. row \in Row /\ row.credit = x.credit + (-Price)
    BY <1>1, <2>1, <2>2 DEF Row
  <2>4. Exists(c)
    <3>1. x # NoRow
      BY <1>1, <1>3, NoRowIsRow DEF Covers
    <3>2. QED
      BY <3>1 DEF IInv, RowsOK
  <2>5. Write(c, row, h) /\ Go(h, "debitlog", c, NoRow, Nobody)
    BY <1>0, <1>3, <2>1, <2>2 DEF ManualDebit
  <2>6. -Price - 0 = Price * (Weight("debitlog") - Weight(task[h].at))
    BY <1>1, Weights
  <2>7. Statement(h, c, row, -Price, 0, "debitlog")
    BY <1>2, <2>1, <2>3, <2>4, <2>5, <2>6 DEF Statement
  <2>8. QED
    BY <1>0, <1>1, <2>7, ManualStep
<1>4. CASE ~Covers(x.credit, Price)
  <2>1. Write(c, x, h) /\ Go(h, "renew", c, NoRow, Nobody) /\ x.credit = x.credit + 0
    BY <1>0, <1>1, <1>4, StayIsWrite DEF ManualDebit
  <2>2. 0 - 0 = Price * (Weight("renew") - Weight(task[h].at))
    BY <1>1, Weights
  <2>3. Statement(h, c, x, 0, 0, "renew")
    BY <1>1, <1>2, <2>1, <2>2 DEF Statement
  <2>4. QED
    BY <1>0, <1>1, <2>3, ManualStep
<1>5. QED
  BY <1>3, <1>4

\* A request that dies leaves its customer torn.
LEMMA DieStep ==
  ASSUME AccountAssumption, IInv, NEW h \in Handlers, Die(h)
  PROVE  IInv' /\ Longer
<1>1. PICK c \in Customers : c = task[h].c
  BY Resting DEF Die, IInv
<1>2. /\ torn' = (IF task[h].at \in HalfDone THEN torn \cup {c} ELSE torn) /\ torn' \subseteq Customers /\ TypeOK
      /\ logged' = logged /\ unlogged' = unlogged /\ payment' = payment /\ customer' = customer
      /\ raced' = raced /\ UNCHANGED Loops /\ requests' \in Nat
      /\ logged' \in [Customers -> Int] /\ unlogged' \in [Customers -> Int]
      /\ payment' \in [Payments -> {"due", "completed", "served", "stray"}]
      /\ customer[c] \in Row /\ customer[c].until \in Nat
      /\ wiped' = wiped /\ typed' = typed
  BY <1>1 DEF Die, IInv, TypeOK, Books, Loops, Row
<1>3. /\ task' \in [Handlers -> {Idle} \cup Task] /\ task'[h] = Idle
      /\ \A k \in Handlers \ {h} : task'[k] = task[k]
  BY <1>2, EndTask DEF Die
<1>4. Write(c, customer[c], h)
  BY <1>2, StayIsWrite
<1>5. BooksOK'
  <2>1. \A d \in Customers : Worth(d)' = Worth(d)
    BY <1>2 DEF Worth
  <2>2. task'[h].at \notin Unfinished
    BY <1>3, StageNames
  <2>3. CASE task[h].at \in HalfDone
    BY <1>1, <1>2, <1>3, <2>1, <2>2, <2>3, BooksMove
  <2>4. CASE task[h].at \notin HalfDone
    <3>1. task[h].at \notin Unfinished /\ torn' = torn
      BY <1>2, <2>4 DEF HalfDone
    <3>2. QED
      BY <1>1, <1>2, <1>3, <1>4, <2>1, <2>2, <3>1, QuietBooks
  <2>5. QED
    BY <2>3, <2>4
<1>6. ServedOK'
  <2> SUFFICES ASSUME NEW p \in Payments, payment'[p] = "completed"
               PROVE  PayerOf[p] \in torn' \/ \E k \in Handlers : Serves(k, p)'
    BY DEF ServedOK
  <2>1. PayerOf[p] \in torn \/ \E k \in Handlers : Serves(k, p)
    BY <1>2 DEF IInv, ServedOK
  <2>2. Serves(h, p) => PayerOf[p] \in torn'
    BY <1>1, <1>2 DEF Serves, HalfDone
  <2>3. \A k \in Handlers \ {h} : Serves(k, p) => Serves(k, p)'
    BY <1>3 DEF Serves
  <2>4. QED
    BY <1>2, <2>1, <2>2, <2>3
<1>7. customer[c].status = "none" => customer[c] = NoRow
  BY DEF IInv, RowsOK, Exists
<1>8. c \in raced' \cup typed' \/ ~Lasts(customer[c].until) \/ customer[c].status \in {"active", "suspended"}
  <2>1. customer[c].status = "none" => ~Lasts(customer[c].until)
    BY <1>2, <1>7, NoRowIsRow DEF Lasts, TypeOK
  <2>2. QED
    BY <1>2, <2>1 DEF IInv, PaidTimeKept, Exists
<1>9. customer[c].until >= customer[c].until
  BY <1>2
<1>10. QED
  BY <1>2, <1>3, <1>4, <1>5, <1>6, <1>7, <1>8, <1>9, RequestStep

-----------------------------------------------------------------------------
(* The loops, the clean-up and the clock. *)

\* Parts of the invariant that are about none of the loops' variables.
LEMMA RestKeeps ==
  ASSUME IInv, UNCHANGED <<customer, Books, payment, task, wiped, now, raced, typed, torn>>
  PROVE  RowsOK' /\ TasksOK' /\ PaidTimeKept' /\ BooksOK' /\ ServedOK' /\ Longer
<1>1. /\ customer' = customer /\ logged' = logged /\ unlogged' = unlogged /\ payment' = payment
      /\ task' = task /\ now' = now /\ raced' = raced /\ torn' = torn
      /\ wiped' = wiped /\ typed' = typed
  BY DEF Books
<1>2. RowsOK' /\ PaidTimeKept'
  BY <1>1 DEF IInv, RowsOK, PaidTimeKept, Exists, Lasts
<1>3. TasksOK'
  BY <1>1 DEF IInv, TasksOK, CopyOK, FreshOK, Lasts
<1>4. BooksOK'
  BY <1>1 DEF IInv, BooksOK, Worth, Owed, At
<1>5. ServedOK'
  BY <1>1 DEF IInv, ServedOK, Serves
<1>6. Longer
  BY <1>1 DEF Longer, IInv, TypeOK, Row
<1>7. QED
  BY <1>2, <1>3, <1>4, <1>5, <1>6

LEMMA SweepLoadStep ==
  ASSUME AccountAssumption, IInv, SweepLoad
  PROVE  IInv' /\ Longer
<1>1. TypeOK'
  BY DEF IInv, TypeOK, SweepLoad, Overdue, Books
<1>2. LoopsOK'
  BY DEF IInv, LoopsOK, SweepLoad, Overdue
<1>3. RowsOK' /\ TasksOK' /\ PaidTimeKept' /\ BooksOK' /\ ServedOK' /\ Longer
  BY RestKeeps DEF SweepLoad
<1>4. QED
  BY <1>1, <1>2, <1>3 DEF IInv

LEMMA PurgeLoadStep ==
  ASSUME AccountAssumption, IInv, PurgeLoad
  PROVE  IInv' /\ Longer
<1>1. TypeOK'
  BY DEF IInv, TypeOK, PurgeLoad, Abandoned, Arrive, Books
<1>2. LoopsOK'
  BY DEF IInv, LoopsOK, PurgeLoad, Abandoned
<1>3. RowsOK' /\ TasksOK' /\ PaidTimeKept' /\ BooksOK' /\ ServedOK' /\ Longer
  BY RestKeeps DEF PurgeLoad
<1>4. QED
  BY <1>1, <1>2, <1>3 DEF IInv

\* The logs of guests that are about to be deleted, or are not after all.
LEMMA PurgeLogsStep ==
  ASSUME AccountAssumption, IInv, PurgeLogs \/ PurgeDie
  PROVE  IInv' /\ Longer
<1>1. /\ customer' = customer /\ unlogged' = unlogged /\ payment' = payment /\ task' = task
      /\ sweep' = sweep /\ now' = now /\ requests' = requests /\ scene' = scene
      /\ raced' = raced /\ typed' = typed /\ TypeOK /\ purge \subseteq Customers
      /\ torn \subseteq torn' /\ torn' \subseteq Customers /\ purge' \subseteq purge
      /\ wiped' \subseteq purge' /\ wiped \subseteq wiped' \cup torn'
      /\ logged' \in [Customers -> Int]
      /\ \A c \in Customers \ (wiped' \cup torn') : logged'[c] = logged[c]
  BY DEF PurgeLogs, PurgeDie, Books, IInv, TypeOK, AccountAssumption
<1>2. TypeOK'
  BY <1>1 DEF TypeOK
<1>3. RowsOK' /\ PaidTimeKept' /\ Longer
  BY <1>1 DEF IInv, TypeOK, Row, RowsOK, PaidTimeKept, Exists, Lasts, Longer
<1>4. TasksOK'
  BY <1>1 DEF IInv, TasksOK, CopyOK, FreshOK, Lasts
<1>5. LoopsOK'
  BY <1>1 DEF IInv, LoopsOK
<1>6. BooksOK'
  <2> SUFFICES ASSUME NEW c \in Customers \ (raced' \cup torn' \cup wiped')
               PROVE  Worth(c)' = Price * Owed(c)'
    BY DEF BooksOK
  <2>1. Worth(c)' = Worth(c) /\ Owed(c)' = Owed(c)
    BY <1>1 DEF Worth, Owed, At
  <2>2. QED
    BY <1>1, <2>1 DEF IInv, BooksOK
<1>7. ServedOK'
  BY <1>1 DEF IInv, ServedOK, Serves
<1>8. QED
  BY <1>2, <1>3, <1>4, <1>5, <1>6, <1>7 DEF IInv

LEMMA SweepExpireStep ==
  ASSUME AccountAssumption, IInv, NEW c \in Customers, SweepExpire(c)
  PROVE  IInv' /\ Longer
<1>1. PICK row : row = IF Exists(c) THEN [customer[c] EXCEPT !.status = "expired"] ELSE customer[c]
  OBVIOUS
<1>2. /\ TypeOK /\ customer[c] \in Row /\ customer[c].until \in Nat /\ now \in Nat
      /\ sweep' = sweep \ {c} /\ c \in sweep /\ purge' = purge /\ now' = now
      /\ task' = task /\ torn' = torn /\ payment' = payment
      /\ logged' = logged /\ unlogged' = unlogged /\ requests' = requests /\ scene' = scene
      /\ wiped' = wiped /\ typed' = typed
  BY DEF IInv, TypeOK, Row, SweepExpire, Books
<1>3. row \in Row /\ row.until = customer[c].until /\ row.credit = customer[c].credit
      /\ (row.status = "none" => row = NoRow)
  <2>1. CASE Exists(c)
    <3>1. row = [customer[c] EXCEPT !.status = "expired"]
      BY <1>1, <2>1
    <3>2. QED
      BY <1>2, <3>1, StatusNames DEF Row
  <2>2. CASE ~Exists(c)
    BY <1>1, <1>2, <2>2 DEF IInv, RowsOK
  <2>3. QED
    BY <2>1, <2>2
<1>4. Write(c, row, "sweep")
  <2>1. CASE Exists(c)
    BY <1>1, <2>1 DEF SweepExpire, Update
  <2>2. CASE ~Exists(c)
    BY <1>1, <1>2, <2>2, StayIsWrite DEF SweepExpire, Update
  <2>3. QED
    BY <2>1, <2>2
<1>5. /\ Careful("sweep") /\ customer'[c] = row
      /\ \A d \in Customers \ {c} : customer'[d] = customer[d]
  BY <1>2, <1>3, <1>4, WriteIsCareful
<1>6. "sweep" \notin Handlers /\ raced \subseteq raced'
  BY <1>5 DEF AccountAssumption, Careful
<1>7. TypeOK'
  BY <1>2, <1>5 DEF TypeOK, Careful
<1>8. RowsOK'
  BY <1>3, <1>5 DEF IInv, RowsOK, Exists
<1>9. TasksOK'
  BY <1>2, <1>5, <1>6, OthersKeep DEF TasksOK
<1>10. LoopsOK'
  <2>1. \A d \in sweep' \ raced' : customer'[d] = customer[d] /\ d \in sweep \ raced
    BY <1>2, <1>5, <1>6 DEF TypeOK
  <2>2. \A d \in purge' \ raced' : customer'[d] = customer[d] /\ d \in purge \ raced
    BY <1>2, <1>5, <1>6 DEF Careful
  <2>3. QED
    BY <1>2, <2>1, <2>2 DEF IInv, LoopsOK
<1>11. PaidTimeKept'
  <2> SUFFICES ASSUME NEW d \in Customers \ (raced' \cup typed'), Exists(d)', Lasts(customer[d].until)'
               PROVE  customer'[d].status \in {"active", "suspended"}
    BY DEF PaidTimeKept
  <2>1. customer'[d].until = customer[d].until
    BY <1>3, <1>5
  <2>2. Lasts(customer[d].until)
    BY <1>2, <2>1 DEF Lasts
  <2>3. d # c
    BY <1>2, <1>6, <2>2 DEF IInv, LoopsOK, Lasts
  <2>4. QED
    BY <1>2, <1>5, <1>6, <2>2, <2>3 DEF IInv, PaidTimeKept, Exists
<1>12. BooksOK'
  <2>1. \A d \in Customers : Worth(d)' = Worth(d)
    BY <1>2, <1>3, <1>5 DEF Worth
  <2>2. Quiet
    BY <1>2, <1>6, QuietStep
  <2>3. QED
    BY <1>2, <1>6, <2>1, <2>2, BooksKeep
<1>13. ServedOK'
  BY <1>2, <1>6, ServedKeep
<1>14. Longer
  BY <1>2, <1>3, <1>5 DEF Longer, TypeOK, Row
<1>15. QED
  BY <1>7, <1>8, <1>9, <1>10, <1>11, <1>12, <1>13, <1>14 DEF IInv

LEMMA TickStep ==
  ASSUME AccountAssumption, IInv, Tick
  PROVE  IInv' /\ Longer
<1>1. /\ customer' = customer /\ logged' = logged /\ unlogged' = unlogged /\ payment' = payment
      /\ task' = task /\ sweep' = sweep /\ purge' = purge /\ requests' = requests
      /\ scene' = scene /\ raced' = raced /\ torn' = torn /\ now' = now + 1 /\ now \in Nat
      /\ wiped' = wiped /\ typed' = typed /\ TypeOK
  BY DEF Tick, Books, IInv, TypeOK
<1>2. Nobody \notin Handlers /\ Nobody # "sweep"
  BY DEF AccountAssumption
<1>3. Careful(Nobody)
  BY <1>1 DEF Careful, TypeOK
<1>4. TasksOK'
  BY <1>1, <1>2, <1>3, OthersKeep DEF TasksOK
<1>5. LoopsOK'
  BY <1>1, <1>2, <1>3, LoopsKeep
<1>6. TypeOK'
  BY <1>1 DEF TypeOK
<1>7. RowsOK'
  BY <1>1 DEF IInv, RowsOK, Exists
<1>8. PaidTimeKept'
  <2> SUFFICES ASSUME NEW d \in Customers \ (raced' \cup typed'), Exists(d)', Lasts(customer[d].until)'
               PROVE  customer'[d].status \in {"active", "suspended"}
    BY DEF PaidTimeKept
  <2>1. Lasts(customer[d].until)
    BY <1>1 DEF Lasts, TypeOK, Row
  <2>2. QED
    BY <1>1, <2>1 DEF IInv, PaidTimeKept, Exists
<1>9. BooksOK'
  BY <1>1 DEF IInv, BooksOK, Worth, Owed, At
<1>10. ServedOK'
  BY <1>1 DEF IInv, ServedOK, Serves
<1>11. Longer
  BY <1>1 DEF Longer, TypeOK, Row
<1>12. QED
  BY <1>4, <1>5, <1>6, <1>7, <1>8, <1>9, <1>10, <1>11 DEF IInv

\* Without an unfinished manual payment nothing is owed.
LEMMA NothingOwed ==
  ASSUME NEW c, At(c, "manuallog") = {}, At(c, "debitlog") = {}
  PROVE  Owed(c) = 0
<1>1. Cardinality({}) = 0
  BY FS_EmptySet
<1>2. Owed(c) = Cardinality({}) - Cardinality({})
  BY DEF Owed
<1>3. QED
  BY <1>1, <1>2

\* Whoever a request or a loop was at work for is in raced once deleted.
LEMMA DeleteStep ==
  ASSUME AccountAssumption, IInv, NEW S \in SUBSET Customers, NEW by \in {Nobody, "purge"},
         Delete(S, by), by = "purge" => purge' = {}, purge' \subseteq purge,
         wiped' \subseteq purge', wiped \ S \subseteq wiped',
         UNCHANGED <<payment, task, sweep, now, scene, typed, torn>>, requests' \in Nat
  PROVE  /\ IInv' /\ raced \subseteq raced'
         /\ \A c \in Customers \ S : customer'[c] = customer[c]
<1>1. /\ customer \in [Customers -> Row] /\ now \in Nat /\ TypeOK /\ purge \subseteq Customers
  BY DEF IInv, TypeOK, AccountAssumption
<1>2. /\ customer' \in [Customers -> Row]
      /\ \A c \in S : customer'[c] = NoRow
      /\ \A c \in Customers \ S : customer'[c] = customer[c]
  BY <1>1, NoRowIsRow DEF Delete
<1>3. /\ logged' \in [Customers -> Int] /\ unlogged' \in [Customers -> Int]
      /\ \A c \in S : logged'[c] = 0 /\ unlogged'[c] = 0
      /\ \A c \in Customers \ S : logged'[c] = logged[c] /\ unlogged'[c] = unlogged[c]
  BY <1>1 DEF Delete, TypeOK
<1>4. /\ raced \subseteq raced' /\ raced' \subseteq Customers
      /\ \A c \in S \ raced' : /\ \A h \in Handlers : task[h].c # c
                               /\ Holders(c) \subseteq {by}
  BY <1>1 DEF Delete, TypeOK
<1>5. Nobody \notin Handlers /\ Nobody # "sweep" /\ Nobody # "purge"
  BY DEF AccountAssumption
<1>6. Careful(Nobody)
  <2>1. ASSUME NEW h \in Handlers, task[h].at \in WriteBack, task[h].c \notin raced'
        PROVE  customer'[task[h].c] = customer[task[h].c]
    <3>1. task[h].c \in Customers
      BY <1>1, <2>1, AtWork DEF Stages
    <3>2. QED
      BY <1>2, <1>4, <2>1, <3>1
  <2>2. ASSUME NEW c \in sweep \ raced' PROVE customer'[c] = customer[c]
    <3>1. c \in Customers /\ "sweep" \in Holders(c)
      BY <1>1 DEF TypeOK, Holders
    <3>2. by # "sweep"
      BY <1>5
    <3>3. QED
      BY <1>2, <1>4, <3>1, <3>2
  <2>3. ASSUME NEW c \in (purge \cap purge') \ raced' PROVE customer'[c] = customer[c]
    <3>1. c \in Customers /\ "purge" \in Holders(c) /\ by = Nobody
      BY <1>1 DEF Holders
    <3>2. QED
      BY <1>2, <1>4, <1>5, <3>1
  <2>4. QED
    BY <1>2, <1>4, <2>1, <2>2, <2>3 DEF Careful
<1>7. TypeOK'
  BY <1>1, <1>2, <1>3, <1>4 DEF TypeOK
<1>8. RowsOK'
  BY <1>2 DEF IInv, RowsOK, Exists
<1>9. TasksOK'
  BY <1>1, <1>5, <1>6, OthersKeep DEF TasksOK
<1>10. LoopsOK'
  BY <1>1, <1>5, <1>6, LoopsKeep
<1>11. PaidTimeKept'
  <2> SUFFICES ASSUME NEW c \in Customers \ (raced' \cup typed'), Exists(c)', Lasts(customer[c].until)'
               PROVE  customer'[c].status \in {"active", "suspended"}
    BY DEF PaidTimeKept
  <2>1. c \notin S
    BY <1>2, NoRowIsRow DEF Exists
  <2>2. QED
    BY <1>1, <1>2, <1>4, <2>1 DEF IInv, PaidTimeKept, Exists, Lasts
<1>12. BooksOK'
  <2> SUFFICES ASSUME NEW c \in Customers \ (raced' \cup torn' \cup wiped')
               PROVE  Worth(c)' = Price * Owed(c)'
    BY DEF BooksOK
  <2>1. \A stage \in Unfinished : At(c, stage)' = At(c, stage)
    BY <1>1 DEF At
  <2>2. Owed(c)' = Owed(c)
    BY <2>1 DEF Owed, Unfinished
  <2>3. CASE c \in S
    <3>1. At(c, "manuallog") = {} /\ At(c, "debitlog") = {}
      BY <1>4, <2>3 DEF At
    <3>2. Owed(c) = 0
      BY <3>1, NothingOwed
    <3>3. Worth(c)' = 0
      BY <1>2, <1>3, <2>3, NoRowIsRow DEF Worth
    <3>4. QED
      BY <2>2, <3>2, <3>3 DEF AccountAssumption
  <2>4. CASE c \notin S
    <3>1. Worth(c)' = Worth(c)
      BY <1>2, <1>3, <2>4 DEF Worth
    <3>2. QED
      BY <1>1, <1>4, <2>2, <2>4, <3>1 DEF IInv, BooksOK
  <2>5. QED
    BY <2>3, <2>4
<1>13. ServedOK'
  BY <1>1 DEF IInv, ServedOK, Serves
<1>14. QED
  BY <1>2, <1>4, <1>7, <1>8, <1>9, <1>10, <1>11, <1>12, <1>13 DEF IInv

\* Of the guests the clean-up deletes, only the suspended, and those whose row staff
\* typed, had time.
LEMMA PurgeRowsStep ==
  ASSUME AccountAssumption, IInv, PurgeRows
  PROVE  /\ IInv'
         /\ \A c \in Customers \ raced' :
              Lasts(customer[c].until) /\ customer'[c].until < customer[c].until =>
                customer[c].status = "suspended" \/ c \in typed
<1>1. /\ purge \in SUBSET Customers /\ Delete(purge, "purge") /\ purge' = {} /\ wiped' = {}
      /\ UNCHANGED <<payment, task, sweep, now, scene, typed, torn>> /\ requests' \in Nat
      /\ wiped \subseteq purge
  BY DEF PurgeRows, IInv, TypeOK, AccountAssumption
<1>2. /\ IInv' /\ raced \subseteq raced'
      /\ \A c \in Customers \ purge : customer'[c] = customer[c]
  BY <1>1, DeleteStep
<1>3. ASSUME NEW c \in Customers \ raced', Lasts(customer[c].until),
             customer'[c].until < customer[c].until
      PROVE  customer[c].status = "suspended" \/ c \in typed
  <2>1. customer[c].until \in Nat
    BY DEF IInv, TypeOK, Row
  <2>2. c \in purge \ raced
    BY <1>2, <1>3, <2>1
  <2>3. customer[c].status \notin {"none", "active"}
    BY <2>2 DEF IInv, LoopsOK
  <2>4. QED
    BY <1>3, <2>2, <2>3 DEF IInv, PaidTimeKept, Exists
<1>4. QED
  BY <1>2, <1>3

LEMMA DestroyStep ==
  ASSUME AccountAssumption, IInv, NEW c \in Customers, CustomerDestroy(c)
  PROVE  /\ IInv' /\ \A d \in Customers \ {c} : customer'[d] = customer[d]
<1>1. /\ {c} \in SUBSET Customers /\ Delete({c}, Nobody) /\ purge' = purge /\ wiped' = wiped
      /\ UNCHANGED <<payment, task, sweep, now, scene, typed, torn>> /\ requests' \in Nat
      /\ wiped \subseteq purge
  BY DEF CustomerDestroy, Loops, Arrive, IInv, TypeOK
<1>2. Nobody # "purge"
  BY DEF AccountAssumption
<1>3. QED
  BY <1>1, <1>2, DeleteStep

-----------------------------------------------------------------------------
(* The specification. *)

LEMMA InitInvariant ==
  ASSUME AccountAssumption, Init
  PROVE  IInv
<1>1. /\ \A h \in Handlers : task[h] = Idle /\ task[h].at = "idle" /\ task[h].at \notin Stages
      /\ sweep = {} /\ purge = {} /\ wiped = {} /\ now = 1 /\ \A p \in Payments : payment[p] = "due"
  <2>1. Idle.at = "idle" /\ "idle" \notin Stages
    BY DEF Idle, Stages, WriteBack
  <2>2. QED
    BY <2>1 DEF Init
<1>2. \A c \in Customers : /\ customer[c] \in Starts /\ logged[c] = 0 /\ unlogged[c] = 0
  BY DEF Init
<1>3. \A row \in Starts : /\ row \in Row /\ row.credit = 0
                          /\ row.status = "none" => row = NoRow
                          /\ row.until > 1 => row.status = "active"
  BY DEF Starts, NoRow, Row, Statuses
<1>4. TypeOK
  <2>1. customer \in [Customers -> Row]
    <3>1. customer \in [Customers -> Starts]
      BY DEF Init
    <3>2. QED
      BY <1>3, <3>1
  <2>2. task \in [Handlers -> {Idle}]
    BY DEF Init
  <2>3. QED
    BY <2>1, <2>2 DEF Init, TypeOK
<1>5. RowsOK
  BY <1>2, <1>3 DEF RowsOK, Exists
<1>6. TasksOK /\ LoopsOK
  BY <1>1 DEF TasksOK, LoopsOK
<1>7. PaidTimeKept
  BY <1>1, <1>2, <1>3 DEF PaidTimeKept, Lasts
<1>8. BooksOK
  <2> SUFFICES ASSUME NEW c \in Customers PROVE Worth(c) = Price * Owed(c)
    BY DEF BooksOK
  <2>1. Worth(c) = 0
    BY <1>2, <1>3 DEF Worth
  <2>2. At(c, "manuallog") = {} /\ At(c, "debitlog") = {}
    BY <1>1 DEF At
  <2>3. Owed(c) = 0
    BY <2>2, NothingOwed
  <2>4. QED
    BY <2>1, <2>3 DEF AccountAssumption
<1>9. ServedOK
  BY <1>1 DEF ServedOK
<1>10. QED
  BY <1>4, <1>5, <1>6, <1>7, <1>8, <1>9 DEF IInv

\* A step that may shorten the time of c.
Shortens(c) == \/ \E h \in Handlers : \/ Redeem(h) \/ ManualRenew(h) \/ TrialSave(h)
                                      \/ MigrateTake(h) \/ UpdateExpiry(h)
               \/ CustomerDestroy(c)
               \/ PurgeRows

TimeStays == \A c \in Customers \ raced' :
          Lasts(customer[c].until) => customer'[c].until >= customer[c].until \/ Shortens(c)

LEMMA LongerKept ==
  Longer => TimeStays
BY DEF Longer, TimeStays

LEMMA RequestInvariant ==
  ASSUME AccountAssumption, IInv, NEW h \in Handlers, Request(h)
  PROVE  IInv' /\ TimeStays
<1>1. CASE \E c \in Customers : \/ ProfileRead(h, c) \/ PurchaseRead(h, c) \/ C2BRead(h, c)
                                \/ ManualStart(h, c) \/ UpdateRead(h, c)
                                \/ VoucherResolve(h, c) \/ TrialRead(h, c)
  BY <1>1, ProfileReadStep, ManualStartStep, VoucherResolveStep, TrialReadStep, LongerKept
<1>2. CASE \E p \in Payments : Complete(h, p)
  BY <1>2, CompleteStep, LongerKept
<1>3. CASE SignIn(h)
  <2>1. CASE MigrateTake(h)
    BY <2>1, MigrateTakeStep DEF TimeStays, Shortens
  <2>2. CASE ~MigrateTake(h)
    BY <1>3, <2>2, VerifyReadStep, MigrateReadStep, VerifySaveStep, LongerKept DEF SignIn
  <2>3. QED
    BY <2>1, <2>2
<1>4. CASE ProfileExpire(h) \/ PurchaseCommit(h) \/ UpdateWrite(h) \/ UpdateMiss(h) \/ Die(h)
  BY <1>4, ProfileExpireStep, PurchaseCommitStep, UpdateWriteStep, UpdateMissStep, DieStep,
     LongerKept
<1>5. CASE CreditTopUp(h) \/ ServeRead(h) \/ ServeWrite(h) \/ \E amount \in Amounts : C2BCredit(h, amount)
  BY <1>5, CreditTopUpStep, ServeReadStep, ServeWriteStep, C2BCreditStep, LongerKept
<1>6. CASE ManualLog(h) \/ ManualDebit(h)
  BY <1>6, ManualLogStep, ManualDebitStep, LongerKept
<1>7. CASE ManualRenew(h) \/ Redeem(h) \/ TrialSave(h) \/ UpdateExpiry(h)
  BY <1>7, ManualRenewStep, RedeemStep, TrialSaveStep, UpdateExpiryStep DEF TimeStays, Shortens
<1>8. QED
  BY <1>1, <1>2, <1>3, <1>4, <1>5, <1>6, <1>7 DEF Request

LEMMA NextInvariant ==
  ASSUME AccountAssumption, IInv, [Next]_vars
  PROVE  IInv' /\ TimeStays
<1>1. CASE \E h \in Handlers : Request(h)
  BY <1>1, RequestInvariant
<1>2. CASE \E p \in Payments, amount \in Amounts : Underpay(p, amount)
  BY <1>2, UnderpayStep, LongerKept
<1>3. ASSUME NEW c \in Customers,
             \/ CustomerAuthGuest(c) \/ RequestOtp(c) \/ CustomerStore(c) \/ Compensate(c)
             \/ SweepExpire(c)
             \/ \E amount \in Amounts : AddCredit(c, amount)
             \/ \E status \in {"active", "suspended"} : SetStatus(c, status)
      PROVE  IInv' /\ TimeStays
  <2>1. CASE CustomerAuthGuest(c) \/ RequestOtp(c)
    BY <2>1, RegisterStep, LongerKept DEF CustomerAuthGuest, RequestOtp
  <2>2. CASE CustomerStore(c) \/ Compensate(c)
    BY <2>2, StoreStep, CompensateStep, LongerKept
  <2>3. QED
    BY <1>3, <2>1, <2>2, SweepExpireStep, AddCreditStep, SetStatusStep, LongerKept
<1>4. ASSUME NEW c \in Customers, CustomerDestroy(c) PROVE IInv' /\ TimeStays
  <2>1. IInv' /\ \A d \in Customers \ {c} : customer'[d] = customer[d]
    BY <1>4, DestroyStep
  <2>2. \A d \in Customers : customer[d].until \in Nat
    BY DEF IInv, TypeOK, Row
  <2>3. QED
    BY <1>4, <2>1, <2>2 DEF TimeStays, Shortens
<1>5. CASE SweepLoad \/ PurgeLoad \/ PurgeLogs \/ PurgeDie \/ Tick
  BY <1>5, SweepLoadStep, PurgeLoadStep, PurgeLogsStep, TickStep, LongerKept
<1>6. CASE PurgeRows
  BY <1>6, PurgeRowsStep DEF TimeStays, Shortens
<1>7. CASE UNCHANGED vars
  <2>1. /\ UNCHANGED <<customer, Books, payment, task, wiped, now, raced, typed, torn>>
        /\ sweep' = sweep /\ purge' = purge /\ requests' = requests /\ scene' = scene
        /\ customer' = customer /\ logged' = logged /\ unlogged' = unlogged
        /\ payment' = payment /\ task' = task /\ now' = now /\ raced' = raced /\ torn' = torn
        /\ wiped' = wiped /\ typed' = typed
    BY <1>7 DEF vars, Books
  <2>2. RowsOK' /\ TasksOK' /\ PaidTimeKept' /\ BooksOK' /\ ServedOK' /\ TimeStays
    BY <2>1, RestKeeps, LongerKept
  <2>3. TypeOK' /\ LoopsOK'
    BY <2>1 DEF IInv, TypeOK, LoopsOK
  <2>4. QED
    BY <2>2, <2>3 DEF IInv
<1>8. QED
  BY <1>1, <1>2, <1>3, <1>4, <1>5, <1>6, <1>7 DEF Next

\* The inductive invariant holds in every state of the accounts.
THEOREM Inductive == Spec => []IInv
<1>1. Init => IInv
  BY InitInvariant, AccountAssumption
<1>2. IInv /\ [Next]_vars => IInv'
  BY NextInvariant, AccountAssumption
<1>3. QED
  BY <1>1, <1>2, PTL DEF Spec

\* Every variable has its type: in particular no balance is below zero, and
\* nobody but guests is loaded for clean-up.
THEOREM TypesHold == Spec => []TypeOK
<1>1. IInv => TypeOK
  BY DEF IInv
<1>2. QED
  BY <1>1, Inductive, PTL

\* The balance of every customer is what its credit logs, the plans paybill money
\* bought and what staff typed add up to, whenever no manual payment of theirs is
\* unfinished, no old row was written back, no request of theirs died between two
\* statements and the clean-up is not between their logs and their row.
THEOREM BalanceHolds == Spec => []BalanceReconciles
<1>1. IInv => BalanceReconciles
  <2> SUFFICES ASSUME IInv, NEW c \in Customers
               PROVE  customer[c].credit >= 0 /\ (c \in raced \cup torn \cup wiped \/ Reconciles(c))
    BY DEF BalanceReconciles
  <2>1. customer[c].credit \in Nat /\ logged[c] \in Int /\ unlogged[c] \in Int
    BY DEF IInv, TypeOK, Row
  <2>2. ASSUME c \notin raced \cup torn \cup wiped,
               \A h \in Handlers : task[h].c = c => task[h].at \notin Unfinished
        PROVE  customer[c].credit = logged[c] - unlogged[c]
    <3>1. At(c, "manuallog") = {} /\ At(c, "debitlog") = {}
      BY <2>2 DEF At, Unfinished
    <3>2. Owed(c) = 0
      BY <3>1, NothingOwed
    <3>3. Worth(c) = 0
      BY <2>2, <3>2, AccountAssumption DEF IInv, BooksOK, AccountAssumption
    <3>4. QED
      BY <2>1, <3>3 DEF Worth
  <2>3. QED
    BY <2>1, <2>2 DEF Reconciles
<1>2. QED
  BY <1>1, Inductive, PTL

\* A customer with time left is active or suspended, unless an old row was written
\* back over theirs, or staff typed another status or expiry.
THEOREM TimeKept == Spec => []PaidTimeKept
<1>1. IInv => PaidTimeKept
  BY DEF IInv
<1>2. QED
  BY <1>1, Inductive, PTL

\* A payment that is completed and not served has a request at it, or the request
\* died.
THEOREM Served == Spec => []CompletedIsServed
<1>1. IInv => CompletedIsServed
  BY DEF IInv, ServedOK, Serves, CompletedIsServed
<1>2. QED
  BY <1>1, Inductive, PTL

\* No purchase, paybill credit, sign-in, sweep, compensation or edit that leaves the
\* expiry alone shortens the time of a customer, and clean-up takes only that of
\* guests that staff suspended or whose row staff typed.
THEOREM TimeNotShortened == Spec => NothingShortens
<1> DEFINE Free(c) ==
      \/ \E h \in Handlers : \/ Redeem(h) \/ ManualRenew(h) \/ TrialSave(h)
                             \/ MigrateTake(h) \/ UpdateExpiry(h)
      \/ CustomerDestroy(c)
      \/ PurgeRows /\ (customer[c].status = "suspended" \/ c \in typed)
<1>1. ASSUME IInv, [Next]_vars
      PROVE  \A c \in Customers \ raced' :
               Lasts(customer[c].until) /\ customer'[c].until < customer[c].until => Free(c)
  <2> SUFFICES ASSUME NEW c \in Customers \ raced', Lasts(customer[c].until),
                      customer'[c].until < customer[c].until
               PROVE  Free(c)
    OBVIOUS
  <2>1. IInv' /\ TimeStays
    BY <1>1, NextInvariant, AccountAssumption
  <2>2. customer[c].until \in Nat /\ customer'[c].until \in Nat
    BY <1>1, <2>1 DEF IInv, TypeOK, Row
  <2>3. Shortens(c)
    BY <2>1, <2>2 DEF TimeStays
  <2>4. CASE PurgeRows
    BY <1>1, <2>4, PurgeRowsStep, AccountAssumption
  <2>5. QED
    BY <2>3, <2>4 DEF Shortens
<1>2. QED
  BY <1>1, Inductive, PTL DEF Spec, NothingShortens

-----------------------------------------------------------------------------
(* Moving plans.  In a behaviour where nothing else gives a guest time, the    *)
(* time a request read of a guest's plan is what the guest still has when the  *)
(* request ends that plan, if the plan is then still there to be ended.        *)

Calm == scene.doors \cap Renewals = {}

TakesWhole(h) ==
  /\ task[h].at \in {"idle", "migrate", "take", "save", "expire"}
  /\ task[h].at = "take" /\ customer[task[h].p].status = "active" =>
       customer[task[h].p].until = task[h].row.until

TakesOK == Calm => \A h \in Handlers : TakesWhole(h)

\* Guests' plans are as they were, or over.
GuestsKeep ==
  \A g \in Guests : customer'[g].status = "active" =>
    customer[g].status = "active" /\ customer'[g].until = customer[g].until

\* Only the request that takes a step has to be looked at.
LEMMA TakesKeep ==
  ASSUME AccountAssumption, IInv, TakesOK, Calm, GuestsKeep,
         NEW by, \A k \in Handlers \ {by} : task'[k] = task[k],
         by \in Handlers => TakesWhole(by)'
  PROVE  TakesOK'
<1> SUFFICES ASSUME NEW k \in Handlers \ {by} PROVE TakesWhole(k)'
  BY DEF TakesOK
<1>1. task'[k] = task[k] /\ TakesWhole(k)
  BY DEF TakesOK
<1>2. task[k].at = "take" => task[k].p \in Guests
  BY DEF IInv, TasksOK, CopyOK, Idle
<1>3. QED
  BY <1>1, <1>2 DEF TakesWhole, GuestsKeep

\* Which holds of a write that leaves no guest with a plan of another length.
LEMMA WriteKeepsGuests ==
  ASSUME AccountAssumption, TypeOK, NEW c \in Customers, NEW row, NEW by,
         Write(c, row, by) \/ Update(c, row, by),
         c \notin Guests \/ row.status # "active"
           \/ (row.status = customer[c].status /\ row.until = customer[c].until)
  PROVE  GuestsKeep
<1>1. \/ customer' = customer
      \/ customer'[c] = row /\ \A d \in Customers \ {c} : customer'[d] = customer[d]
  BY DEF Write, Update, TypeOK
<1>2. QED
  BY <1>1 DEF GuestsKeep, AccountAssumption

LEMMA SignInTakes ==
  ASSUME AccountAssumption, IInv, TakesOK, Calm, NEW h \in Handlers, SignIn(h)
  PROVE  TakesOK'
<1>1. ASSUME NEW c \in Customers, VerifyRead(h, c) PROVE TakesOK'
  <2>0. PICK row : row = IF Exists(c) THEN customer[c] ELSE [NoRow EXCEPT !.status = "expired"]
    OBVIOUS
  <2>1. PICK copy \in Row, stage \in {"migrate", "save"} :
          Go(h, stage, c, copy, Nobody) /\ Write(c, row, h)
    <3>1. row \in Row
      BY <2>0, FoundOrMade
    <3>2. Recompute(row) \in Row
      BY <3>1, Recomputed DEF IInv
    <3>3. QED
      BY <1>1, <2>0, <3>2 DEF VerifyRead
  <2>2. stage \in Stages /\ c \notin Guests
    BY <1>1 DEF VerifyRead, Loops, Stages, WriteBack
  <2>3. /\ task'[h] = [at |-> stage, c |-> c, row |-> copy, p |-> Nobody]
        /\ \A k \in Handlers \ {h} : task'[k] = task[k]
    BY <2>1, <2>2, GoTask DEF IInv
  <2>4. TakesWhole(h)'
    BY <2>3 DEF TakesWhole
  <2>5. GuestsKeep
    BY <2>1, <2>2, WriteKeepsGuests DEF IInv
  <2>6. QED
    BY <2>2, <2>3, <2>4, <2>5, TakesKeep
<1>2. ASSUME NEW g \in Customers, MigrateRead(h, g) PROVE TakesOK'
  <2>1. task[h].at \in Stages
    BY <1>2, StageNames DEF MigrateRead, WriteBack
  <2>2. PICK stage \in {"take", "save"}, copy \in Row, p \in Guests \cup {Nobody} :
          /\ Go(h, stage, task[h].c, copy, p)
          /\ stage = "take" => p = g /\ g \in Guests /\ copy.until = customer[g].until
    <3>1. /\ task[h].row \in Row /\ customer[g].until \in Nat
          /\ [task[h].row EXCEPT !.until = customer[g].until] \in Row
          /\ [task[h].row EXCEPT !.until = customer[g].until].until = customer[g].until
      BY <2>1, AtWork DEF IInv, TypeOK, Row
    <3>2. QED
      BY <1>2, <3>1 DEF MigrateRead
  <2>3. stage \in Stages /\ customer' = customer
        /\ p \in Customers \cup Payments \cup {Nobody} /\ task[h].c \in Customers
    BY <1>2, <2>1, AtWork DEF MigrateRead, Loops, Stages, WriteBack, AccountAssumption, IInv
  <2>4. /\ task'[h] = [at |-> stage, c |-> task[h].c, row |-> copy, p |-> p]
        /\ \A k \in Handlers \ {h} : task'[k] = task[k]
    BY <2>2, <2>3, GoTask DEF IInv
  <2>5. TakesWhole(h)'
    BY <2>2, <2>3, <2>4 DEF TakesWhole
  <2>6. QED
    BY <2>3, <2>4, <2>5, TakesKeep DEF GuestsKeep
<1>3. CASE MigrateTake(h)
  <2>1. task[h].at = "take" /\ task[h].at \in Stages
    BY <1>3, StageNames DEF MigrateTake, WriteBack, Loops
  <2>2. task[h].p \in Guests /\ task[h].p \in Customers
    BY <2>1 DEF IInv, TasksOK, CopyOK, Idle, AccountAssumption
  <2>3. PICK copy \in Row : Go(h, "save", task[h].c, copy, Nobody)
    <3>1. /\ [task[h].row EXCEPT !.status = "active"] \in Row
          /\ [task[h].row EXCEPT !.until = 0] \in Row
      BY <2>1, AtWork, StatusNames DEF IInv, Row
    <3>2. QED
      BY <1>3, <3>1 DEF MigrateTake
  <2>4. /\ task'[h] = [at |-> "save", c |-> task[h].c, row |-> copy, p |-> Nobody]
        /\ \A k \in Handlers \ {h} : task'[k] = task[k]
    BY <2>1, <2>3, GoTask, AtWork DEF IInv, Stages, WriteBack
  <2>5. TakesWhole(h)'
    BY <2>4 DEF TakesWhole
  <2>6. GuestsKeep
    <3>1. CASE Movable(task[h].p)
      <4>1. PICK row : row.status = "expired" /\ Write(task[h].p, row, h)
        <5>1. customer[task[h].p] \in Row
          BY <2>2 DEF IInv, TypeOK
        <5>2. [customer[task[h].p] EXCEPT !.status = "expired", !.until = now].status = "expired"
          BY <5>1 DEF Row
        <5>3. QED
          BY <1>3, <3>1, <5>2 DEF MigrateTake
      <4>2. QED
        BY <2>2, <4>1, WriteKeepsGuests DEF IInv
    <3>2. CASE ~Movable(task[h].p)
      BY <1>3, <3>2 DEF MigrateTake, GuestsKeep
    <3>3. QED
      BY <3>1, <3>2
  <2>7. QED
    BY <2>1, <2>4, <2>5, <2>6, TakesKeep
<1>4. CASE VerifySave(h)
  <2>1. task[h].at = "save" /\ task[h].at \in Stages
    BY <1>4, StageNames DEF VerifySave, WriteBack, Loops
  <2>2. task[h].c \in Customers /\ task[h].c \notin Guests
    BY <2>1, AtWork DEF IInv, TasksOK, CopyOK, Idle
  <2>3. Write(task[h].c, task[h].row, h) /\ End(h)
    BY <1>4 DEF VerifySave
  <2>4. GuestsKeep
    BY <2>2, <2>3, WriteKeepsGuests DEF IInv
  <2>5. TakesWhole(h)' /\ \A k \in Handlers \ {h} : task'[k] = task[k]
    BY <2>3, EndTask DEF TakesWhole, Idle, IInv
  <2>6. QED
    BY <2>1, <2>4, <2>5, TakesKeep
<1>5. QED
  BY <1>1, <1>2, <1>3, <1>4 DEF SignIn

LEMMA RequestTakes ==
  ASSUME AccountAssumption, IInv, TakesOK, Calm, NEW h \in Handlers, Request(h)
  PROVE  TakesOK'
<1>1. TakesWhole(h) /\ \A door \in Renewals : door \notin scene.doors
  BY DEF TakesOK, Calm
<1>2. task[h].at \notin {"buy", "completed", "serve", "manuallog", "debit", "debitlog", "renew",
                         "redeem", "update", "credit", "trial"}
  BY <1>1 DEF TakesWhole
<1>3. ASSUME NEW c \in Customers, \/ PurchaseRead(h, c) \/ ManualStart(h, c) \/ UpdateRead(h, c)
                                  \/ VoucherResolve(h, c) \/ C2BRead(h, c) \/ TrialRead(h, c)
      PROVE  FALSE
  BY <1>1, <1>3 DEF PurchaseRead, ManualStart, UpdateRead, VoucherResolve, C2BRead, TrialRead,
                    Arrived, Arrive, Renewals
<1>4. ASSUME NEW p \in Payments, Complete(h, p) PROVE FALSE
  BY <1>1, <1>4 DEF Complete, Arrived, Arrive, Renewals
<1>5. ASSUME \/ PurchaseCommit(h) \/ CreditTopUp(h) \/ ServeRead(h) \/ ServeWrite(h) \/ ManualLog(h)
             \/ ManualDebit(h) \/ ManualRenew(h) \/ Redeem(h) \/ TrialSave(h)
             \/ UpdateWrite(h) \/ UpdateExpiry(h) \/ UpdateMiss(h)
             \/ \E amount \in Amounts : C2BCredit(h, amount)
      PROVE  FALSE
  BY <1>2, <1>5 DEF PurchaseCommit, CreditTopUp, ServeRead, ServeWrite, ManualLog, ManualDebit,
                    ManualRenew, Redeem, TrialSave, UpdateWrite, UpdateExpiry, UpdateMiss, C2BCredit
<1>6. ASSUME NEW c \in Customers, ProfileRead(h, c) PROVE TakesOK'
  <2>1. Go(h, "expire", c, customer[c], Nobody) /\ customer' = customer
    BY <1>6 DEF ProfileRead, Loops
  <2>2. /\ task'[h] = [at |-> "expire", c |-> c, row |-> customer[c], p |-> Nobody]
        /\ \A k \in Handlers \ {h} : task'[k] = task[k]
    BY <2>1, GoTask DEF IInv, TypeOK, Stages, WriteBack
  <2>3. TakesWhole(h)' /\ GuestsKeep
    BY <2>1, <2>2 DEF TakesWhole, GuestsKeep
  <2>4. QED
    BY <2>1, <2>2, <2>3, TakesKeep
<1>7. ASSUME ProfileExpire(h) \/ Die(h) PROVE TakesOK'
  <2>1. End(h)
    BY <1>7 DEF ProfileExpire, Die, Loops
  <2>2. GuestsKeep
    <3>1. CASE Die(h)
      BY <3>1 DEF Die, GuestsKeep
    <3>2. CASE ProfileExpire(h)
      <4>1. task[h].c \in Customers
        BY <3>2, StageNames, AtWork DEF ProfileExpire, WriteBack, IInv
      <4>2. [customer[task[h].c] EXCEPT !.status = "expired"].status = "expired"
        BY <4>1 DEF IInv, TypeOK, Row
      <4>3. PICK row : row.status = "expired" /\ Update(task[h].c, row, h)
        BY <3>2, <4>2 DEF ProfileExpire
      <4>4. QED
        BY <4>1, <4>3, WriteKeepsGuests DEF IInv
    <3>3. QED
      BY <1>7, <3>1, <3>2
  <2>3. TakesWhole(h)' /\ \A k \in Handlers \ {h} : task'[k] = task[k]
    BY <2>1, EndTask DEF TakesWhole, Idle, IInv
  <2>4. QED
    BY <2>1, <2>2, <2>3, TakesKeep
<1>8. QED
  BY <1>3, <1>4, <1>5, <1>6, <1>7, SignInTakes DEF Request

\* A behaviour is about one scene.
LEMMA SceneStays ==
  ASSUME [Next]_vars
  PROVE  scene' = scene
<1>1. ASSUME NEW h \in Handlers, SignIn(h) PROVE scene' = scene
  BY <1>1 DEF SignIn, VerifyRead, MigrateRead, MigrateTake, VerifySave, Loops
<1>2. ASSUME NEW h \in Handlers, Request(h) PROVE scene' = scene
  <2>1. ASSUME NEW c \in Customers, \/ ProfileRead(h, c) \/ PurchaseRead(h, c) \/ ManualStart(h, c)
                                    \/ UpdateRead(h, c) \/ VoucherResolve(h, c)
                                    \/ C2BRead(h, c) \/ TrialRead(h, c)
        PROVE  scene' = scene
    BY <2>1 DEF ProfileRead, PurchaseRead, ManualStart, UpdateRead, VoucherResolve, C2BRead,
                TrialRead, Loops
  <2>2. ASSUME \/ ProfileExpire(h) \/ PurchaseCommit(h) \/ Redeem(h) \/ TrialSave(h) \/ Die(h)
               \/ \E p \in Payments : Complete(h, p)
        PROVE  scene' = scene
    BY <2>2 DEF ProfileExpire, PurchaseCommit, Redeem, TrialSave, Die, Complete, Loops
  <2>3. ASSUME CreditTopUp(h) \/ ServeRead(h) \/ ServeWrite(h)
        PROVE  scene' = scene
    BY <2>3 DEF CreditTopUp, ServeRead, ServeWrite, Loops
  <2>4. ASSUME ManualLog(h) \/ ManualDebit(h) \/ ManualRenew(h)
        PROVE  scene' = scene
    BY <2>4 DEF ManualLog, ManualDebit, ManualRenew, Loops
  <2>5. ASSUME UpdateWrite(h) \/ UpdateExpiry(h) \/ UpdateMiss(h)
        PROVE  scene' = scene
    BY <2>5 DEF UpdateWrite, UpdateExpiry, UpdateMiss, Loops
  <2>6. ASSUME NEW amount \in Amounts, C2BCredit(h, amount)
        PROVE  scene' = scene
    BY <2>6 DEF C2BCredit, Loops
  <2>7. QED
    BY <1>1, <1>2, <2>1, <2>2, <2>3, <2>4, <2>5, <2>6 DEF Request
<1>3. ASSUME \E c \in Customers : \/ CustomerAuthGuest(c) \/ RequestOtp(c) \/ CustomerStore(c)
                                 \/ CustomerDestroy(c) \/ Compensate(c)
                                 \/ \E status \in {"active", "suspended"} : SetStatus(c, status)
      PROVE  scene' = scene
  BY <1>3 DEF CustomerAuthGuest, RequestOtp, CustomerStore, Register, CustomerDestroy, Compensate,
              SetStatus, Loops
<1>4. ASSUME NEW amount \in Amounts,
             \/ \E p \in Payments : Underpay(p, amount)
             \/ \E c \in Customers : AddCredit(c, amount)
      PROVE  scene' = scene
  BY <1>4 DEF Underpay, AddCredit, Loops
<1>5. ASSUME \/ SweepLoad \/ PurgeLoad \/ PurgeLogs \/ PurgeRows \/ PurgeDie \/ Tick
             \/ UNCHANGED vars
             \/ \E c \in Customers : SweepExpire(c)
      PROVE  scene' = scene
  BY <1>5 DEF SweepLoad, SweepExpire, PurgeLoad, PurgeLogs, PurgeRows, PurgeDie, Tick, vars
<1>6. QED
  BY <1>2, <1>3, <1>4, <1>5 DEF Next

LEMMA NextTakes ==
  ASSUME AccountAssumption, IInv, TakesOK, [Next]_vars
  PROVE  TakesOK'
<1>1. scene' = scene
  BY SceneStays
<1> SUFFICES ASSUME Calm PROVE TakesOK'
  BY <1>1 DEF TakesOK, Calm
<1>2. \A door \in Renewals : door \notin scene.doors
  BY DEF Calm
<1>3. CASE \E h \in Handlers : Request(h)
  BY <1>3, RequestTakes
<1>4. ASSUME task' = task, GuestsKeep PROVE TakesOK'
  BY <1>4, Nobody \notin Handlers, TakesKeep DEF AccountAssumption
<1>5. ASSUME NEW c \in Customers, NEW row, NEW by,
             Write(c, row, by) \/ Update(c, row, by), task' = task,
             c \notin Guests \/ row.status # "active"
               \/ (row.status = customer[c].status /\ row.until = customer[c].until)
      PROVE  TakesOK'
  BY <1>4, <1>5, WriteKeepsGuests DEF IInv
<1>6. ASSUME NEW p \in Payments, NEW amount \in Amounts, Underpay(p, amount) PROVE FALSE
  BY <1>2, <1>6 DEF Underpay, Arrive, Renewals
<1>7. ASSUME NEW c \in Customers, Compensate(c) PROVE FALSE
  BY <1>2, <1>7 DEF Compensate, Arrive, Renewals
<1>8. ASSUME NEW c \in Customers, NEW status, SetStatus(c, status) PROVE FALSE
  BY <1>2, <1>8 DEF SetStatus, Arrive, Renewals
<1>9. ASSUME NEW c \in Customers, NEW amount \in Amounts, AddCredit(c, amount) PROVE TakesOK'
  <2>1. customer[c] \in Row
    BY DEF IInv, TypeOK
  <2>2. \A n : /\ [customer[c] EXCEPT !.credit = n].status = customer[c].status
               /\ [customer[c] EXCEPT !.credit = n].until = customer[c].until
    BY <2>1 DEF Row
  <2>3. task' = task /\ \/ Write(c, [customer[c] EXCEPT !.credit = @ + amount], Nobody)
                        \/ Write(c, [customer[c] EXCEPT !.credit = @ - amount], Nobody)
    BY <1>9 DEF AddCredit
  <2>4. QED
    BY <1>5, <2>2, <2>3
<1>10. ASSUME NEW c \in Customers, CustomerAuthGuest(c) \/ RequestOtp(c) \/ CustomerStore(c)
       PROVE  TakesOK'
  <2>1. [NoRow EXCEPT !.status = "expired"].status # "active"
    BY DEF NoRow
  <2>2. CASE CustomerAuthGuest(c) \/ RequestOtp(c)
    BY <1>5, <2>1, <2>2 DEF CustomerAuthGuest, RequestOtp, Register
  <2>3. CASE CustomerStore(c)
    BY <1>5, <2>3 DEF CustomerStore, Type
  <2>4. QED
    BY <1>10, <2>2, <2>3
<1>11. ASSUME NEW c \in Customers, SweepExpire(c) PROVE TakesOK'
  <2>1. [customer[c] EXCEPT !.status = "expired"].status # "active"
    BY DEF IInv, TypeOK, Row
  <2>2. task' = task /\ Update(c, [customer[c] EXCEPT !.status = "expired"], "sweep")
    BY <1>11 DEF SweepExpire
  <2>3. QED
    BY <1>5, <2>1, <2>2
<1>12. CASE SweepLoad \/ PurgeLoad \/ PurgeLogs \/ PurgeDie \/ Tick \/ UNCHANGED vars
  <2>1. task' = task /\ customer' = customer
    BY <1>12 DEF SweepLoad, PurgeLoad, PurgeLogs, PurgeDie, Tick, vars
  <2>2. QED
    BY <1>4, <2>1 DEF GuestsKeep
<1>13. CASE PurgeRows \/ \E c \in Customers : CustomerDestroy(c)
  <2>1. task' = task /\ \A c \in Customers : customer'[c] = NoRow \/ customer'[c] = customer[c]
    BY <1>13 DEF PurgeRows, CustomerDestroy, Delete
  <2>2. QED
    BY <1>4, <2>1, NoRowIsRow DEF GuestsKeep, AccountAssumption
<1>14. QED
  BY <1>3, <1>6, <1>7, <1>8, <1>9, <1>10, <1>11, <1>12, <1>13 DEF Next

\* The units of time that PlanTime counts.
Ahead(c, t) ==
  /\ now < t
  /\ \/ t <= customer[c].until
     \/ \E h \in Handlers : task[h].at = "save" /\ task[h].c = c /\ t <= task[h].row.until

LEMMA PlanMembers ==
  ASSUME AccountAssumption, TypeOK
  PROVE  /\ \A x \in PlanTime : \E c \in Customers, t \in Int : x = <<c, t>> /\ Ahead(c, t)
         /\ \A c \in Customers, t \in Int : Ahead(c, t) => <<c, t>> \in PlanTime
<1>1. now \in Int /\ \A c \in Customers : customer[c].until \in Int
  BY DEF TypeOK, Row
<1>2. \A h \in Handlers : task[h].at = "save" => task[h].row.until \in Int
  BY AtWork DEF Stages, WriteBack, Row
<1>3. \A c \in Customers, t \in Int : Ahead(c, t) <=> t \in TimeOf(c) \cup InFlight(c)
  BY <1>1, <1>2 DEF Ahead, TimeOf, InFlight
<1>4. \A c \in Customers : \A t \in TimeOf(c) \cup InFlight(c) : t \in Int
  BY <1>1, <1>2 DEF TimeOf, InFlight
<1>5. QED
  BY <1>3, <1>4 DEF PlanTime

LEMMA PlanFinite ==
  ASSUME AccountAssumption, TypeOK
  PROVE  IsFiniteSet(PlanTime)
<1>1. now \in Int /\ \A c \in Customers : customer[c].until \in Int
  BY DEF TypeOK, Row
<1>2. \A h \in Handlers : task[h].at = "save" => task[h].row.until \in Int
  BY AtWork DEF Stages, WriteBack, Row
<1>3. ASSUME NEW c \in Customers PROVE IsFiniteSet({c} \X (TimeOf(c) \cup InFlight(c)))
  <2> DEFINE H == {h \in Handlers : task[h].at = "save" /\ task[h].c = c}
             f == [h \in H |-> now + 1 .. task[h].row.until]
             Spans == {now + 1 .. task[h].row.until : h \in H}
  <2>1. IsFiniteSet(H)
    BY FS_Subset DEF AccountAssumption
  <2>2. f \in Surjection(H, Spans)
    BY DEF Surjection
  <2>3. IsFiniteSet(Spans)
    BY <2>1, <2>2, FS_Surjection
  <2>4. \A T \in Spans : IsFiniteSet(T)
    BY <1>1, <1>2, FS_Interval
  <2>5. IsFiniteSet(InFlight(c))
    BY <2>3, <2>4, FS_UNION DEF InFlight
  <2> HIDE DEF H, f, Spans
  <2>6. IsFiniteSet(TimeOf(c))
    <3>1. now + 1 \in Int /\ customer[c].until \in Int
      BY <1>1
    <3>2. QED
      BY <3>1, FS_Interval DEF TimeOf
  <2>7. IsFiniteSet(TimeOf(c) \cup InFlight(c)) /\ IsFiniteSet({c})
    BY <2>5, <2>6, FS_Union, FS_Singleton
  <2>8. QED
    BY <2>7, FS_Product
<1> DEFINE f == [c \in Customers |-> {c} \X (TimeOf(c) \cup InFlight(c))]
           Parts == {{c} \X (TimeOf(c) \cup InFlight(c)) : c \in Customers}
<1>4. f \in Surjection(Customers, Parts)
  BY DEF Surjection
<1>5. IsFiniteSet(Parts)
  BY <1>4, FS_Surjection DEF AccountAssumption
<1>6. \A T \in Parts : IsFiniteSet(T)
  BY <1>3
<1>7. QED
  BY <1>5, <1>6, FS_UNION DEF PlanTime

\* Time may go, and one customer's may become another's.
LEMMA Exchange ==
  ASSUME NEW S, NEW T, IsFiniteSet(S), NEW c, NEW g, NEW I, IsFiniteSet(I),
         {g} \X I \subseteq S, T \subseteq (S \ ({g} \X I)) \cup ({c} \X I)
  PROVE  Cardinality(T) <= Cardinality(S)
<1> DEFINE G == {g} \X I
           C == {c} \X I
<1>1. /\ IsFiniteSet(G) /\ IsFiniteSet(C) /\ Cardinality(I) \in Nat
      /\ Cardinality(G) = Cardinality(I) /\ Cardinality(C) = Cardinality(I)
  <2>1. Cardinality(I) \in Nat
    BY FS_CardinalityType
  <2>2. ASSUME NEW x PROVE IsFiniteSet({x} \X I) /\ Cardinality({x} \X I) = Cardinality(I)
    <3>1. IsFiniteSet({x}) /\ Cardinality({x}) = 1
      BY FS_Singleton
    <3>2. IsFiniteSet({x} \X I) /\ Cardinality({x} \X I) = Cardinality({x}) * Cardinality(I)
      BY <3>1, FS_Product
    <3>3. QED
      BY <2>1, <3>1, <3>2
  <2>3. QED
    BY <2>1, <2>2
<1>2. S \cap G = G
  OBVIOUS
<1>3. /\ IsFiniteSet(S \ G) /\ Cardinality(S \ G) = Cardinality(S) - Cardinality(I)
      /\ Cardinality(S) \in Nat /\ Cardinality(S \ G) \in Nat
  <2> HIDE DEF G
  <2>1. IsFiniteSet(S \ G) /\ Cardinality(S \ G) = Cardinality(S) - Cardinality(S \cap G)
    BY FS_Difference
  <2>2. Cardinality(S) \in Nat /\ Cardinality(S \ G) \in Nat
    BY <2>1, FS_CardinalityType
  <2>3. QED
    BY <1>1, <1>2, <2>1, <2>2
<1>4. /\ IsFiniteSet((S \ G) \cup C)
      /\ Cardinality((S \ G) \cup C) = Cardinality(S \ G) + Cardinality(C) - Cardinality((S \ G) \cap C)
  BY <1>1, <1>3, FS_Union
<1>5. Cardinality((S \ G) \cap C) \in Nat
  BY <1>3, FS_Intersection, FS_CardinalityType
<1>6. Cardinality(T) <= Cardinality((S \ G) \cup C) /\ Cardinality(T) \in Nat
  BY <1>4, FS_Subset, FS_CardinalityType
<1>7. QED
  BY <1>1, <1>3, <1>4, <1>5, <1>6

\* After a step, too, PlanTime has the units that are ahead.
LEMMA PlanMembersAfter ==
  ASSUME AccountAssumption, TypeOK'
  PROVE  \A x \in PlanTime' : \E c \in Customers, t \in Int : x = <<c, t>> /\ Ahead(c, t)'
<1>1. now' \in Int /\ \A c \in Customers : customer'[c].until \in Int
  BY DEF TypeOK, Row
<1>2. \A h \in Handlers : task'[h].at = "save" => task'[h].row.until \in Int
  BY DEF TypeOK, Idle, Row
<1>3. \A c \in Customers : \A t \in TimeOf(c)' \cup InFlight(c)' : t \in Int /\ Ahead(c, t)'
  BY <1>1, <1>2 DEF Ahead, TimeOf, InFlight
<1>4. QED
  BY <1>3 DEF PlanTime

LEMMA Less ==
  ASSUME AccountAssumption, TypeOK, TypeOK',
         \A c \in Customers, t \in Int : Ahead(c, t)' => Ahead(c, t)
  PROVE  Cardinality(PlanTime)' <= Cardinality(PlanTime)
<1>1. \A x \in PlanTime' : \E c \in Customers, t \in Int : x = <<c, t>> /\ Ahead(c, t)'
  BY PlanMembersAfter
<1>2. PlanTime' \subseteq PlanTime
  BY <1>1, PlanMembers
<1>3. QED
  BY <1>2, PlanFinite, FS_Subset

\* Reading a row, or writing it back, puts nothing ahead.
LEMMA OwnRowStep ==
  ASSUME AccountAssumption, IInv, IInv', NEW h \in Handlers, NEW c \in Customers,
         VerifyRead(h, c) \/ MigrateRead(h, c) \/ VerifySave(h)
  PROVE  Cardinality(PlanTime)' <= Cardinality(PlanTime)
<1>1. TypeOK /\ TypeOK' /\ now' = now /\ now \in Nat
  BY DEF IInv, TypeOK, VerifyRead, MigrateRead, VerifySave, Loops
<1>2. CASE VerifyRead(h, c)
  <2>1. PICK row : row = IF Exists(c) THEN customer[c] ELSE [NoRow EXCEPT !.status = "expired"]
    OBVIOUS
  <2>2. row \in Row /\ row.until = customer[c].until /\ row.until \in Nat
    BY <2>1, FoundOrMade
  <2>3. PICK copy \in Row, stage \in {"migrate", "save"} :
          /\ copy = Recompute(row) /\ Go(h, stage, c, copy, Nobody) /\ Write(c, row, h)
    BY <1>1, <1>2, <2>1, <2>2, Recomputed DEF VerifyRead
  <2>4. copy.until = row.until \/ copy.until = 0
    BY <1>1, <2>2, <2>3, Recomputed
  <2>5. /\ task'[h].at = stage /\ task'[h].row = copy /\ task'[h].c = c
        /\ \A k \in Handlers \ {h} : task'[k] = task[k]
    <3>1. stage \in Stages
      BY DEF Stages, WriteBack
    <3>2. /\ task'[h] = [at |-> stage, c |-> c, row |-> copy, p |-> Nobody]
          /\ \A k \in Handlers \ {h} : task'[k] = task[k]
      BY <1>1, <2>3, <3>1, GoTask
    <3>3. QED
      BY <3>2
  <2>6. \A d \in Customers : customer'[d].until = customer[d].until
    BY <1>1, <2>2, <2>3 DEF Write, TypeOK
  <2>7. ASSUME NEW d \in Customers, NEW t \in Int, Ahead(d, t)' PROVE Ahead(d, t)
    BY <1>1, <2>2, <2>4, <2>5, <2>6, <2>7 DEF Ahead
  <2>8. QED
    BY <1>1, <2>7, Less
<1>3. CASE MigrateRead(h, c)
  <2>1. task[h].at = "migrate" /\ task[h].at \in Stages /\ customer' = customer
    BY <1>3, StageNames DEF MigrateRead, WriteBack
  <2>2. task[h].row.until = 0 /\ task[h].row \in Row /\ task[h].c \in Customers
    BY <2>1, AtWork DEF IInv, TasksOK, CopyOK, Idle
  <2>3. \/ task' = [task EXCEPT ![h] =
               [at |-> "take", c |-> task[h].c, row |-> [task[h].row EXCEPT !.until = customer[c].until],
                p |-> c]]
        \/ task' = [task EXCEPT ![h] =
               [at |-> "save", c |-> task[h].c, row |-> task[h].row, p |-> Nobody]]
    BY <1>3 DEF MigrateRead, Go
  <2>4. /\ \/ task'[h].at = "take"
           \/ task'[h].at = "save" /\ task'[h].row.until = 0
        /\ \A k \in Handlers \ {h} : task'[k] = task[k]
    BY <1>1, <2>2, <2>3 DEF TypeOK
  <2>5. ASSUME NEW d \in Customers, NEW t \in Int, Ahead(d, t)' PROVE Ahead(d, t)
    BY <1>1, <2>1, <2>4, <2>5 DEF Ahead
  <2>6. QED
    BY <1>1, <2>5, Less
<1>4. CASE VerifySave(h)
  <2>1. task[h].at = "save" /\ task[h].at \in Stages
    BY <1>4, StageNames DEF VerifySave, WriteBack
  <2>2. task[h].c \in Customers
    BY <1>1, <2>1, AtWork
  <2>3. /\ customer'[task[h].c] = task[h].row
        /\ \A d \in Customers \ {task[h].c} : customer'[d] = customer[d]
    BY <1>1, <1>4, <2>2 DEF VerifySave, Write, TypeOK
  <2>4. task'[h].at = "idle" /\ \A k \in Handlers \ {h} : task'[k] = task[k]
    BY <1>1, <1>4, EndTask DEF VerifySave, Idle
  <2>5. ASSUME NEW d \in Customers, NEW t \in Int, Ahead(d, t)' PROVE Ahead(d, t)
    BY <1>1, <2>1, <2>3, <2>4, <2>5 DEF Ahead
  <2>6. QED
    BY <1>1, <2>5, Less
<1>5. QED
  BY <1>2, <1>3, <1>4

\* What a guest loses, the customer who signs in gets.
LEMMA MoveStep ==
  ASSUME AccountAssumption, IInv, IInv', TakesOK, Calm, NEW h \in Handlers, MigrateTake(h)
  PROVE  Cardinality(PlanTime)' <= Cardinality(PlanTime)
<1>1. TypeOK /\ TypeOK' /\ now' = now /\ now \in Nat /\ TasksOK'
  BY DEF IInv, TypeOK, MigrateTake, Loops
<1>2. task[h].at = "take" /\ task[h].at \in Stages
  BY StageNames DEF MigrateTake, WriteBack
<1>3. PICK c \in Customers, r \in Row, g \in Guests :
        c = task[h].c /\ r = task[h].row /\ g = task[h].p
  BY <1>1, <1>2, AtWork DEF IInv, TasksOK, CopyOK, Idle
<1>4. /\ g \in Customers /\ customer[g] \in Row /\ customer[g].until \in Nat /\ r.until \in Nat
      /\ customer[g].status = "active" => customer[g].until = r.until
  BY <1>1, <1>2, <1>3 DEF TakesOK, TakesWhole, TypeOK, Row, AccountAssumption
<1>5. c \notin Guests /\ c # g
  BY <1>2, <1>3 DEF IInv, TasksOK, CopyOK, Idle
<1>6. CASE ~Movable(g)
  <2>1. /\ customer' = customer
        /\ task' = [task EXCEPT ![h] = [at |-> "save", c |-> c, row |-> [r EXCEPT !.until = 0],
                                        p |-> Nobody]]
    BY <1>3, <1>6 DEF MigrateTake, Go
  <2>2. /\ task'[h].row.until = 0 /\ \A k \in Handlers \ {h} : task'[k] = task[k]
    BY <1>1, <2>1 DEF TypeOK, Row
  <2>3. ASSUME NEW d \in Customers, NEW t \in Int, Ahead(d, t)' PROVE Ahead(d, t)
    BY <1>1, <2>1, <2>2, <2>3 DEF Ahead
  <2>4. QED
    BY <1>1, <2>3, Less
<1>7. CASE Movable(g)
  <2> DEFINE I == now + 1 .. r.until
  <2>1. customer[g].until = r.until
    BY <1>4, <1>7 DEF Movable
  <2>2. /\ Write(g, [customer[g] EXCEPT !.status = "expired", !.until = now], h)
        /\ task' = [task EXCEPT ![h] = [at |-> "save", c |-> c, row |-> [r EXCEPT !.status = "active"],
                                        p |-> Nobody]]
    BY <1>3, <1>7 DEF MigrateTake, Go
  <2>3. customer'[g].until = now /\ \A d \in Customers \ {g} : customer'[d] = customer[d]
    BY <1>1, <1>4, <2>2 DEF Write, TypeOK, Row
  <2>4. /\ task'[h].row.until = r.until /\ task'[h].c = c
        /\ \A k \in Handlers \ {h} : task'[k] = task[k]
    BY <1>1, <2>2 DEF TypeOK, Row
  <2>5. \A k \in Handlers : task'[k].at = "save" => task'[k].c # g
    BY <1>1 DEF TasksOK, CopyOK, Idle
  <2>6. {g} \X I \subseteq PlanTime
    <3>1. ASSUME NEW t \in I PROVE Ahead(g, t)
      BY <1>1, <1>4, <2>1 DEF Ahead
    <3>2. QED
      BY <1>1, <1>4, <3>1, PlanMembers
  <2>7. PlanTime' \subseteq (PlanTime \ ({g} \X I)) \cup ({c} \X I)
    <3> SUFFICES ASSUME NEW d \in Customers, NEW t \in Int, Ahead(d, t)'
                 PROVE  <<d, t>> \in (PlanTime \ ({g} \X I)) \cup ({c} \X I)
      BY <1>1, PlanMembersAfter
    <3>1. d # g
      BY <1>1, <2>3, <2>5 DEF Ahead
    <3>2. Ahead(d, t) \/ (d = c /\ t \in I)
      BY <1>1, <1>4, <2>3, <2>4, <3>1 DEF Ahead
    <3>3. QED
      BY <1>1, <3>1, <3>2, PlanMembers
  <2>8. IsFiniteSet(I)
    <3>1. now + 1 \in Int /\ r.until \in Int
      BY <1>1, <1>4
    <3>2. QED
      BY <3>1, FS_Interval
  <2>9. IsFiniteSet(PlanTime)
    BY <1>1, PlanFinite
  <2> HIDE DEF I
  <2>10. QED
    BY <2>6, <2>7, <2>8, <2>9, Exchange
<1>8. QED
  BY <1>6, <1>7

\* Signing in moves a guest's plan and copies none, however many phones do it
\* at once: in a behaviour where nothing else gives a guest time, it never adds
\* to the time that customers have or are about to have.
THEOREM PlansMoved == Spec => MovedNotCopied
<1> DEFINE Kept == (\E h \in Handlers : SignIn(h)) /\ scene.doors \cap Renewals = {} =>
                     Cardinality(PlanTime)' <= Cardinality(PlanTime)
<1>1. Init => TakesOK
  BY AccountAssumption DEF Init, TakesOK, TakesWhole, Idle
<1>2. IInv /\ TakesOK /\ [Next]_vars => TakesOK'
  BY NextTakes, AccountAssumption
<1>3. ASSUME IInv, IInv', TakesOK, [Next]_vars
      PROVE  Kept
  <2> SUFFICES ASSUME NEW h \in Handlers, SignIn(h), Calm
               PROVE  Cardinality(PlanTime)' <= Cardinality(PlanTime)
    BY DEF Calm
  <2>1. ASSUME NEW c \in Customers, VerifyRead(h, c) \/ MigrateRead(h, c) \/ VerifySave(h)
        PROVE  Cardinality(PlanTime)' <= Cardinality(PlanTime)
    BY <1>3, <2>1, OwnRowStep, AccountAssumption
  <2>2. CASE MigrateTake(h)
    BY <1>3, <2>2, MoveStep, AccountAssumption
  <2>3. CASE VerifySave(h)
    <3>1. task[h].c \in Customers
      BY <1>3, <2>3, StageNames, AtWork, AccountAssumption DEF VerifySave, WriteBack, IInv
    <3>2. QED
      BY <2>1, <2>3, <3>1
  <2>4. QED
    BY <2>1, <2>2, <2>3 DEF SignIn
<1>4. QED
  BY <1>1, <1>2, <1>3, Inductive, PTL DEF Spec, MovedNotCopied
=============================================================================
