----------------------------- MODULE C2BProofs ------------------------------
(***************************************************************************)
(* Proofs of C2B's type invariant, of CreditedOnce, BooksAgree,            *)
(* ResolvedGivenOut and DecidedStays, and that C2B implements ReceiptBook, *)
(* for every set of receipts, customers and handlers.  The inductive       *)
(* invariant is a conjunction over receipts: a step of a handler is about  *)
(* one receipt and leaves the others' part as it was (lemma Elsewhere).    *)
(***************************************************************************)
EXTENDS C2BReceipts, FiniteSetTheorems, TLAPS

On(h, r, stages) == task[h].r = r /\ task[h].at \in stages

\* A claim under way is the only one of its receipt: it holds the row it took
\* and has not credited anybody yet.
ClaimApart(r) ==
  /\ \A h \in Handlers : On(h, r, {"apply", "putback"}) =>
       queue[r].status = "resolved" /\ credited[r] = 0
  /\ \A g, h \in Handlers :
       On(g, r, {"apply", "putback"}) /\ On(h, r, {"apply", "putback"}) => g = h

\* Only what Safaricom or the token vouches for gets as far as a credit.
VouchedFor(r) ==
  /\ \A h \in Handlers :
       On(h, r, {"proven", "create", "credit", "resolve", "claim", "apply", "putback"}) =>
         r \in Sound
  /\ queue[r].verification = "verified" => r \in Sound

\* A confirmation about to be recorded finds nothing queued or given out.
NewBelow(r) ==
  \A h \in Handlers :
    On(h, r, {"checked"}) /\ book[r] = "none" =>
      /\ queue[r].status = "none" /\ credited[r] = 0
      /\ r \in paid => prompt[r] = "recorded"

\* What is open or waits in the queue has not been given out, and what was
\* given out was so once.
GivenOnce(r) ==
  /\ book[r] \in Open \/ queue[r].status = "pending" => credited[r] = 0
  /\ credited[r] <= 1

GivenOut(r) ==
  queue[r].status = "resolved" /\ credited[r] = 0 =>
    r \in died \/ \E h \in Handlers : On(h, r, {"apply", "putback"})

ReceiptOK(r) ==
  ClaimApart(r) /\ VouchedFor(r) /\ NewBelow(r) /\ GivenOnce(r) /\ Agree(r) /\ GivenOut(r)

IInv == TypeOK /\ \A r \in Receipts : ReceiptOK(r)

-----------------------------------------------------------------------------
Moves(h, r, stage) ==
  /\ task' \in [Handlers -> Tasks]
  /\ task'[h].at = stage /\ task'[h].r = r
  /\ \A g \in Handlers \ {h} : task'[g] = task[g]

Ends(h) ==
  /\ task' \in [Handlers -> Tasks]
  /\ task'[h].at = "idle" /\ task'[h].r = Nobody
  /\ \A g \in Handlers \ {h} : task'[g] = task[g]

LEMMA GoMoves ==
  ASSUME TypeOK, NEW h \in Handlers, NEW r \in Receipts, NEW stage \in Stages,
         Go(h, stage, r)
  PROVE  Moves(h, r, stage)
  BY DEF TypeOK, Go, Moves, Tasks

LEMMA EndEnds ==
  ASSUME TypeOK, NEW h \in Handlers, End(h)
  PROVE  Ends(h)
  BY DEF TypeOK, End, Ends, Idle, Tasks

LEMMA GoCreditMoves ==
  ASSUME TypeOK, NEW h \in Handlers, NEW r \in Receipts,
         NEW c \in Customers \cup {Nobody}, GoCredit(h, r, c)
  PROVE  Moves(h, r, "credit")
  BY DEF TypeOK, GoCredit, Moves, Tasks

\* The tables hold of s what they held, but for a claim that may have died.
Rows(s) ==
  /\ book'[s] = book[s] /\ queue'[s] = queue[s] /\ credited'[s] = credited[s]
  /\ prompt'[s] = prompt[s]
  /\ s \in paid' <=> s \in paid
  /\ s \in died => s \in died'

LEMMA Elsewhere ==
  ASSUME NEW s \in Receipts, ReceiptOK(s), Rows(s),
         \A h \in Handlers : task[h].r = s \/ task'[h].r = s => task'[h] = task[h]
  PROVE  ReceiptOK(s)'
<1>1. \A stages : \A h \in Handlers : On(h, s, stages)' <=> On(h, s, stages)
  BY DEF On
<1>2. ClaimApart(s)'
  BY <1>1 DEF ReceiptOK, ClaimApart, Rows
<1>3. VouchedFor(s)'
  BY <1>1 DEF ReceiptOK, VouchedFor, Rows
<1>4. NewBelow(s)'
  BY <1>1 DEF ReceiptOK, NewBelow, Rows
<1>5. GivenOnce(s)' /\ Agree(s)'
  BY DEF ReceiptOK, GivenOnce, Agree, Rows
<1>6. GivenOut(s)'
  BY <1>1 DEF ReceiptOK, GivenOut, Rows
<1>7. QED
  BY <1>2, <1>3, <1>4, <1>5, <1>6 DEF ReceiptOK

LEMMA MoveElsewhere ==
  ASSUME IInv, NEW h \in Handlers, NEW r \in Receipts, NEW stage,
         task[h].r \in {r, Nobody}, Moves(h, r, stage) \/ Ends(h),
         \A s \in Receipts \ {r} : Rows(s)
  PROVE  \A s \in Receipts \ {r} : ReceiptOK(s)'
<1> SUFFICES ASSUME NEW s \in Receipts \ {r} PROVE ReceiptOK(s)'
  OBVIOUS
<1>1. s # Nobody
  BY C2BAssumption
<1>2. \A g \in Handlers : task[g].r = s \/ task'[g].r = s => task'[g] = task[g]
  BY <1>1 DEF Moves, Ends
<1>3. QED
  BY <1>2, Elsewhere DEF IInv

-----------------------------------------------------------------------------
\* A handler goes on to a stage that needs no more than r's record, or stops
\* where it has nothing left to undo; the tables stay.
LEMMA QuietStep ==
  ASSUME IInv, NEW h \in Handlers, NEW r \in Receipts, NEW stage,
         ~On(h, r, {"apply", "putback"}), task[h].r \in {r, Nobody},
         Moves(h, r, stage) \/ Ends(h),
         stage \notin {"apply", "putback"},
         stage = "checked" => ~Recorded(r) /\ (book[r] = "none" => credited[r] = 0),
         stage \in {"proven", "create", "credit", "resolve", "claim"} => r \in Sound,
         UNCHANGED <<book, queue, paid, prompt, credited, died>>
  PROVE  \A s \in Receipts : ReceiptOK(s)'
<1>1. \A s \in Receipts : Rows(s)
  BY DEF Rows
<1>2. \A s \in Receipts \ {r} : ReceiptOK(s)'
  BY <1>1, MoveElsewhere
<1>3. ReceiptOK(r) /\ Nobody # r
  BY C2BAssumption DEF IInv
<1>4. \A stages : \A g \in Handlers \ {h} : On(g, r, stages)' <=> On(g, r, stages)
  BY DEF On, Moves, Ends
<1>5. \A stages : On(h, r, stages)' => stage \in stages
  BY <1>3 DEF On, Moves, Ends
<1>6. ClaimApart(r)'
  BY <1>3, <1>4, <1>5 DEF ReceiptOK, ClaimApart
<1>7. VouchedFor(r)'
  BY <1>3, <1>4, <1>5 DEF ReceiptOK, VouchedFor
<1>8. NewBelow(r)'
  BY <1>3, <1>4, <1>5 DEF ReceiptOK, NewBelow, Recorded
<1>9. GivenOnce(r)' /\ Agree(r)'
  BY <1>3 DEF ReceiptOK, GivenOnce, Agree
<1>10. GivenOut(r)'
  BY <1>3, <1>4 DEF ReceiptOK, GivenOut
<1>11. QED
  BY <1>2, <1>3, <1>6, <1>7, <1>8, <1>9, <1>10 DEF ReceiptOK

-----------------------------------------------------------------------------
LEMMA TaskOf ==
  ASSUME TypeOK, NEW h \in Handlers
  PROVE  /\ task[h] = Idle => task[h].at = "idle" /\ task[h].r = Nobody
         /\ task[h] # Idle => /\ task[h].at \in Stages \cup {"credit"}
                              /\ task[h].r \in Receipts
         /\ task[h].at = "credit" => task[h].who \in Customers \cup {Nobody}
  BY DEF TypeOK, Idle, Tasks, Stages

LEMMA ConfirmStep ==
  ASSUME IInv, NEW h \in Handlers, NEW r \in Receipts, Confirm(h, r)
  PROVE  IInv'
<1>1. TypeOK /\ task[h].at = "idle" /\ task[h].r = Nobody
  BY TaskOf DEF IInv, Confirm
<1>2. Moves(h, r, "checked")
  BY <1>1, GoMoves DEF Confirm, Stages
<1>3. TypeOK'
  BY <1>1, <1>2 DEF TypeOK, Moves, Confirm
<1>4. ~Recorded(r) /\ credited[r] = 0
  BY <1>1 DEF Confirm, Recorded, IInv, ReceiptOK, Agree, TypeOK
<1>5. QED
  BY <1>1, <1>2, <1>3, <1>4, QuietStep DEF Confirm, On, IInv

LEMMA InsertStep ==
  ASSUME IInv, NEW h \in Handlers, NEW r \in Receipts, Insert(h, r)
  PROVE  IInv'
<1>1. TypeOK /\ On(h, r, {"checked"}) /\ ReceiptOK(r)
  BY DEF IInv, Insert, On
<1>2. CASE book[r] # "none"
  <2>1. Ends(h) /\ UNCHANGED <<book, queue, paid, prompt, credited, died>>
    BY <1>1, <1>2, EndEnds DEF Insert
  <2>2. TypeOK'
    BY <1>1, <2>1 DEF TypeOK, Ends, Insert
  <2>3. QED
    BY <1>1, <2>1, <2>2, QuietStep DEF On, IInv
<1>3. CASE book[r] = "none"
  <2>1. PICK stage \in {"proven", "ask"} :
          Go(h, stage, r) /\ (stage = "proven" => r \in Sound)
    BY <1>3 DEF Insert
  <2>2. Moves(h, r, stage)
    BY <1>1, <2>1, GoMoves DEF Stages
  <2>3. /\ book' = [book EXCEPT ![r] = "received"] /\ book'[r] = "received"
        /\ UNCHANGED <<queue, paid, prompt, credited, died>>
    BY <1>1, <1>3 DEF Insert, TypeOK
  <2>4. TypeOK'
    BY <1>1, <2>2, <2>3 DEF TypeOK, Moves, Insert, Open
  <2>5. \A s \in Receipts \ {r} : Rows(s)
    BY <1>1, <2>3 DEF Rows, TypeOK
  <2>6. \A s \in Receipts \ {r} : ReceiptOK(s)'
    BY <1>1, <2>2, <2>5, MoveElsewhere DEF On
  <2>7. /\ queue[r].status = "none" /\ credited[r] = 0
        /\ r \in paid => prompt[r] = "recorded"
    BY <1>1, <1>3 DEF ReceiptOK, NewBelow
  <2>8. \A stages : \A g \in Handlers \ {h} : On(g, r, stages)' <=> On(g, r, stages)
    BY <2>2 DEF On, Moves
  <2>9. ClaimApart(r)' /\ VouchedFor(r)'
    BY <1>1, <2>1, <2>2, <2>3, <2>8 DEF ReceiptOK, ClaimApart, VouchedFor, On, Moves
  <2>10. NewBelow(r)' /\ GivenOnce(r)' /\ Agree(r)' /\ GivenOut(r)'
    BY <2>3, <2>7 DEF NewBelow, GivenOnce, Agree, GivenOut, Open
  <2>11. QED
    BY <2>4, <2>6, <2>9, <2>10 DEF IInv, ReceiptOK
<1>4. QED
  BY <1>2, <1>3

LEMMA AskStep ==
  ASSUME IInv, NEW h \in Handlers, NEW r \in Receipts, Ask(h, r)
  PROVE  IInv'
<1>1. TypeOK /\ On(h, r, {"ask"})
  BY DEF IInv, Ask, On
<1>2. PICK stage \in {"store", "park"} : Go(h, stage, r)
  BY DEF Ask
<1>3. Moves(h, r, stage)
  BY <1>1, <1>2, GoMoves DEF Stages
<1>4. asked' \subseteq Receipts
  BY <1>1 DEF Ask, TypeOK
<1>5. TypeOK'
  BY <1>1, <1>3, <1>4 DEF TypeOK, Moves, Ask
<1>6. QED
  BY <1>1, <1>3, <1>5, QuietStep DEF Ask, On, IInv

LEMMA StoreStep ==
  ASSUME IInv, NEW h \in Handlers, NEW r \in Receipts, Store(h, r)
  PROVE  IInv'
<1>1. TypeOK /\ On(h, r, {"store"}) /\ ReceiptOK(r) /\ Ends(h)
  BY EndEnds DEF IInv, Store, On
<1>2. /\ UNCHANGED <<queue, paid, prompt, credited, died>>
      /\ \A s \in Receipts \ {r} : book'[s] = book[s]
      /\ book'[r] = book[r] \/ (book[r] = "received" /\ book'[r] = "verifying")
  BY <1>1 DEF Store, Storable, TypeOK
<1>3. TypeOK'
  BY <1>1 DEF TypeOK, Ends, Store, Open
<1>4. \A s \in Receipts \ {r} : Rows(s)
  BY <1>2 DEF Rows
<1>5. \A s \in Receipts \ {r} : ReceiptOK(s)'
  BY <1>1, <1>4, MoveElsewhere DEF On
<1>6. /\ \A stages : \A g \in Handlers \ {h} : On(g, r, stages)' <=> On(g, r, stages)
      /\ \A stages : ~On(h, r, stages)'
  BY <1>1, C2BAssumption DEF On, Ends
<1>7. ClaimApart(r)' /\ VouchedFor(r)'
  BY <1>1, <1>2, <1>6 DEF ReceiptOK, ClaimApart, VouchedFor
<1>8. NewBelow(r)' /\ GivenOnce(r)' /\ Agree(r)'
  BY <1>1, <1>2, <1>6 DEF ReceiptOK, NewBelow, GivenOnce, Agree, Open
<1>9. GivenOut(r)'
  BY <1>1, <1>2, <1>6 DEF ReceiptOK, GivenOut, On
<1>10. QED
  BY <1>3, <1>5, <1>7, <1>8, <1>9 DEF IInv, ReceiptOK

LEMMA ResultStep ==
  ASSUME IInv, NEW h \in Handlers, NEW r \in Receipts, Result(h, r)
  PROVE  IInv'
<1>1. TypeOK /\ task[h].at = "idle" /\ task[h].r = Nobody
  BY TaskOf DEF IInv, Result
<1>2. PICK answer \in Answers[r] :
        IF Matches(answer) THEN Go(h, "proven", r) ELSE Go(h, "park", r)
  BY DEF Result
<1>3. PICK stage \in {"proven", "park"} :
        Go(h, stage, r) /\ (stage = "proven" => r \in Sound)
  <2>1. CASE Matches(answer)
    BY <1>2, <2>1, OnlySoundMatch
  <2>2. CASE ~Matches(answer)
    BY <1>2, <2>2
  <2>3. QED
    BY <2>1, <2>2
<1>4. Moves(h, r, stage)
  BY <1>1, <1>3, GoMoves DEF Stages
<1>5. TypeOK'
  BY <1>1, <1>4 DEF TypeOK, Moves, Result
<1>6. QED
  BY <1>1, <1>3, <1>4, <1>5, QuietStep DEF Result, On, IInv

LEMMA VerifyTimeoutStep ==
  ASSUME IInv, NEW h \in Handlers, NEW r \in Receipts, VerifyTimeout(h, r)
  PROVE  IInv'
<1>1. TypeOK /\ task[h].at = "idle" /\ task[h].r = Nobody
  BY TaskOf DEF IInv, VerifyTimeout
<1>2. Moves(h, r, "park")
  BY <1>1, GoMoves DEF VerifyTimeout, Stages
<1>3. TypeOK'
  BY <1>1, <1>2 DEF TypeOK, Moves, VerifyTimeout
<1>4. QED
  BY <1>1, <1>2, <1>3, QuietStep DEF VerifyTimeout, On, IInv

LEMMA ResolveReadStep ==
  ASSUME IInv, NEW h \in Handlers, NEW r \in Receipts, ResolveRead(h, r)
  PROVE  IInv'
<1>1. TypeOK /\ task[h].at = "idle" /\ task[h].r = Nobody
  BY TaskOf DEF IInv, ResolveRead
<1>2. Moves(h, r, "resolve")
  BY <1>1, GoMoves DEF ResolveRead, Stages
<1>3. TypeOK'
  BY <1>1, <1>2 DEF TypeOK, Moves, ResolveRead
<1>4. r \in Sound
  BY DEF ResolveRead, IInv, ReceiptOK, VouchedFor
<1>5. QED
  BY <1>1, <1>2, <1>3, <1>4, QuietStep DEF ResolveRead, On, IInv

LEMMA ClaimReadStep ==
  ASSUME IInv, NEW h \in Handlers, NEW r \in Receipts, ClaimRead(h, r)
  PROVE  IInv'
<1>1. TypeOK /\ task[h].at = "idle" /\ task[h].r = Nobody
  BY TaskOf DEF IInv, ClaimRead
<1>2. Moves(h, r, "claim")
  BY <1>1, GoMoves DEF ClaimRead, Stages
<1>3. TypeOK'
  BY <1>1, <1>2 DEF TypeOK, Moves, ClaimRead
<1>4. r \in Sound
  <2>1. queue[r].verification = "verified"
    BY DEF ClaimRead, VerifiedRow
  <2>2. QED
    BY <2>1 DEF IInv, ReceiptOK, VouchedFor
<1>5. QED
  BY <1>1, <1>2, <1>3, <1>4, QuietStep DEF ClaimRead, On, IInv

-----------------------------------------------------------------------------
\* What parking does to the tables, whoever does it.
LEMMA ParkRows ==
  ASSUME IInv, NEW r \in Receipts, ParkC2B(r),
         UNCHANGED <<paid, prompt, credited, died>>,
         \A g \in Handlers : task'[g] = task[g] \/ (task[g].r = r /\ task'[g].r = Nobody),
         \A g \in Handlers : ~On(g, r, {"apply", "putback"}) \/ task'[g] = task[g]
  PROVE  /\ book' \in [Receipts -> Open \cup {"none", "credited", "parked"}]
         /\ queue' \in [Receipts -> [status : {"none", "pending", "resolved"},
                                     verification : {"verified", "unverified"}]]
         /\ \A s \in Receipts : ReceiptOK(s)'
<1>1. ReceiptOK(r) /\ TypeOK
  BY DEF IInv
<1>2. \A s \in Receipts : s # Nobody
  BY C2BAssumption
<1>3. \A stages : \A g \in Handlers, s \in Receipts : On(g, s, stages)' => On(g, s, stages)
  BY <1>2 DEF On
<1>4. \A g \in Handlers, s \in Receipts :
        On(g, s, {"apply", "putback"}) => On(g, s, {"apply", "putback"})'
  BY DEF On
<1>5. CASE book[r] \notin Open
  <2>1. UNCHANGED <<book, queue>>
    BY <1>5 DEF ParkC2B, Parkable
  <2>2. ASSUME NEW s \in Receipts PROVE ReceiptOK(s)'
    <3>1. ReceiptOK(s)
      BY DEF IInv
    <3>2. ClaimApart(s)'
      BY <1>3, <2>1, <3>1 DEF ReceiptOK, ClaimApart
    <3>3. VouchedFor(s)'
      BY <1>3, <2>1, <3>1 DEF ReceiptOK, VouchedFor
    <3>4. NewBelow(s)'
      BY <1>3, <2>1, <3>1 DEF ReceiptOK, NewBelow
    <3>5. GivenOnce(s)' /\ Agree(s)' /\ GivenOut(s)'
      BY <1>4, <2>1, <3>1 DEF ReceiptOK, GivenOnce, Agree, GivenOut
    <3>6. QED
      BY <3>2, <3>3, <3>4, <3>5 DEF ReceiptOK
  <2>3. QED
    BY <1>1, <2>1, <2>2 DEF TypeOK
<1>6. CASE book[r] \in Open
  <2>1. queue[r].status = "none" /\ credited[r] = 0 /\ (r \in paid => prompt[r] = "recorded")
    BY <1>1, <1>6 DEF ReceiptOK, Agree, GivenOnce
  <2>2. book' = [book EXCEPT ![r] = "parked"] /\ queue' = [queue EXCEPT ![r] = ParkedRow]
    BY <1>1, <1>6, <2>1 DEF ParkC2B, Parkable, TypeOK
  <2>3. /\ book'[r] = "parked" /\ queue'[r] = ParkedRow
        /\ queue'[r].status = "pending" /\ queue'[r].verification = "unverified"
        /\ \A s \in Receipts \ {r} : book'[s] = book[s] /\ queue'[s] = queue[s]
    BY <1>1, <2>2 DEF TypeOK, ParkedRow
  <2>4. ReceiptOK(r)'
    <3>1. \A g \in Handlers : ~On(g, r, {"apply", "putback"})
      BY <1>1, <2>1 DEF ReceiptOK, ClaimApart
    <3>2. ClaimApart(r)'
      BY <1>1, <1>3, <2>3, <3>1 DEF ReceiptOK, ClaimApart
    <3>3. VouchedFor(r)'
      BY <1>1, <1>3, <2>3, <3>1 DEF ReceiptOK, VouchedFor
    <3>4. NewBelow(r)'
      BY <1>1, <1>3, <2>3, <3>1 DEF ReceiptOK, NewBelow
    <3>5. GivenOnce(r)' /\ Agree(r)' /\ GivenOut(r)'
      BY <2>1, <2>3 DEF GivenOnce, Agree, GivenOut, Open
    <3>6. QED
      BY <3>2, <3>3, <3>4, <3>5 DEF ReceiptOK
  <2>5. ASSUME NEW s \in Receipts \ {r} PROVE ReceiptOK(s)'
    <3>1. ReceiptOK(s)
      BY DEF IInv
    <3>2. ClaimApart(s)'
      BY <1>3, <2>3, <3>1 DEF ReceiptOK, ClaimApart
    <3>3. VouchedFor(s)'
      BY <1>3, <2>3, <3>1 DEF ReceiptOK, VouchedFor
    <3>4. NewBelow(s)'
      BY <1>3, <2>3, <3>1 DEF ReceiptOK, NewBelow
    <3>5. GivenOnce(s)' /\ Agree(s)' /\ GivenOut(s)'
      BY <1>4, <2>3, <3>1 DEF ReceiptOK, GivenOnce, Agree, GivenOut
    <3>6. QED
      BY <3>2, <3>3, <3>4, <3>5 DEF ReceiptOK
  <2>6. QED
    BY <1>1, <2>2, <2>4, <2>5 DEF TypeOK, ParkedRow
<1>7. QED
  BY <1>5, <1>6

LEMMA ParkStep ==
  ASSUME IInv, NEW h \in Handlers, NEW r \in Receipts, Park(h, r)
  PROVE  IInv'
<1>1. TypeOK /\ On(h, r, {"park"}) /\ Ends(h)
  BY EndEnds DEF IInv, Park, On
<1>2. /\ book' \in [Receipts -> Open \cup {"none", "credited", "parked"}]
      /\ queue' \in [Receipts -> [status : {"none", "pending", "resolved"},
                                  verification : {"verified", "unverified"}]]
      /\ \A s \in Receipts : ReceiptOK(s)'
  BY <1>1, ParkRows DEF Park, Ends, On
<1>3. TypeOK'
  BY <1>1, <1>2 DEF TypeOK, Ends, Park
<1>4. QED
  BY <1>2, <1>3 DEF IInv

LEMMA ParkStaleStep ==
  ASSUME IInv, NEW r \in Receipts, ParkStale(r)
  PROVE  IInv'
<1>1. /\ book' \in [Receipts -> Open \cup {"none", "credited", "parked"}]
      /\ queue' \in [Receipts -> [status : {"none", "pending", "resolved"},
                                  verification : {"verified", "unverified"}]]
      /\ \A s \in Receipts : ReceiptOK(s)'
  BY ParkRows DEF ParkStale
<1>2. TypeOK'
  BY <1>1 DEF TypeOK, ParkStale, IInv
<1>3. QED
  BY <1>1, <1>2 DEF IInv

-----------------------------------------------------------------------------
\* The lookup goes on to a registration, or to the credit with what it found.
LEMMA LookupStep ==
  ASSUME IInv, NEW h \in Handlers, NEW r \in Receipts, Lookup(h, r)
  PROVE  IInv'
<1>1. TypeOK /\ On(h, r, {"proven"}) /\ r \in Sound
  BY DEF IInv, Lookup, On, ReceiptOK, VouchedFor
<1>2. \A isp, works : Found(r, isp, works) \subseteq Customers
  BY <1>1 DEF Found, Scope, TypeOK
<1>3. \/ Go(h, "create", r)
      \/ \E c \in Customers \cup {Nobody} : GoCredit(h, r, c)
  BY <1>2 DEF Lookup
<1>4. PICK stage \in {"create", "credit"} : Moves(h, r, stage)
  BY <1>1, <1>3, GoMoves, GoCreditMoves DEF Stages
<1>5. TypeOK'
  BY <1>1, <1>4 DEF TypeOK, Moves, Lookup
<1>6. QED
  BY <1>1, <1>4, <1>5, QuietStep DEF Lookup, On, IInv

LEMMA CreateStep ==
  ASSUME IInv, NEW h \in Handlers, NEW r \in Receipts, Create(h, r)
  PROVE  IInv'
<1>1. TypeOK /\ On(h, r, {"create"}) /\ r \in Sound
  BY DEF IInv, Create, On, ReceiptOK, VouchedFor
<1>2. Payer[r] \subseteq Customers
  BY C2BAssumption
<1>3. PICK c \in Customers \cup {Nobody} : GoCredit(h, r, c)
  BY <1>2 DEF Create
<1>4. Moves(h, r, "credit") /\ registered' \subseteq Customers
  BY <1>1, <1>2, <1>3, GoCreditMoves DEF Create, TypeOK
<1>5. TypeOK'
  BY <1>1, <1>4 DEF TypeOK, Moves, Create
<1>6. QED
  BY <1>1, <1>4, <1>5, QuietStep DEF Create, On, IInv

LEMMA CreditStep ==
  ASSUME IInv, NEW h \in Handlers, NEW r \in Receipts, Credit(h, r)
  PROVE  IInv'
<1>1. TypeOK /\ On(h, r, {"credit"}) /\ ReceiptOK(r) /\ Ends(h)
  BY EndEnds DEF IInv, Credit, At, On
<1>3. UNCHANGED <<old, prompt, registered, asked, stale, died>>
  BY DEF Credit
<1>4. CASE book[r] \notin Open
  <2>1. UNCHANGED <<book, queue, paid, credited>>
    BY <1>4 DEF Credit
  <2>2. TypeOK'
    BY <1>1, <1>3, <2>1 DEF TypeOK, Ends
  <2>3. QED
    BY <1>1, <1>3, <2>1, <2>2, QuietStep DEF On, IInv
<1>5. CASE book[r] \in Open
  <2>1. /\ queue[r].status = "none" /\ credited[r] = 0 /\ r \in Sound
        /\ \A g \in Handlers : ~On(g, r, {"apply", "putback"})
    BY <1>1, <1>5 DEF ReceiptOK, Agree, GivenOnce, VouchedFor, ClaimApart, On
  <2>2. /\ book' = [book EXCEPT ![r] = "credited"]
        /\ \/ /\ queue' = [queue EXCEPT ![r] = VerifiedRow]
              /\ UNCHANGED <<paid, credited>>
           \/ /\ credited' = [credited EXCEPT ![r] = @ + 1]
              /\ paid' = paid \cup {r} /\ UNCHANGED queue
    BY <1>5 DEF Credit
  <2>3. TypeOK'
    <3>2. /\ book' \in [Receipts -> Open \cup {"none", "credited", "parked"}]
          /\ paid' \subseteq Receipts /\ credited' \in [Receipts -> Nat]
      BY <1>1, <2>2 DEF TypeOK
    <3>3. queue' \in [Receipts -> [status : {"none", "pending", "resolved"},
                                   verification : {"verified", "unverified"}]]
      BY <1>1, <2>2 DEF TypeOK, VerifiedRow
    <3>4. QED
      BY <1>1, <1>3, <3>2, <3>3 DEF TypeOK, Ends
  <2>4. /\ book'[r] = "credited"
        /\ \/ /\ queue'[r].status = "pending" /\ queue'[r].verification = "verified"
              /\ credited'[r] = 0
           \/ /\ queue'[r] = queue[r] /\ credited'[r] = 1 /\ r \in paid'
        /\ \A s \in Receipts \ {r} : Rows(s)
    BY <1>1, <1>3, <2>1, <2>2 DEF TypeOK, VerifiedRow, Rows
  <2>5. \A s \in Receipts \ {r} : ReceiptOK(s)'
    BY <1>1, <2>4, MoveElsewhere DEF On
  <2>6. \A stages : \A g \in Handlers : On(g, r, stages)' => On(g, r, stages)
    BY <1>1, C2BAssumption DEF On, Ends
  <2>7. ClaimApart(r)' /\ VouchedFor(r)'
    BY <2>1, <2>6 DEF ClaimApart, VouchedFor
  <2>8. NewBelow(r)' /\ GivenOnce(r)' /\ Agree(r)' /\ GivenOut(r)'
    BY <2>1, <2>4 DEF NewBelow, GivenOnce, Agree, GivenOut, Open
  <2>9. QED
    BY <2>3, <2>5, <2>7, <2>8 DEF IInv, ReceiptOK
<1>6. QED
  BY <1>4, <1>5

LEMMA ResolveCommitStep ==
  ASSUME IInv, NEW h \in Handlers, NEW r \in Receipts, ResolveCommit(h, r)
  PROVE  IInv'
<1>1. TypeOK /\ On(h, r, {"resolve"}) /\ ReceiptOK(r) /\ Ends(h)
  BY EndEnds DEF IInv, ResolveCommit, On
<1>2. UNCHANGED <<book, old, prompt, registered, asked, stale, died>>
  BY DEF ResolveCommit
<1>3. CASE queue[r].status # "pending"
  <2>1. UNCHANGED <<queue, paid, credited>>
    BY <1>3 DEF ResolveCommit
  <2>2. TypeOK'
    BY <1>1, <1>2, <2>1 DEF TypeOK, Ends
  <2>3. QED
    BY <1>1, <1>2, <2>1, <2>2, QuietStep DEF On, IInv
<1>4. CASE queue[r].status = "pending"
  <2>1. /\ book[r] \notin Open /\ credited[r] = 0 /\ r \in Sound
        /\ \A g \in Handlers : ~On(g, r, {"apply", "putback"})
    BY <1>1, <1>4 DEF ReceiptOK, Agree, GivenOnce, VouchedFor, ClaimApart, On
  <2>2. /\ queue' = [queue EXCEPT ![r].status = "resolved"]
        /\ paid' = paid \cup {r} /\ credited' = [credited EXCEPT ![r] = @ + 1]
    BY <1>4 DEF ResolveCommit
  <2>3. TypeOK'
    BY <1>1, <1>2, <2>2 DEF TypeOK, Ends
  <2>4. /\ queue'[r].status = "resolved" /\ queue'[r].verification = queue[r].verification
        /\ credited'[r] = 1 /\ r \in paid'
        /\ \A s \in Receipts \ {r} : Rows(s)
    BY <1>1, <1>2, <2>1, <2>2 DEF TypeOK, Rows
  <2>5. \A s \in Receipts \ {r} : ReceiptOK(s)'
    BY <1>1, <2>4, MoveElsewhere DEF On
  <2>6. \A stages : \A g \in Handlers : On(g, r, stages)' => On(g, r, stages)
    BY <1>1, C2BAssumption DEF On, Ends
  <2>7. ClaimApart(r)' /\ VouchedFor(r)'
    BY <2>1, <2>6 DEF ClaimApart, VouchedFor
  <2>8. NewBelow(r)'
    BY <1>1, <1>2, <1>4, <2>6 DEF ReceiptOK, NewBelow
  <2>9. GivenOnce(r)' /\ Agree(r)' /\ GivenOut(r)'
    BY <1>1, <1>2, <2>1, <2>4 DEF ReceiptOK, GivenOnce, Agree, GivenOut
  <2>10. QED
    BY <2>3, <2>5, <2>7, <2>8, <2>9 DEF IInv, ReceiptOK
<1>5. QED
  BY <1>3, <1>4

LEMMA ClaimTakeStep ==
  ASSUME IInv, NEW h \in Handlers, NEW r \in Receipts, ClaimTake(h, r)
  PROVE  IInv'
<1>1. TypeOK /\ On(h, r, {"claim"}) /\ ReceiptOK(r)
  BY DEF IInv, ClaimTake, On
<1>2. UNCHANGED <<book, old, paid, prompt, credited, registered, asked, stale, died>>
  BY DEF ClaimTake
<1>3. CASE queue[r].status # "pending"
  <2>1. Ends(h) /\ UNCHANGED queue
    BY <1>1, <1>3, EndEnds DEF ClaimTake
  <2>2. TypeOK'
    BY <1>1, <1>2, <2>1 DEF TypeOK, Ends
  <2>3. QED
    BY <1>1, <1>2, <2>1, <2>2, QuietStep DEF On, IInv
<1>4. CASE queue[r].status = "pending"
  <2>1. /\ book[r] \notin Open /\ credited[r] = 0 /\ r \in Sound
        /\ \A g \in Handlers : ~On(g, r, {"apply", "putback"})
    BY <1>1, <1>4 DEF ReceiptOK, Agree, GivenOnce, VouchedFor, ClaimApart, On
  <2>2. queue' = [queue EXCEPT ![r].status = "resolved"] /\ Moves(h, r, "apply")
    BY <1>1, <1>4, GoMoves DEF ClaimTake, Stages
  <2>3. TypeOK'
    BY <1>1, <1>2, <2>2 DEF TypeOK, Moves
  <2>4. /\ queue'[r].status = "resolved" /\ queue'[r].verification = queue[r].verification
        /\ \A s \in Receipts \ {r} : Rows(s)
    BY <1>1, <1>2, <2>2 DEF TypeOK, Rows
  <2>5. \A s \in Receipts \ {r} : ReceiptOK(s)'
    BY <1>1, <2>2, <2>4, MoveElsewhere DEF On
  <2>6. /\ \A stages : \A g \in Handlers \ {h} : On(g, r, stages)' => On(g, r, stages)
        /\ task'[h].r = r /\ task'[h].at = "apply"
    BY <2>2 DEF On, Moves
  <2>7. ClaimApart(r)'
    BY <1>2, <2>1, <2>4, <2>6 DEF ClaimApart
  <2>8. VouchedFor(r)'
    BY <2>1 DEF VouchedFor
  <2>9. NewBelow(r)'
    BY <1>1, <1>2, <1>4, <2>6 DEF ReceiptOK, NewBelow, On
  <2>10. GivenOnce(r)' /\ Agree(r)' /\ GivenOut(r)'
    BY <1>1, <1>2, <2>1, <2>4, <2>6 DEF ReceiptOK, GivenOnce, Agree, GivenOut, On
  <2>11. QED
    BY <2>3, <2>5, <2>7, <2>8, <2>9, <2>10 DEF IInv, ReceiptOK
<1>5. QED
  BY <1>3, <1>4

LEMMA ClaimApplyStep ==
  ASSUME IInv, NEW h \in Handlers, NEW r \in Receipts, ClaimApply(h, r)
  PROVE  IInv'
<1>1. TypeOK /\ On(h, r, {"apply", "putback"}) /\ ReceiptOK(r) /\ Ends(h)
  BY EndEnds DEF IInv, ClaimApply, On
<1>2. /\ UNCHANGED <<book, old, queue, prompt, registered, asked, stale, died>>
      /\ credited' = [credited EXCEPT ![r] = @ + 1] /\ paid' = paid \cup {r}
  BY DEF ClaimApply
<1>3. /\ queue[r].status = "resolved" /\ credited[r] = 0 /\ r \in Sound
      /\ \A g \in Handlers \ {h} : ~On(g, r, {"apply", "putback"})
  BY <1>1 DEF ReceiptOK, VouchedFor, ClaimApart, On
<1>4. TypeOK'
  BY <1>1, <1>2 DEF TypeOK, Ends
<1>5. /\ credited'[r] = 1 /\ r \in paid' /\ \A s \in Receipts \ {r} : Rows(s)
  BY <1>1, <1>2, <1>3 DEF TypeOK, Rows
<1>6. \A s \in Receipts \ {r} : ReceiptOK(s)'
  BY <1>1, <1>5, MoveElsewhere DEF On
<1>7. /\ \A stages : \A g \in Handlers : On(g, r, stages)' => On(g, r, stages)
      /\ \A stages : ~On(h, r, stages)'
  BY <1>1, C2BAssumption DEF On, Ends
<1>8. ClaimApart(r)' /\ VouchedFor(r)'
  BY <1>3, <1>7 DEF ClaimApart, VouchedFor
<1>9. NewBelow(r)'
  BY <1>1, <1>2, <1>3, <1>7 DEF ReceiptOK, NewBelow
<1>10. GivenOnce(r)' /\ Agree(r)' /\ GivenOut(r)'
  BY <1>1, <1>2, <1>3, <1>5 DEF ReceiptOK, GivenOnce, Agree, GivenOut
<1>11. QED
  BY <1>4, <1>6, <1>8, <1>9, <1>10 DEF IInv, ReceiptOK

LEMMA PutBackStep ==
  ASSUME IInv, NEW h \in Handlers, NEW r \in Receipts, PutBack(h, r)
  PROVE  IInv'
<1>1. TypeOK /\ On(h, r, {"apply", "putback"}) /\ ReceiptOK(r) /\ Ends(h)
  BY EndEnds DEF IInv, PutBack, On
<1>2. /\ UNCHANGED <<book, old, paid, prompt, credited, registered, asked, stale, died>>
      /\ queue' = [queue EXCEPT ![r].status = "pending"]
  BY DEF PutBack
<1>3. /\ queue[r].status = "resolved" /\ credited[r] = 0 /\ r \in Sound
      /\ \A g \in Handlers \ {h} : ~On(g, r, {"apply", "putback"})
  BY <1>1 DEF ReceiptOK, VouchedFor, ClaimApart, On
<1>4. TypeOK'
  BY <1>1, <1>2 DEF TypeOK, Ends
<1>5. /\ queue'[r].status = "pending" /\ queue'[r].verification = queue[r].verification
      /\ \A s \in Receipts \ {r} : Rows(s)
  BY <1>1, <1>2 DEF TypeOK, Rows
<1>6. \A s \in Receipts \ {r} : ReceiptOK(s)'
  BY <1>1, <1>5, MoveElsewhere DEF On
<1>7. /\ \A stages : \A g \in Handlers : On(g, r, stages)' => On(g, r, stages)
      /\ \A stages : ~On(h, r, stages)'
  BY <1>1, C2BAssumption DEF On, Ends
<1>8. ClaimApart(r)' /\ VouchedFor(r)'
  BY <1>3, <1>7 DEF ClaimApart, VouchedFor
<1>9. NewBelow(r)'
  BY <1>1, <1>2, <1>3, <1>7 DEF ReceiptOK, NewBelow
<1>10. GivenOnce(r)' /\ Agree(r)' /\ GivenOut(r)'
  BY <1>1, <1>2, <1>3, <1>5 DEF ReceiptOK, GivenOnce, Agree, GivenOut
<1>11. QED
  BY <1>4, <1>6, <1>8, <1>9, <1>10 DEF IInv, ReceiptOK

-----------------------------------------------------------------------------
LEMMA FailStep ==
  ASSUME IInv, NEW h \in Handlers, Fail(h)
  PROVE  IInv'
<1>0. TypeOK /\ task[h].r \in Receipts
  BY TaskOf DEF IInv, Fail
<1>. PICK r \in Receipts : r = task[h].r
  BY <1>0
<1>1. TypeOK /\ r = task[h].r /\ r # Nobody
  BY <1>0, C2BAssumption
<1>2. ReceiptOK(r)
  BY <1>1 DEF IInv
<1>3. /\ UNCHANGED <<book, old, queue, paid, prompt, credited, registered, asked, stale>>
      /\ died' = IF task[h].at = "putback" THEN died \cup {r} ELSE died
  BY DEF Fail, At
<1>4. \A s \in Receipts \ {r} : Rows(s)
  BY <1>3 DEF Rows
<1>5. CASE task[h].at = "apply"
  <2>1. Moves(h, r, "putback")
    <3>1. task' = [task EXCEPT ![h].at = "putback"]
      BY <1>5 DEF Fail, At, AfterApply
    <3>2. task[h] \in [at : Stages, r : Receipts]
      BY <1>0, <1>1, <1>5 DEF TypeOK, Idle, Tasks
    <3>3. task'[h] \in [at : Stages, r : Receipts] /\ task'[h].at = "putback" /\ task'[h].r = r
      BY <1>1, <3>1, <3>2 DEF TypeOK, Stages
    <3>4. QED
      BY <1>1, <3>1, <3>3 DEF Moves, TypeOK, Tasks
  <2>2. TypeOK'
    BY <1>1, <1>3, <2>1 DEF TypeOK, Moves
  <2>3. \A s \in Receipts \ {r} : ReceiptOK(s)'
    BY <1>1, <1>4, <2>1, MoveElsewhere
  <2>4. /\ \A g \in Handlers \ {h} : task'[g] = task[g]
        /\ task'[h].r = r /\ task'[h].at = "putback" /\ died' = died
    BY <1>3, <1>5, <2>1 DEF Moves
  <2>5. ClaimApart(r)'
    BY <1>2, <1>3, <1>5, <2>4 DEF ReceiptOK, ClaimApart, On
  <2>6. VouchedFor(r)'
    BY <1>2, <1>3, <1>5, <2>4 DEF ReceiptOK, VouchedFor, On
  <2>7. NewBelow(r)'
    BY <1>2, <1>3, <1>5, <2>4 DEF ReceiptOK, NewBelow, On
  <2>8. GivenOnce(r)' /\ Agree(r)'
    BY <1>2, <1>3 DEF ReceiptOK, GivenOnce, Agree
  <2>9. GivenOut(r)'
    BY <1>1, <2>4 DEF GivenOut, On
  <2>10. QED
    BY <2>2, <2>3, <2>5, <2>6, <2>7, <2>8, <2>9 DEF IInv, ReceiptOK
<1>6. CASE task[h].at # "apply"
  <2>1. Ends(h)
    BY <1>1, <1>6, EndEnds DEF Fail, At
  <2>2. TypeOK'
    <3>1. died' \subseteq Receipts
      BY <1>1, <1>3 DEF TypeOK
    <3>2. QED
      BY <1>1, <1>3, <2>1, <3>1 DEF TypeOK, Ends
  <2>3. CASE task[h].at = "putback"
    <3>1. \A s \in Receipts \ {r} : ReceiptOK(s)'
      BY <1>1, <1>4, <2>1, MoveElsewhere
    <3>2. r \in died'
      BY <1>3, <2>3
    <3>3. \A stages : \A g \in Handlers : On(g, r, stages)' => On(g, r, stages)
      BY <1>1, <2>1 DEF On, Ends
    <3>4. ClaimApart(r)'
      BY <1>2, <1>3, <3>3 DEF ReceiptOK, ClaimApart
    <3>5. VouchedFor(r)' /\ NewBelow(r)'
      BY <1>2, <1>3, <3>3 DEF ReceiptOK, VouchedFor, NewBelow
    <3>6. GivenOnce(r)' /\ Agree(r)' /\ GivenOut(r)'
      BY <1>2, <1>3, <3>2 DEF ReceiptOK, GivenOnce, Agree, GivenOut
    <3>7. QED
      BY <2>2, <3>1, <3>4, <3>5, <3>6 DEF IInv, ReceiptOK
  <2>4. CASE task[h].at # "putback"
    BY <1>1, <1>3, <1>6, <2>1, <2>2, <2>4, QuietStep DEF On, IInv
  <2>5. QED
    BY <2>3, <2>4
<1>7. QED
  BY <1>5, <1>6

LEMMA CrashStep ==
  ASSUME IInv, Crash
  PROVE  IInv'
<1>1. TypeOK /\ task' = [h \in Handlers |-> Idle]
  BY DEF IInv, Crash
<1>2. /\ UNCHANGED <<book, old, queue, paid, prompt, credited, registered, asked>>
      /\ stale' = {}
      /\ died' = died \cup {task[h].r : h \in {i \in Handlers :
                                                 task[i].at = "apply" \/ task[i].at = "putback"}}
  BY DEF Crash, At
<1>3. \A h \in Handlers : task[h].at \in {"apply", "putback"} => task[h].r \in Receipts
  BY <1>1, TaskOf
<1>4. TypeOK'
  <2>1. died' \subseteq Receipts
    BY <1>1, <1>2, <1>3 DEF TypeOK
  <2>2. QED
    BY <1>1, <1>2, <2>1 DEF TypeOK, Tasks
<1>5. ASSUME NEW s \in Receipts PROVE ReceiptOK(s)'
  <2>1. ReceiptOK(s) /\ s # Nobody
    BY C2BAssumption DEF IInv
  <2>2. \A stages : \A g \in Handlers : ~On(g, s, stages)'
    BY <1>1, <2>1 DEF On, Idle
  <2>3. (\E h \in Handlers : On(h, s, {"apply", "putback"})) \/ s \in died => s \in died'
    BY <1>2 DEF On
  <2>4. ClaimApart(s)' /\ NewBelow(s)' /\ VouchedFor(s)'
    BY <1>2, <2>1, <2>2 DEF ReceiptOK, ClaimApart, VouchedFor, NewBelow
  <2>5. GivenOnce(s)' /\ Agree(s)'
    BY <1>2, <2>1 DEF ReceiptOK, GivenOnce, Agree
  <2>6. GivenOut(s)'
    BY <1>2, <2>1, <2>3 DEF ReceiptOK, GivenOut
  <2>7. QED
    BY <2>4, <2>5, <2>6 DEF ReceiptOK
<1>6. QED
  BY <1>4, <1>5 DEF IInv

\* The job's load, the clock, and a query that keeps its placeholder.
LEMMA AsideStep ==
  ASSUME IInv, LoadStale \/ \E r \in Receipts : Grow(r)
  PROVE  IInv'
<1>1. UNCHANGED <<book, queue, paid, prompt, credited, task, died, registered, asked>>
  BY DEF LoadStale, Grow
<1>2. TypeOK'
  BY <1>1 DEF TypeOK, LoadStale, Grow, StaleRows, IInv
<1>3. \A s \in Receipts : Rows(s)
  BY <1>1 DEF Rows
<1>4. \A s \in Receipts : ReceiptOK(s)'
  BY <1>1, <1>3, Elsewhere DEF IInv
<1>5. QED
  BY <1>2, <1>4 DEF IInv

LEMMA PromptStep ==
  ASSUME IInv, NEW r \in Receipts, StkQuery(r) \/ StkCallback(r)
  PROVE  IInv'
<1>1. TypeOK /\ ReceiptOK(r)
  BY DEF IInv
<1>2. /\ UNCHANGED <<book, old, queue, credited, registered, asked, task, stale, died>>
      /\ \/ prompt[r] = "open" /\ prompt' = [prompt EXCEPT ![r] = "query"] /\ paid' = paid
         \/ prompt' = [prompt EXCEPT ![r] = "recorded"] /\ paid' = paid \cup {r}
  BY DEF StkQuery, StkCallback
<1>3. TypeOK'
  BY <1>1, <1>2 DEF TypeOK
<1>4. \A s \in Receipts \ {r} : Rows(s)
  BY <1>1, <1>2 DEF Rows, TypeOK
<1>5. \A s \in Receipts \ {r} : ReceiptOK(s)'
  BY <1>2, <1>4, Elsewhere DEF IInv
<1>6. (r \in paid => prompt[r] = "recorded") => (r \in paid' => prompt'[r] = "recorded")
  BY <1>1, <1>2 DEF TypeOK
<1>7. \A stages : \A g \in Handlers : On(g, r, stages)' <=> On(g, r, stages)
  BY <1>2 DEF On
<1>8. ClaimApart(r)' /\ VouchedFor(r)'
  BY <1>1, <1>2, <1>7 DEF ReceiptOK, ClaimApart, VouchedFor
<1>9. NewBelow(r)'
  BY <1>1, <1>2, <1>6, <1>7 DEF ReceiptOK, NewBelow
<1>10. GivenOnce(r)' /\ Agree(r)'
  BY <1>1, <1>2, <1>6 DEF ReceiptOK, GivenOnce, Agree
<1>11. GivenOut(r)'
  BY <1>1, <1>2, <1>7 DEF ReceiptOK, GivenOut
<1>12. QED
  BY <1>3, <1>5, <1>8, <1>9, <1>10, <1>11 DEF IInv, ReceiptOK

-----------------------------------------------------------------------------
LEMMA InitInv == Init => IInv
<1> SUFFICES ASSUME Init PROVE IInv
  OBVIOUS
<1>1. PICK history \in [Receipts -> Histories] :
        /\ \A r \in Receipts : history[r] \in Before[r]
        /\ queue = [r \in Receipts |-> IF history[r] = "queued" THEN ParkedRow ELSE NoRow]
        /\ paid = {r \in Receipts : history[r] = "settled"}
        /\ credited = [r \in Receipts |-> IF history[r] = "settled" THEN 1 ELSE 0]
        /\ prompt = [r \in Receipts |-> IF history[r] = "prompt" THEN "open" ELSE "none"]
  BY DEF Init
<1>2. TypeOK
  <2>1. registered \subseteq Customers
    BY C2BAssumption DEF Init
  <2>2. /\ queue \in [Receipts -> [status : {"none", "pending", "resolved"},
                                   verification : {"verified", "unverified"}]]
        /\ credited \in [Receipts -> Nat] /\ paid \subseteq Receipts
        /\ prompt \in [Receipts -> {"none", "open", "query", "recorded"}]
    BY <1>1 DEF ParkedRow, NoRow
  <2>3. QED
    BY <2>1, <2>2 DEF TypeOK, Init, Tasks
<1>3. ASSUME NEW r \in Receipts PROVE ReceiptOK(r)
  <2>1. \A stages : \A g \in Handlers : ~On(g, r, stages)
    BY C2BAssumption DEF Init, On, Idle
  <2>2. /\ book[r] = "none"
        /\ queue[r].status # "resolved" /\ queue[r].verification = "unverified"
        /\ queue[r].status = "pending" => credited[r] = 0
        /\ credited[r] <= 1 /\ (credited[r] > 0 => r \in paid /\ r \in Sound) /\ credited[r] \in Nat
    BY <1>1, C2BAssumption DEF Init, ParkedRow, NoRow
  <2>3. ClaimApart(r) /\ VouchedFor(r) /\ NewBelow(r)
    BY <2>1, <2>2 DEF ClaimApart, VouchedFor, NewBelow
  <2>4. GivenOnce(r) /\ Agree(r) /\ GivenOut(r)
    BY <2>2 DEF GivenOnce, Agree, GivenOut, Open
  <2>5. QED
    BY <2>3, <2>4 DEF ReceiptOK
<1>4. QED
  BY <1>2, <1>3 DEF IInv

LEMMA NextInv == IInv /\ [Next]_vars => IInv'
<1> SUFFICES ASSUME IInv, [Next]_vars PROVE IInv'
  OBVIOUS
<1>1. ASSUME NEW h \in Handlers, NEW r \in Receipts, Handle(h, r) PROVE IInv'
  BY <1>1, ConfirmStep, InsertStep, AskStep, StoreStep, ResultStep, VerifyTimeoutStep,
     ParkStep, LookupStep, CreateStep, CreditStep, ResolveReadStep, ResolveCommitStep, ClaimReadStep,
     ClaimTakeStep, ClaimApplyStep, PutBackStep DEF Handle
<1>2. CASE UNCHANGED vars
  <2>1. \A s \in Receipts : Rows(s) /\ \A h \in Handlers : task'[h] = task[h]
    BY <1>2 DEF vars, Rows
  <2>2. \A s \in Receipts : ReceiptOK(s)'
    BY <2>1, Elsewhere DEF IInv
  <2>3. QED
    BY <1>2, <2>2 DEF vars, IInv, TypeOK
<1>3. QED
  BY <1>1, <1>2, FailStep, CrashStep, AsideStep, PromptStep, ParkStaleStep DEF Next

LEMMA Inductive == Spec => []IInv
  BY InitInv, NextInv, PTL DEF Spec

\* The tables and the requests always have values the code writes.
THEOREM TypesHold == Spec => []TypeOK
  BY Inductive, PTL DEF IInv

\* Any number of confirmations, answers, claims and staff at once give a
\* paybill payment out at most once (creditC2B, PlatformC2BUnmatchedResolve,
\* PaymentVerifyCode).
THEOREM GivesOutOnce == Spec => []CreditedOnce
<1>1. IInv => CreditedOnce
  BY DEF IInv, ReceiptOK, GivenOnce, CreditedOnce
<1>2. QED
  BY <1>1, Inductive, PTL

\* Ledger, queue and payments agree, and nothing is given out that nobody
\* vouches for (creditC2B, ParkC2B).
THEOREM TablesAgree == Spec => []BooksAgree
<1>1. IInv => BooksAgree
  BY DEF IInv, ReceiptOK, BooksAgree
<1>2. QED
  BY <1>1, Inductive, PTL

\* A resolved payment nobody was given is one whose claim is at it or died
\* (PaymentVerifyCode).
THEOREM ResolvedAccounted == Spec => []ResolvedGivenOut
<1>1. IInv => ResolvedGivenOut
  <2> SUFFICES ASSUME IInv, NEW r \in Receipts, queue[r].status = "resolved",
                      credited[r] = 0, r \notin died
               PROVE  \E h \in Handlers : Claiming(h, r)
    BY DEF ResolvedGivenOut
  <2>1. PICK h \in Handlers : On(h, r, {"apply", "putback"})
    BY DEF IInv, ReceiptOK, GivenOut
  <2>2. Claiming(h, r)
    BY <2>1, C2BAssumption DEF IInv, TypeOK, On, Claiming, Idle, Tasks
  <2>3. QED
    BY <2>2
<1>2. QED
  BY <1>1, Inductive, PTL

\* What a step decides it decides for good (ParkC2B, creditC2B), and a claim
\* puts a payment back only while nobody was given it (PaymentVerifyCode).
THEOREM NotDecidedAgain == Spec => DecidedStays
<1> DEFINE Stays == \A r \in Receipts :
       /\ book[r] \in {"credited", "parked"} => book'[r] = book[r]
       /\ queue[r].status = "resolved" /\ queue'[r].status = "pending" => credited[r] = 0
<1>1. ASSUME IInv, Next PROVE Stays
  <2> SUFFICES ASSUME NEW r \in Receipts
               PROVE  /\ book[r] \in {"credited", "parked"} => book'[r] = book[r]
                      /\ queue[r].status = "resolved" /\ queue'[r].status = "pending" => credited[r] = 0
    OBVIOUS
  <2>1. IInv /\ TypeOK /\ ReceiptOK(r)
    BY <1>1 DEF IInv
  <2>2. ASSUME NEW h \in Handlers, NEW s \in Receipts, Handle(h, s), book' # book
        PROVE  book[s] \notin {"credited", "parked"} /\ \A x \in Receipts \ {s} : book'[x] = book[x]
    BY <2>1, <2>2 DEF Handle, Confirm, Insert, Ask, Store, Result, VerifyTimeout, Park, ParkC2B,
       Parkable, Storable, Lookup, Create, Credit, ResolveRead, ResolveCommit, ClaimRead, ClaimTake, ClaimApply,
       PutBack, Open, TypeOK
  <2>3. ASSUME NEW s \in Receipts, ParkStale(s), book' # book
        PROVE  book[s] \notin {"credited", "parked"} /\ \A x \in Receipts \ {s} : book'[x] = book[x]
    BY <2>1, <2>3 DEF ParkStale, ParkC2B, Parkable, Open, TypeOK
  <2>4. book[r] \in {"credited", "parked"} => book'[r] = book[r]
    BY <1>1, <2>2, <2>3 DEF Next, Fail, Grow, StkQuery, StkCallback, LoadStale, Crash
  <2>5. ASSUME queue[r].status = "resolved", queue'[r].status = "pending"
        PROVE  \E h \in Handlers : PutBack(h, r)
    <3>1. \A s \in Receipts : ParkC2B(s) => queue'[r].status = "resolved"
      BY <1>1, <2>1, <2>5 DEF ParkC2B, Parkable, TypeOK, ReceiptOK, Agree, IInv
    <3>2. \A h \in Handlers, s \in Receipts : Credit(h, s) => queue'[r].status = "resolved"
      BY <1>1, <2>1, <2>5 DEF Credit, TypeOK, ReceiptOK, Agree, IInv
    <3>3. \A h \in Handlers, s \in Receipts :
            ResolveCommit(h, s) \/ ClaimTake(h, s) => queue'[r].status = "resolved"
      BY <2>1, <2>5 DEF ResolveCommit, ClaimTake, TypeOK
    <3>4. \A h \in Handlers, s \in Receipts : PutBack(h, s) => s = r
      BY <2>1, <2>5 DEF PutBack, TypeOK
    <3>5. ASSUME NEW h \in Handlers, NEW s \in Receipts, Handle(h, s)
          PROVE  PutBack(h, r)
      <4>1. queue' # queue
        BY <2>5
      <4>2. PutBack(h, s)
        BY <2>5, <3>1, <3>2, <3>3, <3>5, <4>1 DEF Handle, Confirm, Insert, Ask, Store, Result,
           VerifyTimeout, Park, Lookup, Create, ResolveRead, ClaimRead, ClaimApply
      <4>3. QED
        BY <3>4, <4>2
    <3>6. ASSUME NEW s \in Receipts, ParkStale(s) PROVE FALSE
      BY <2>5, <3>1, <3>6 DEF ParkStale
    <3>7. QED
      BY <1>1, <2>5, <3>5, <3>6 DEF Next, Fail, Grow, StkQuery, StkCallback, LoadStale, Crash
  <2>6. \A h \in Handlers : PutBack(h, r) => credited[r] = 0
    BY <2>1 DEF PutBack, ReceiptOK, ClaimApart, On
  <2>7. QED
    BY <2>4, <2>5, <2>6
<1>2. IInv /\ [Next]_vars => [Stays]_vars
  BY <1>1
<1>3. QED
  BY <1>2, Inductive, PTL DEF Spec, DecidedStays

-----------------------------------------------------------------------------
(* C2B implements ReceiptBook. *)

LEMMA Fates ==
  /\ FateOf(0, "none") = "open" /\ FateOf(0, "pending") = "waiting"
  /\ FateOf(0, "resolved") = "waiting"
  /\ FateOf(1, "none") = "given" /\ FateOf(1, "resolved") = "given"
BY DEF FateOf

\* A step about r changes nobody else's fate.
LEMMA FateElsewhere ==
  ASSUME TypeOK, NEW r \in Receipts,
         \A s \in Receipts \ {r} : queue'[s] = queue[s] /\ credited'[s] = credited[s]
  PROVE  /\ Fate' = [Fate EXCEPT ![r] = FateOf(credited'[r], queue'[r].status)]
         /\ Fate[r] = FateOf(credited[r], queue[r].status)
BY DEF Fate

\* The book sees no step that leaves r's fate and the payments alone.
LEMMA BookStutters ==
  ASSUME TypeOK, NEW r \in Receipts, UNCHANGED paid,
         \A s \in Receipts \ {r} : queue'[s] = queue[s] /\ credited'[s] = credited[s],
         FateOf(credited'[r], queue'[r].status) = FateOf(credited[r], queue[r].status)
  PROVE  UNCHANGED Receipt!vars
<1>1. Fate' = Fate
  BY FateElsewhere DEF Fate
<1>2. QED
  BY <1>1 DEF Receipt!vars

LEMMA GiveBook ==
  ASSUME TypeOK, NEW r \in Receipts, r \in Sound, paid' = paid \cup {r},
         \A s \in Receipts \ {r} : queue'[s] = queue[s] /\ credited'[s] = credited[s],
         credited[r] = 0, credited'[r] = 1, queue'[r].status \in {"none", "resolved"}
  PROVE  Receipt!Next
<1>1. Fate[r] \in {"open", "waiting"} /\ Fate' = [Fate EXCEPT ![r] = "given"]
  BY Fates, FateElsewhere DEF TypeOK
<1>2. Receipt!Give(r)
  BY <1>1 DEF Receipt!Give, Receipt!Decide
<1>3. QED
  BY <1>2 DEF Receipt!Next

\* An open row enters the queue: the receipt waits from now on.
LEMMA WaitBook ==
  ASSUME TypeOK, NEW r \in Receipts, UNCHANGED paid,
         \A s \in Receipts \ {r} : queue'[s] = queue[s] /\ credited'[s] = credited[s],
         credited[r] = 0, credited'[r] = 0,
         queue[r].status = "none", queue'[r].status = "pending"
  PROVE  Receipt!Next
<1>1. Fate[r] = "open" /\ Fate' = [Fate EXCEPT ![r] = "waiting"]
  BY Fates, FateElsewhere
<1>2. Receipt!Wait(r)
  BY <1>1 DEF Receipt!Wait, Receipt!Decide
<1>3. QED
  BY <1>2 DEF Receipt!Next

\* Parking and crediting meet an open row that has moved nothing.
LEMMA OpenRow ==
  ASSUME IInv, NEW r \in Receipts, book[r] \in Open
  PROVE  queue[r].status = "none" /\ credited[r] = 0
BY DEF IInv, ReceiptOK, Agree, GivenOnce

LEMMA ParkBook ==
  ASSUME IInv, NEW r \in Receipts, ParkC2B(r), UNCHANGED <<paid, credited>>
  PROVE  Receipt!Next \/ UNCHANGED Receipt!vars
<1>0. TypeOK
  BY DEF IInv
<1>1. CASE book[r] \in Open
  <2>1. queue' = [queue EXCEPT ![r] = ParkedRow]
    BY <1>1, OpenRow DEF ParkC2B, Parkable
  <2>2. queue'[r].status = "pending" /\ \A s \in Receipts \ {r} : queue'[s] = queue[s]
    BY <1>0, <2>1 DEF TypeOK, ParkedRow
  <2>3. QED
    BY <1>0, <1>1, <2>2, OpenRow, WaitBook
<1>2. CASE book[r] \notin Open
  BY <1>0, <1>2, BookStutters DEF ParkC2B, Parkable
<1>3. QED
  BY <1>1, <1>2

LEMMA CreditBook ==
  ASSUME IInv, NEW h \in Handlers, NEW r \in Receipts, Credit(h, r)
  PROVE  Receipt!Next \/ UNCHANGED Receipt!vars
<1>0. TypeOK /\ r \in Sound
  BY DEF IInv, ReceiptOK, VouchedFor, Credit, At, On
<1>1. CASE book[r] \notin Open
  BY <1>0, <1>1, BookStutters DEF Credit
<1>2. CASE book[r] \in Open /\ task[h].who = Nobody
  <2>1. queue' = [queue EXCEPT ![r] = VerifiedRow] /\ UNCHANGED <<paid, credited>>
    BY <1>2 DEF Credit
  <2>2. queue'[r].status = "pending" /\ \A s \in Receipts \ {r} : queue'[s] = queue[s]
    BY <1>0, <2>1 DEF TypeOK, VerifiedRow
  <2>3. QED
    BY <1>0, <1>2, <2>1, <2>2, OpenRow, WaitBook
<1>3. CASE book[r] \in Open /\ task[h].who # Nobody
  <2>1. UNCHANGED queue /\ credited' = [credited EXCEPT ![r] = @ + 1]
                        /\ paid' = paid \cup {r}
    BY <1>3 DEF Credit
  <2>2. credited'[r] = 1 /\ \A s \in Receipts \ {r} : credited'[s] = credited[s]
    BY <1>0, <1>3, <2>1, OpenRow DEF TypeOK
  <2>3. QED
    BY <1>0, <1>3, <2>1, <2>2, OpenRow, GiveBook
<1>4. QED
  BY <1>1, <1>2, <1>3

LEMMA ResolveCommitBook ==
  ASSUME IInv, NEW h \in Handlers, NEW r \in Receipts, ResolveCommit(h, r)
  PROVE  Receipt!Next \/ UNCHANGED Receipt!vars
<1>0. TypeOK /\ r \in Sound
  BY DEF IInv, ReceiptOK, VouchedFor, ResolveCommit, On
<1>1. CASE queue[r].status # "pending"
  BY <1>0, <1>1, BookStutters DEF ResolveCommit
<1>2. CASE queue[r].status = "pending"
  <2>1. /\ queue' = [queue EXCEPT ![r].status = "resolved"]
        /\ credited' = [credited EXCEPT ![r] = @ + 1] /\ paid' = paid \cup {r}
    BY <1>2 DEF ResolveCommit
  <2>2. credited[r] = 0
    BY <1>2 DEF IInv, ReceiptOK, GivenOnce
  <2>3. /\ credited'[r] = 1 /\ queue'[r].status = "resolved"
        /\ \A s \in Receipts \ {r} : queue'[s] = queue[s] /\ credited'[s] = credited[s]
    BY <1>0, <2>1, <2>2 DEF TypeOK
  <2>4. QED
    BY <1>0, <2>1, <2>2, <2>3, GiveBook
<1>3. QED
  BY <1>1, <1>2

\* A claim's take and its put-back leave the receipt waiting; its second write
\* gives it out.
LEMMA ClaimBook ==
  ASSUME IInv, NEW h \in Handlers, NEW r \in Receipts,
         ClaimTake(h, r) \/ ClaimApply(h, r) \/ PutBack(h, r)
  PROVE  Receipt!Next \/ UNCHANGED Receipt!vars
<1>0. TypeOK
  BY DEF IInv
<1>1. CASE ClaimTake(h, r)
  <2>1. CASE queue[r].status # "pending"
    BY <1>0, <1>1, <2>1, BookStutters DEF ClaimTake
  <2>2. CASE queue[r].status = "pending"
    <3>1. queue' = [queue EXCEPT ![r].status = "resolved"] /\ UNCHANGED <<paid, credited>>
      BY <1>1, <2>2 DEF ClaimTake
    <3>2. credited[r] = 0
      BY <2>2 DEF IInv, ReceiptOK, GivenOnce
    <3>3. queue'[r].status = "resolved" /\ \A s \in Receipts \ {r} : queue'[s] = queue[s]
      BY <1>0, <3>1 DEF TypeOK
    <3>4. QED
      BY <1>0, <2>2, <3>1, <3>2, <3>3, Fates, BookStutters
  <2>3. QED
    BY <2>1, <2>2
<1>2. CASE ClaimApply(h, r)
  <2>1. On(h, r, {"apply", "putback"}) /\ On(h, r, {"apply"})
    BY <1>2 DEF ClaimApply, On
  <2>2. queue[r].status = "resolved" /\ credited[r] = 0 /\ r \in Sound
    BY <2>1 DEF IInv, ReceiptOK, ClaimApart, VouchedFor, On
  <2>3. /\ credited' = [credited EXCEPT ![r] = @ + 1]
        /\ paid' = paid \cup {r} /\ UNCHANGED queue
    BY <1>2 DEF ClaimApply
  <2>4. credited'[r] = 1 /\ \A s \in Receipts \ {r} : credited'[s] = credited[s]
    BY <1>0, <2>2, <2>3 DEF TypeOK
  <2>5. QED
    BY <1>0, <2>2, <2>3, <2>4, GiveBook
<1>3. CASE PutBack(h, r)
  <2>1. On(h, r, {"apply", "putback"})
    BY <1>3 DEF PutBack, On
  <2>2. queue[r].status = "resolved" /\ credited[r] = 0
    BY <2>1 DEF IInv, ReceiptOK, ClaimApart
  <2>3. queue' = [queue EXCEPT ![r].status = "pending"] /\ UNCHANGED <<paid, credited>>
    BY <1>3 DEF PutBack
  <2>4. queue'[r].status = "pending" /\ \A s \in Receipts \ {r} : queue'[s] = queue[s]
    BY <1>0, <2>3 DEF TypeOK
  <2>5. QED
    BY <1>0, <2>2, <2>3, <2>4, Fates, BookStutters
<1>4. QED
  BY <1>1, <1>2, <1>3

LEMMA StillBook ==
  ASSUME UNCHANGED <<queue, credited, paid>>
  PROVE  UNCHANGED Receipt!vars
BY DEF Receipt!vars, Fate

\* A prompt's callback records the receipt of a payment that is no paybill
\* payment, or of one already recorded.
LEMMA StkCallbackBook ==
  ASSUME NEW r \in Receipts, StkCallback(r)
  PROVE  Receipt!Next \/ UNCHANGED Receipt!vars
<1>1. UNCHANGED <<queue, credited>> /\ paid' = paid \cup {r}
  BY DEF StkCallback
<1>2. Fate' = Fate
  BY <1>1 DEF Fate
<1>3. CASE r \in paid
  <2>1. paid' = paid
    BY <1>1, <1>3
  <2>2. QED
    BY <1>2, <2>1 DEF Receipt!vars
<1>4. CASE r \notin paid
  BY <1>1, <1>2, <1>4 DEF Receipt!Next, Receipt!Name
<1>5. QED
  BY <1>3, <1>4

\* Every step of C2B is one of the book, or none.
LEMMA StepBook ==
  ASSUME IInv, [Next]_vars
  PROVE  [Receipt!Next]_(Receipt!vars)
<1> SUFFICES Receipt!Next \/ UNCHANGED Receipt!vars
  OBVIOUS
<1>1. ASSUME NEW h \in Handlers, NEW r \in Receipts, Handle(h, r)
      PROVE  Receipt!Next \/ UNCHANGED Receipt!vars
  <2>1. CASE Park(h, r)
    BY <2>1, ParkBook DEF Park
  <2>2. CASE \/ Confirm(h, r) \/ Insert(h, r) \/ Ask(h, r) \/ Store(h, r)
             \/ Result(h, r) \/ VerifyTimeout(h, r) \/ Lookup(h, r) \/ Create(h, r)
             \/ ResolveRead(h, r) \/ ClaimRead(h, r)
    <3>1. UNCHANGED <<queue, credited, paid>>
      BY <2>2 DEF Confirm, Insert, Ask, Store, Result, VerifyTimeout, Lookup, Create,
         ResolveRead, ClaimRead
    <3>2. QED
      BY <3>1, StillBook
  <2>3. QED
    BY <1>1, <2>1, <2>2, CreditBook, ResolveCommitBook, ClaimBook DEF Handle
<1>2. ASSUME NEW r \in Receipts, ParkStale(r)
      PROVE  Receipt!Next \/ UNCHANGED Receipt!vars
  BY <1>2, ParkBook DEF ParkStale
<1>3. CASE UNCHANGED <<queue, credited, paid>>
  BY <1>3, StillBook
<1>4. QED
  BY <1>1, <1>2, <1>3, StkCallbackBook DEF Next, Fail, Grow, StkQuery, LoadStale, Crash, vars

\* However confirmations, answers, the job, staff, claims, failures and crashes
\* overlap, a paybill receipt waits once, is given out once and only if it is
\* vouched for: any number of them implement the book of receipts.
THEOREM ImplementsBook == Spec => C2BReceiptSpec
<1>1. Init => Receipt!Init
  <2> SUFFICES ASSUME Init PROVE Receipt!Init
    OBVIOUS
  <2>1. IInv
    BY InitInv
  <2>2. \A r \in Receipts : queue[r].status \in {"none", "pending"} /\ credited[r] \in {0, 1}
    BY DEF Init, ParkedRow, NoRow
  <2>3. \A r \in Receipts : credited[r] = 1 => queue[r].status = "none" /\ r \in Sound \cap paid
    BY <2>1, <2>2 DEF IInv, ReceiptOK, GivenOnce, Agree
  <2>4. \A r \in Receipts :
          \/ Fate[r] \in {"open", "waiting"} /\ credited[r] = 0
          \/ Fate[r] = "given" /\ credited[r] = 1
    BY <2>2, <2>3, Fates DEF Fate
  <2>5. Sound \subseteq Receipts /\ paid \subseteq Receipts
    BY <2>1, C2BAssumption DEF IInv, TypeOK
  <2>6. Fate \in [Receipts -> {"open", "waiting", "given"}]
    BY <2>4 DEF Fate
  <2>7. QED
    BY <2>3, <2>4, <2>5, <2>6 DEF Receipt!Init
<1>2. IInv /\ [Next]_vars => [Receipt!Next]_(Receipt!vars)
  BY StepBook
<1>3. QED
  BY <1>1, <1>2, Inductive, PTL DEF Spec, C2BReceiptSpec, Receipt!Spec
=============================================================================
