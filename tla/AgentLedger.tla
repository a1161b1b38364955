---------------------------- MODULE AgentLedger ----------------------------
(***************************************************************************)
(* The agent cash ledger of services/agent_ledger.go.  An ISP issues       *)
(* vouchers to resellers ("agents"); an agent's balance is the sum of      *)
(* their ledger entries.  Every write is one READ COMMITTED transaction    *)
(* that locks the agent's row, looks its idempotency key up, reads, and    *)
(* then writes its entries and its key.  A transaction is modelled in the  *)
(* steps between which others can interleave: the Start of an operation    *)
(* (lock, replay lookup, reads), the row locks a return or a redemption    *)
(* takes one by one, and Commit, where all it wrote becomes visible.       *)
(* All agents belong to one ISP.                                           *)
(***************************************************************************)
EXTENDS Integers, FiniteSets, Functions

CONSTANTS
  Agents,         \* agents of the ISP
  Vouchers,       \* voucher ids, handed out in increasing order
  Keys,           \* idempotency keys; each bounds one committed write
  Requests,       \* requests the server runs at the same time
  Terms,          \* agent profiles AgentUpdate may set
  Faces,          \* package prices, in cents
  HandoverAmounts,
  AdjustmentAmounts,
  Refs,           \* M-Pesa confirmation codes
  MaxAgentBatch,  \* vouchers in one issue
  None            \* an absent value (SQL NULL, cash has no code)

\* What applyAgentBody lets through: a percentage counts hundredths of one
\* per cent and stops at the whole price, a fixed commission has no ceiling.
Profile ==
  {t \in [status : {"active", "inactive"}, limit : Nat,
          ctype : {"percent", "fixed"}, value : Nat] :
     t.ctype = "percent" => t.value <= 10000}

ASSUME LedgerAssumption ==
  /\ Vouchers \subseteq Nat /\ IsFiniteSet(Vouchers)  \* rows of a table
  /\ Terms \subseteq Profile
  /\ Terms # {}
  /\ Faces \subseteq Nat
  /\ HandoverAmounts \subseteq Nat \ {0}
  /\ AdjustmentAmounts \subseteq Int \ {0}
  /\ MaxAgentBatch \in Nat
  /\ None \notin Agents \cup Keys \cup Refs

VARIABLES
  agent,    \* agents: status, credit limit and commission terms
  voucher,  \* vouchers.status, "absent" while the row does not exist
  holding,  \* agent_vouchers: the row of each voucher, or None
  ledger,   \* agent_ledger_entries
  idem,     \* agent_idempotency_keys, with the funding of the batch
  req       \* what each running request holds locked and has yet to commit

vars == <<agent, voucher, holding, ledger, idem, req>>

-----------------------------------------------------------------------------
EntryTypes == {"issue", "commission", "return", "commission_reversal",
               "handover", "adjustment", "reversal"}
Operations == {"issue", "return", "handover", "adjustment", "reversal"}
Fundings   == {"credit", "float", "upfront"}

\* An entry is known by the key of its request and its type: a request
\* writes at most one entry of each type.
EntryIds == Keys \X EntryTypes

Entry == [key : Keys, type : EntryTypes, agent : Agents, amount : Int,
          ref : Refs \cup {None}, reverses : EntryIds \cup {None},
          vouchers : SUBSET Vouchers]

Holding == [agent : Agents, batch : Keys, face : Nat, comm : Nat,
            status : {"issued", "sold", "returned"}]

KeyRow == [op : Operations, agent : Agents, funding : Fundings \cup {None}]

ASSUME NoneIsNoRow == None \notin Holding \cup KeyRow \cup EntryIds

Id(e) == <<e.key, e.type>>

\* A transaction: what it does for whom, the vouchers it is creating and at
\* what price, those it has yet to claim, the rows of vouchers and of
\* agent_vouchers it has locked, and the entries it will write.
Tx(op, a, k, funding, stock, face, comm, todo, rows, avs, entries) ==
  [op |-> op, agent |-> a, key |-> k, funding |-> funding, stock |-> stock,
   face |-> face, comm |-> comm, todo |-> todo, rows |-> rows, avs |-> avs,
   entries |-> entries]

NoRequest ==
  Tx("none", None, None, None, {}, 0, 0, {}, {}, {}, {})
IssueTx(a, k, funding, vs, face, comm, entries) ==
  Tx("issue", a, k, funding, vs, face, comm, {}, {}, {}, entries)
ReturnTx(a, k, face, comm, todo, rows, avs) ==
  Tx("return", a, k, None, {}, face, comm, todo, rows, avs, {})
EntryTx(op, e) ==
  Tx(op, e.agent, e.key, None, {}, 0, 0, {}, {}, {}, {e})
RedeemTx(v) ==
  Tx("redeem", None, None, None, {}, 0, 0, {}, {v}, {}, {})

Request == [op : Operations \cup {"none", "redeem"},
            agent : Agents \cup {None}, key : Keys \cup {None},
            funding : Fundings \cup {None},
            stock : SUBSET Vouchers, face : Nat, comm : Nat,
            todo : SUBSET Vouchers, rows : SUBSET Vouchers,
            avs : SUBSET Vouchers, entries : SUBSET Entry]

-----------------------------------------------------------------------------
EntriesOf(a) == {e \in ledger : e.agent = a}
SumAmounts(S) == SumFunction([e \in S |-> e.amount])

\* AgentBalance: what the agent owes; negative is prepaid float.
Balance(a) == SumAmounts(EntriesOf(a))

IsReversed(e) == \E r \in ledger : r.reverses = Id(e)

\* The count RecordHandover refuses a code on.
RefRecorded(r) ==
  \E e \in ledger : e.type = "handover" /\ e.ref = r /\ ~IsReversed(e)

\* Basis points rounded half up, or a fixed amount, within 0..face.
CommissionFor(t, face) ==
  LET c == IF t.ctype = "fixed" THEN t.value
                                ELSE (face * t.value + 5000) \div 10000
  IN  IF c > face THEN face ELSE c

\* Mutant: lockAgent without FOR UPDATE.
AgentFreeUnlocked(a) == TRUE

\* The agent's row is locked by no running transaction.
AgentFree(a) == \A q \in Requests : req[q].agent # a

\* Mutant: the voucher row is read without a lock.
VoucherRowFreeUnlocked(p, v) == TRUE

VoucherRowFree(p, v) == \A q \in Requests \ {p} : v \notin req[q].rows
HoldingRowFree(p, v) == \A q \in Requests \ {p} : v \notin req[q].avs

\* Codes no committed or running transaction has created.
Fresh == {v \in Vouchers : /\ voucher[v] = "absent"
                           /\ \A q \in Requests : v \notin req[q].stock}

Line(k, type, a, amount, ref, reverses, vs) ==
  [key |-> k, type |-> type, agent |-> a, amount |-> amount, ref |-> ref,
   reverses |-> reverses, vouchers |-> vs]

-----------------------------------------------------------------------------
Init ==
  /\ agent \in [Agents -> Terms]
  /\ voucher = [v \in Vouchers |-> "absent"]
  /\ holding = [v \in Vouchers |-> None]
  /\ ledger = {}
  /\ idem = [k \in Keys |-> None]
  /\ req = [p \in Requests |-> NoRequest]

\* runIdempotent up to fn: the row lock is granted and the key is unused.
\* A used key replays the first result or is refused; neither writes.
Begin(p, a, k) ==
  /\ req[p] = NoRequest
  /\ AgentFree(a)
  /\ idem[k] = None

IssueEntries(a, k, vs, face, comm, funding, ref) ==
  LET n   == Cardinality(vs)
      net == n * (face - comm)
  IN  {Line(k, "issue", a, n * face, None, None, vs)}
        \cup (IF comm > 0
                THEN {Line(k, "commission", a, -(n * comm), None, None, vs)}
                ELSE {})
        \cup (IF funding = "upfront" /\ net > 0
                THEN {Line(k, "handover", a, -net, ref, None, vs)}
                ELSE {})

\* What IssueToAgent requires of the balance it reads under the lock.
Funded(a, net, funding) ==
  CASE funding = "credit"  -> Balance(a) + net <= agent[a].limit
    [] funding = "float"   -> Balance(a) + net <= 0
    [] funding = "upfront" -> TRUE

StartIssue(p, a, k, n, face, funding, ref) ==
  LET comm == CommissionFor(agent[a], face) IN
  /\ Begin(p, a, k)
  /\ agent[a].status = "active"
  /\ face > 0
  /\ Funded(a, n * (face - comm), funding)
  /\ \E vs \in SUBSET Fresh :
       /\ Cardinality(vs) = n
       /\ \A v \in vs, w \in Fresh \ vs : v < w
       /\ req' = [req EXCEPT ![p] =
                   IssueTx(a, k, funding, vs, face, comm,
                           IssueEntries(a, k, vs, face, comm, funding, ref))]
  /\ UNCHANGED <<agent, voucher, holding, ledger, idem>>

HeldBy(a) == {v \in Vouchers : holding[v] # None /\ holding[v].agent = a}

\* The rows a return reads, without locking them: the vouchers it lists,
\* which the agent must all hold, or what is unsold of a batch.
Listed(a, vs) == IF vs \subseteq HeldBy(a) THEN vs ELSE {}
OfBatch(a, b) == {v \in HeldBy(a) : /\ holding[v].batch = b
                                    /\ holding[v].status = "issued"}

StartReturn(p, a, k, held) ==
  /\ Begin(p, a, k)
  /\ held # {}
  /\ \A v \in held : holding[v].status = "issued"
  /\ req' = [req EXCEPT ![p] = ReturnTx(a, k, 0, 0, held, {}, {})]
  /\ UNCHANGED <<agent, voucher, holding, ledger, idem>>

\* The voucher a return is working on: it takes them in the order of id.
Current(p) == {v \in req[p].todo : \A w \in req[p].todo : v <= w}

\* The conditional UPDATE of vouchers waits for the row's lock and then
\* voids the voucher if it is still unused.
ClaimVoucher(p) ==
  \E v \in Current(p) :
    /\ v \notin req[p].rows
    /\ VoucherRowFree(p, v)
    /\ voucher[v] = "unused"
    /\ LET r == req[p] IN
       req' = [req EXCEPT ![p] =
                 ReturnTx(r.agent, r.key, r.face, r.comm,
                          r.todo, r.rows \cup {v}, r.avs)]
    /\ UNCHANGED <<agent, voucher, holding, ledger, idem>>

\* Mutant: the commission given back is the one the agent earns today.
ClaimHoldingAtTodaysRate(p) ==
  \E v \in Current(p) :
    /\ v \in req[p].rows
    /\ HoldingRowFree(p, v)
    /\ holding[v].status = "issued"
    /\ LET r == req[p]
           comm == CommissionFor(agent[r.agent], holding[v].face) IN
       req' = [req EXCEPT ![p] =
                 ReturnTx(r.agent, r.key,
                          r.face + holding[v].face, r.comm + comm,
                          r.todo \ {v}, r.rows, r.avs \cup {v})]
    /\ UNCHANGED <<agent, voucher, holding, ledger, idem>>

\* The conditional UPDATE of agent_vouchers, second; the loop adds up what
\* the voucher was charged at.
ClaimHolding(p) ==
  \E v \in Current(p) :
    /\ v \in req[p].rows
    /\ HoldingRowFree(p, v)
    /\ holding[v].status = "issued"
    /\ LET r == req[p] IN
       req' = [req EXCEPT ![p] =
                 ReturnTx(r.agent, r.key,
                          r.face + holding[v].face, r.comm + holding[v].comm,
                          r.todo \ {v}, r.rows, r.avs \cup {v})]
    /\ UNCHANGED <<agent, voucher, holding, ledger, idem>>

\* Mutant: a return takes the agent_vouchers row of a voucher first.
ClaimHoldingFirst(p) ==
  \E v \in Current(p) :
    /\ \/ /\ v \notin req[p].avs /\ HoldingRowFree(p, v)
          /\ holding[v].status = "issued"
          /\ req' = [req EXCEPT ![p].avs = @ \cup {v}]
       \/ /\ v \in req[p].avs /\ VoucherRowFree(p, v)
          /\ voucher[v] = "unused"
          /\ req' = [req EXCEPT ![p].rows = @ \cup {v}, ![p].todo = @ \ {v},
                                ![p].face = @ + holding[v].face,
                                ![p].comm = @ + holding[v].comm]
    /\ UNCHANGED <<agent, voucher, holding, ledger, idem>>

\* The two UPDATEs of a voucher, in the order a redemption locks the rows in.
Claim(p) == ClaimVoucher(p) \/ ClaimHolding(p)

\* Either UPDATE matches no row: the whole return is rolled back.
RefuseReturn(p) ==
  \E v \in Current(p) :
    /\ IF v \in req[p].rows
         THEN HoldingRowFree(p, v) /\ holding[v].status # "issued"
         ELSE VoucherRowFree(p, v) /\ voucher[v] # "unused"
    /\ req' = [req EXCEPT ![p] = NoRequest]
    /\ UNCHANGED <<agent, voucher, holding, ledger, idem>>

\* RecordHandover, RecordAdjustment and ReverseEntry write one entry.
StartEntry(p, op, e) ==
  /\ Begin(p, e.agent, e.key)
  /\ req' = [req EXCEPT ![p] = EntryTx(op, e)]
  /\ UNCHANGED <<agent, voucher, holding, ledger, idem>>

StartHandover(p, a, k, amount, ref) ==
  /\ ref # None => ~RefRecorded(ref)
  /\ StartEntry(p, "handover",
                Line(k, "handover", a, -amount, ref, None, {}))

StartAdjustment(p, a, k, amount) ==
  StartEntry(p, "adjustment", Line(k, "adjustment", a, amount, None, None, {}))

\* Mutant: any entry can be reversed.
StartReversalOfAnything(p, a, k, orig) ==
  /\ orig.agent = a
  /\ ~IsReversed(orig)
  /\ StartEntry(p, "reversal",
                Line(k, "reversal", a, -orig.amount, orig.ref, Id(orig), {}))

StartReversal(p, a, k, orig) ==
  /\ orig.agent = a
  /\ orig.type \in {"handover", "adjustment"}
  /\ ~IsReversed(orig)
  /\ StartEntry(p, "reversal",
                Line(k, "reversal", a, -orig.amount, orig.ref, Id(orig), {}))

\* The two entries of a return: face values off, commissions back on.
ReturnEntries(r) ==
  {Line(r.key, "return", r.agent, -r.face, None, None, r.avs)}
    \cup (IF r.comm > 0
            THEN {Line(r.key, "commission_reversal", r.agent, r.comm,
                       None, None, r.avs)}
            ELSE {})

Writes(p) ==
  IF req[p].op = "return" THEN ReturnEntries(req[p]) ELSE req[p].entries

\* Mutant: no unique index on the idempotency key.
UniqueReversalOnly(p) ==
  \A e \in Writes(p) :
    e.reverses # None => \A r \in ledger : r.reverses # e.reverses

\* The unique indexes: idempotency key, and reverses_id.
Unique(p) ==
  /\ idem[req[p].key] = None
  /\ \A e \in Writes(p) :
       e.reverses # None => \A r \in ledger : r.reverses # e.reverses

\* saveKey and COMMIT: everything the transaction wrote becomes visible.
Commit(p) ==
  LET r == req[p] IN
  /\ r.op \in Operations
  /\ r.todo = {}
  /\ Unique(p)
  /\ voucher' = [v \in Vouchers |-> IF v \in r.stock THEN "unused"
                                    ELSE IF v \in r.rows THEN "void"
                                    ELSE voucher[v]]
  /\ holding' = [v \in Vouchers |->
                   IF v \in r.stock
                     THEN [agent |-> r.agent, batch |-> r.key, face |-> r.face,
                           comm |-> r.comm, status |-> "issued"]
                   ELSE IF v \in r.avs
                     THEN [holding[v] EXCEPT !.status = "returned"]
                   ELSE holding[v]]
  /\ ledger' = ledger \cup Writes(p)
  /\ idem' = [idem EXCEPT ![r.key] = [op |-> r.op, agent |-> r.agent,
                                      funding |-> r.funding]]
  /\ req' = [req EXCEPT ![p] = NoRequest]
  /\ UNCHANGED agent

\* A unique index refuses the write: the transaction is rolled back and the
\* other request's result, or the error, is returned.
LoseKeyRace(p) ==
  /\ req[p].op \in Operations
  /\ req[p].todo = {}
  /\ ~Unique(p)
  /\ req' = [req EXCEPT ![p] = NoRequest]
  /\ UNCHANGED <<agent, voucher, holding, ledger, idem>>

\* A database error, a deadlock victim or a crash of the server.
Abort(p) ==
  /\ req[p].op # "none"
  /\ req' = [req EXCEPT ![p] = NoRequest]
  /\ UNCHANGED <<agent, voucher, holding, ledger, idem>>

\* Redeem: SELECT ... FOR UPDATE on the voucher row, then the checks.
RedeemLock(p, v) ==
  /\ req[p] = NoRequest
  /\ VoucherRowFree(p, v)
  /\ voucher[v] = "unused"
  /\ req' = [req EXCEPT ![p] = RedeemTx(v)]
  /\ UNCHANGED <<agent, voucher, holding, ledger, idem>>

\* The single-use voucher is depleted and MarkAgentVoucherSold takes the
\* agent_vouchers row, in the same transaction.
RedeemCommit(p) ==
  /\ req[p].op = "redeem"
  /\ \E v \in req[p].rows :
       /\ HoldingRowFree(p, v)
       /\ voucher' = [voucher EXCEPT ![v] = "depleted"]
       /\ holding' = IF holding[v] # None /\ holding[v].status = "issued"
                       THEN [holding EXCEPT ![v].status = "sold"]
                       ELSE holding
  /\ req' = [req EXCEPT ![p] = NoRequest]
  /\ UNCHANGED <<agent, ledger, idem>>

\* The vouchers of the ISP that no agent holds: generated one by one, and
\* deleted only while no agent_vouchers row names them.
VoucherGenerate(v) ==
  /\ v \in Fresh
  /\ \A w \in Fresh : v <= w
  /\ voucher' = [voucher EXCEPT ![v] = "unused"]
  /\ UNCHANGED <<agent, holding, ledger, idem, req>>

VoucherDestroy(v) ==
  /\ voucher[v] \notin {"absent", "deleted"}
  /\ holding[v] = None
  /\ \A q \in Requests : v \notin req[q].rows
  /\ voucher' = [voucher EXCEPT ![v] = "deleted"]
  /\ UNCHANGED <<agent, holding, ledger, idem, req>>

\* AgentUpdate rewrites the profile in one UPDATE, which waits for the row.
AgentUpdate(a, t) ==
  /\ AgentFree(a)
  /\ agent' = [agent EXCEPT ![a] = t]
  /\ UNCHANGED <<voucher, holding, ledger, idem, req>>

-----------------------------------------------------------------------------
Issue(p) ==
  \E a \in Agents, k \in Keys, n \in 1..MaxAgentBatch, face \in Faces,
     funding \in Fundings, ref \in Refs \cup {None} :
       /\ funding # "upfront" => ref = None
       /\ StartIssue(p, a, k, n, face, funding, ref)

Return(p) ==
  \E a \in Agents, k \in Keys :
    \/ \E vs \in SUBSET Vouchers : StartReturn(p, a, k, Listed(a, vs))
    \/ \E b \in Keys : StartReturn(p, a, k, OfBatch(a, b))

Record(p) ==
  \E a \in Agents, k \in Keys :
    \/ \E amount \in HandoverAmounts, ref \in Refs \cup {None} :
         StartHandover(p, a, k, amount, ref)
    \/ \E amount \in AdjustmentAmounts : StartAdjustment(p, a, k, amount)
    \/ \E orig \in ledger : StartReversal(p, a, k, orig)

\* What a running request does next without outside help.
Proceed(p) ==
  \/ Claim(p) \/ RefuseReturn(p)
  \/ Commit(p) \/ LoseKeyRace(p) \/ RedeemCommit(p)

Next ==
  \/ \E p \in Requests :
       \/ Issue(p) \/ Return(p) \/ Record(p)
       \/ \E v \in Vouchers : RedeemLock(p, v)
       \/ Proceed(p) \/ Abort(p)
  \/ \E v \in Vouchers : VoucherGenerate(v) \/ VoucherDestroy(v)
  \/ \E a \in Agents, t \in Terms : AgentUpdate(a, t)

Spec == Init /\ [][Next]_vars

\* A handler runs to its end unless the server dies, and a transaction that
\* waits for a row lock is granted it in its turn: others that keep taking
\* and releasing the row cannot pass it for ever.
FairSpec == Spec /\ \A p \in Requests : SF_vars(Proceed(p))

-----------------------------------------------------------------------------
\* Type invariant of the tables and of the running transactions.
TypeOK ==
  /\ agent \in [Agents -> Terms]
  /\ voucher \in [Vouchers -> {"absent", "unused", "depleted", "void", "deleted"}]
  /\ holding \in [Vouchers -> Holding \cup {None}]
  /\ ledger \subseteq Entry
  /\ idem \in [Keys -> KeyRow \cup {None}]
  /\ req \in [Requests -> Request]

\* UnsoldNetCents and CashDueCents of AgentSummaries: what the agent owes for
\* vouchers still unsold, and the cash they should hold from sold ones.
Net(v) == holding[v].face - holding[v].comm
HeldAs(a, status) == {v \in HeldBy(a) : holding[v].status = status}
UnsoldNet(a) == SumFunction([v \in HeldAs(a, "issued") |-> Net(v)])
CashDue(a) == Balance(a) - UnsoldNet(a)

\* The cash an agent is said to hold is what their sold vouchers brought in,
\* corrected by handovers, adjustments and reversals only: issuing, selling
\* and returning stock, in any interleaving and across changes of price and
\* commission rate, leave nothing behind (agent_ledger.go:259-263, 398-401).
CashDueReconciles ==
  \A a \in Agents :
    LET cash == {e \in EntriesOf(a) :
                   e.type \in {"handover", "adjustment", "reversal"}}
    IN  CashDue(a) = SumAmounts(cash)
                       + SumFunction([v \in HeldAs(a, "sold") |-> Net(v)])

StockTypes == {"issue", "return"}
Covering(v, type) == {e \in ledger : e.type = type /\ v \in e.vouchers}

\* A voucher, its agent_vouchers row and the ledger tell the same story: an
\* agent is charged once for each voucher they got, credited once for each
\* one they returned, and a returned voucher was never and will never be
\* redeemed although returns and redemptions race (agent_ledger.go:445-448).
VoucherBooks ==
  \A v \in Vouchers :
    /\ holding[v] = None => /\ voucher[v] # "void"
                            /\ \A t \in StockTypes : Covering(v, t) = {}
    /\ holding[v] # None =>
         /\ <<holding[v].status, voucher[v]>> \in
              {<<"issued", "unused">>, <<"sold", "depleted">>,
               <<"returned", "void">>}
         /\ \E e \in ledger : /\ Covering(v, "issue") = {e}
                              /\ e.key = holding[v].batch
                              /\ e.agent = holding[v].agent
         /\ IF holding[v].status = "returned"
              THEN \E e \in ledger : /\ Covering(v, "return") = {e}
                                     /\ e.agent = holding[v].agent
              ELSE Covering(v, "return") = {}

\* Only a handover or an adjustment is reversed, at most once, by an equal
\* and opposite entry of the same agent (agent_ledger.go:624-626).
ReversalsExact ==
  \A r \in ledger :
    /\ (r.type = "reversal") <=> (r.reverses # None)
    /\ r.type = "reversal" =>
         /\ \E o \in ledger : /\ Id(o) = r.reverses
                              /\ o.type \in {"handover", "adjustment"}
                              /\ o.agent = r.agent
                              /\ o.amount = -r.amount
         /\ \A s \in ledger : s.reverses = r.reverses => s = r

\* The entry types each operation writes.
WritesType ==
  {<<"issue", "issue">>, <<"issue", "commission">>, <<"issue", "handover">>,
   <<"return", "return">>, <<"return", "commission_reversal">>,
   <<"handover", "handover">>, <<"adjustment", "adjustment">>,
   <<"reversal", "reversal">>}

\* One idempotency key stands for one committed write: all entries made under
\* it are of the agent and operation the key was stored for, one of each
\* type, even when two agents' requests use it at once (agent_ledger.go:162).
KeysSpentOnce ==
  \A e \in ledger :
    /\ idem[e.key] # None
    /\ e.agent = idem[e.key].agent
    /\ <<idem[e.key].op, e.type>> \in WritesType
    /\ \A f \in ledger : Id(f) = Id(e) => f = e

\* Who holds the row lock that a return or a redemption needs next.
WaitsFor(p) ==
  CASE req[p].op = "return" ->
         {q \in Requests \ {p} : \E v \in Current(p) :
            v \in IF v \in req[p].rows THEN req[q].avs ELSE req[q].rows}
    [] req[p].op = "redeem" -> {q \in Requests \ {p} : req[p].rows \cap req[q].avs # {}}
    [] OTHER -> {}

\* Waits for the rows of vouchers and agent_vouchers never form a chain, let
\* alone a circle: of the requests that hold any, only a return waits, and only
\* for a redemption, which waits for nobody (agent_ledger.go:411-413).
WaitsAreShort ==
  \A p \in Requests : \A q \in WaitsFor(p) :
    req[p].op = "return" /\ req[q].op = "redeem" /\ WaitsFor(q) = {}

\* Return and redemption lock the two rows of a voucher in the same order,
\* so no request waits for ever (agent_ledger.go:411-413).
EveryRequestEnds ==
  \A p \in Requests : req[p] # NoRequest ~> req[p] = NoRequest
=============================================================================
