------------------------- MODULE AgentLedgerProofs -------------------------
(***************************************************************************)
(* Machine-checked proofs about AgentLedger, for any number of agents,     *)
(* vouchers, keys and concurrent requests.                                 *)
(***************************************************************************)
EXTENDS AgentLedgerAccount, FiniteSetTheorems, WellFoundedInduction, TLAPS

-----------------------------------------------------------------------------
(* The inductive invariant: the properties, and what a running transaction *)
(* knows about the tables it has locked.                                   *)

\* Entries waiting to be committed belong to their request.
EntriesOK(r) ==
  \A e \in r.entries :
    /\ e.key = r.key /\ e.agent = r.agent
    /\ <<r.op, e.type>> \in WritesType
    /\ \A f \in r.entries : f.type = e.type => f = e
    /\ e.type = "issue" => e.vouchers = r.stock
    /\ e.type # "return"
    /\ (e.type = "reversal") <=> (e.reverses # None)
    /\ e.type = "reversal" =>
         \E o \in ledger : /\ Id(o) = e.reverses
                           /\ o.type \in {"handover", "adjustment"}
                           /\ o.agent = e.agent
                           /\ e.amount = -o.amount

\* What an issue, a return, a redemption and a one-entry write hold locked.
IssueOK(r) ==
  r.op = "issue" =>
    /\ r.todo = {} /\ r.rows = {} /\ r.avs = {}
    /\ \E e \in r.entries : e.type = "issue"

ReturnOK(r) ==
  r.op = "return" =>
    /\ r.stock = {} /\ r.entries = {}
    /\ r.avs \subseteq r.rows /\ r.rows \subseteq r.avs \cup r.todo
    /\ r.avs \cap r.todo = {}
    /\ \A v \in r.avs \cup r.todo : /\ holding[v] # None
                                    /\ holding[v].agent = r.agent

RedeemOK(r) ==
  r.op = "redeem" =>
    /\ r.stock = {} /\ r.todo = {} /\ r.avs = {} /\ r.entries = {}
    /\ r.agent = None

RecordOK(r) ==
  r.op \in {"handover", "adjustment", "reversal"} =>
    r.stock = {} /\ r.todo = {} /\ r.rows = {} /\ r.avs = {}

RequestOK(r) ==
  /\ r.op = "none" => r = NoRequest
  /\ r.op \in Operations => r.agent \in Agents /\ r.key \in Keys
  /\ EntriesOK(r) /\ IssueOK(r) /\ ReturnOK(r) /\ RedeemOK(r) /\ RecordOK(r)
  /\ \A v \in r.rows : voucher[v] = "unused"
  /\ \A v \in r.stock : voucher[v] = "absent"

\* Two transactions never hold the same voucher row, nor create the same
\* voucher.
Disjoint(r, s) == r.rows \cap s.rows = {} /\ r.stock \cap s.stock = {}

RequestsOK ==
  /\ \A p \in Requests : RequestOK(req[p])
  /\ \A p, q \in Requests : p # q => Disjoint(req[p], req[q])

IInv == TypeOK /\ RequestsOK /\ VoucherBooks /\ ReversalsExact /\ KeysSpentOnce

tables == <<agent, voucher, holding, ledger, idem>>

-----------------------------------------------------------------------------
LEMMA InitIInv == Init => IInv
<1> SUFFICES ASSUME Init PROVE IInv
  OBVIOUS
<1> USE DEF Init
<1>1. TypeOK
  BY DEF TypeOK, NoRequest, Tx, Request
<1>2. RequestsOK
  BY DEF RequestsOK, RequestOK, EntriesOK, IssueOK, ReturnOK, RedeemOK,
         RecordOK, NoRequest, Tx, Operations, Disjoint
<1>3. VoucherBooks
  BY DEF VoucherBooks, Covering
<1>4. ReversalsExact /\ KeysSpentOnce
  BY DEF ReversalsExact, KeysSpentOnce
<1>5. QED
  BY <1>1, <1>2, <1>3, <1>4 DEF IInv

\* A step that only rewrites what one request holds keeps the invariant if
\* what the request then holds is in order.
LEMMA RequestStep ==
  ASSUME IInv, NEW p \in Requests, NEW r \in Request,
         req' = [req EXCEPT ![p] = r], UNCHANGED tables,
         RequestOK(r),
         \A q \in Requests \ {p} : Disjoint(r, req[q])
  PROVE  IInv'
<1> USE DEF IInv
<1>1. TypeOK'
  BY DEF TypeOK, tables
<1>2. \A q \in Requests : req'[q] = IF q = p THEN r ELSE req[q]
  BY DEF TypeOK
<1>3. ASSUME NEW s, RequestOK(s) PROVE RequestOK(s)'
  BY <1>3 DEF RequestOK, EntriesOK, IssueOK, ReturnOK, RedeemOK, RecordOK,
              tables
<1>4. RequestsOK'
  <2>1. \A q \in Requests : RequestOK(req'[q])
    BY <1>2 DEF RequestsOK
  <2>2. \A q \in Requests : RequestOK(req[q])'
    BY <1>3, <2>1 DEF RequestOK, EntriesOK, IssueOK, ReturnOK, RedeemOK, RecordOK,
              tables
  <2>3. \A q1, q2 \in Requests : q1 # q2 => Disjoint(req[q1], req[q2])'
    BY <1>2 DEF RequestsOK, Disjoint
  <2>4. QED
    BY <2>2, <2>3 DEF RequestsOK
<1>5. VoucherBooks'
  BY DEF VoucherBooks, Covering, tables
<1>6. ReversalsExact' /\ KeysSpentOnce'
  BY DEF ReversalsExact, KeysSpentOnce, Id, tables
<1>7. QED
  BY <1>1, <1>4, <1>5, <1>6

\* Rolling a request back: it holds nothing any more.
LEMMA RollbackStep ==
  ASSUME IInv, NEW p \in Requests, req' = [req EXCEPT ![p] = NoRequest],
         UNCHANGED tables
  PROVE  IInv'
<1>1. NoRequest \in Request
  BY DEF NoRequest, Tx, Request
<1>2. RequestOK(NoRequest)
  BY DEF NoRequest, Tx, RequestOK, EntriesOK, IssueOK, ReturnOK, RedeemOK,
         RecordOK, Operations
<1>3. \A q \in Requests \ {p} : Disjoint(NoRequest, req[q])
  BY DEF Disjoint, NoRequest, Tx
<1>4. QED
  BY <1>1, <1>2, <1>3, RequestStep

LEMMA StartIssueStep ==
  ASSUME IInv, NEW p \in Requests, NEW a \in Agents, NEW k \in Keys,
         NEW n \in 1..MaxAgentBatch, NEW face \in Faces,
         NEW funding \in Fundings, NEW ref \in Refs \cup {None},
         StartIssue(p, a, k, n, face, funding, ref)
  PROVE  IInv'
<1> DEFINE comm == CommissionFor(agent[a], face)
<1>1. comm \in Nat /\ face \in Nat
  <2>1. face \in Nat /\ agent[a] \in Terms /\ agent[a].value \in Nat
    BY LedgerAssumption DEF IInv, TypeOK, Profile
  <2>2. (face * agent[a].value + 5000) \div 10000 \in Nat
    <3>1. face * agent[a].value \in Nat
      BY <2>1
    <3>2. \A m \in Nat : (m + 5000) \div 10000 \in Nat
      OBVIOUS
    <3>3. QED
      BY <3>1, <3>2
  <2>3. QED
    BY <2>1, <2>2 DEF CommissionFor
<1>2. PICK vs \in SUBSET Fresh :
        /\ Cardinality(vs) = n
        /\ req' = [req EXCEPT ![p] =
                    IssueTx(a, k, funding, vs, face, comm,
                            IssueEntries(a, k, vs, face, comm, funding, ref))]
  BY DEF StartIssue
<1> DEFINE es == IssueEntries(a, k, vs, face, comm, funding, ref)
           r == IssueTx(a, k, funding, vs, face, comm, es)
<1>3. vs \subseteq Vouchers /\ \A v \in vs : voucher[v] = "absent"
  BY <1>2 DEF Fresh
<1>4. /\ \A e \in es : /\ e.key = k /\ e.agent = a /\ e.vouchers = vs
                       /\ e.reverses = None
                       /\ e.type \in {"issue", "commission", "handover"}
                       /\ \A f \in es : f.type = e.type => f = e
      /\ \E e \in es : e.type = "issue"
  <2> DEFINE i == Line(k, "issue", a, Cardinality(vs) * face, None, None, vs)
             c == Line(k, "commission", a, -(Cardinality(vs) * comm),
                       None, None, vs)
             h == Line(k, "handover", a, -(Cardinality(vs) * (face - comm)),
                       ref, None, vs)
  <2> HIDE DEF comm
  <2>1. es \subseteq {i, c, h} /\ i \in es
    BY DEF IssueEntries
  <2>2. /\ i.type = "issue" /\ c.type = "commission" /\ h.type = "handover"
        /\ \A e \in {i, c, h} : /\ e.key = k /\ e.agent = a /\ e.vouchers = vs
                                /\ e.reverses = None
    BY DEF Line
  <2> HIDE DEF i, c, h, es
  <2>3. QED
    BY <2>1, <2>2
<1>5. es \subseteq Entry
  <2> HIDE DEF comm
  <2>1. n \in Nat
    BY LedgerAssumption
  <2>2. /\ n * face \in Int /\ -(n * comm) \in Int
        /\ -(n * (face - comm)) \in Int
    BY <1>1, <2>1
  <2>3. QED
    BY <1>2, <1>3, <2>2 DEF IssueEntries, Line, Entry, EntryTypes
<1>6. r \in Request
  <2> HIDE DEF comm, es
  <2>1. QED
    BY <1>1, <1>3, <1>5 DEF IssueTx, Tx, Request, Operations
<1>7. RequestOK(r)
  <2> HIDE DEF comm, es
  <2>1. r.op = "issue" /\ r.agent = a /\ r.key = k /\ r.entries = es
        /\ r.stock = vs /\ r.todo = {} /\ r.rows = {} /\ r.avs = {}
    BY DEF IssueTx, Tx
  <2> HIDE DEF r
  <2>2. QED
    BY <1>3, <1>4, <2>1 DEF RequestOK, EntriesOK, IssueOK, ReturnOK, RedeemOK,
                            RecordOK, Operations, WritesType
<1>8. \A q \in Requests \ {p} : Disjoint(r, req[q])
  BY <1>2 DEF Disjoint, IssueTx, Tx, Fresh
<1>9. UNCHANGED tables
  BY DEF StartIssue, tables
<1>10. req' = [req EXCEPT ![p] = r]
  BY <1>2
<1> HIDE DEF r
<1>11. QED
  BY <1>6, <1>7, <1>8, <1>9, <1>10, RequestStep

LEMMA StartReturnStep ==
  ASSUME IInv, NEW p \in Requests, NEW a \in Agents, NEW k \in Keys,
         NEW held \in SUBSET HeldBy(a), StartReturn(p, a, k, held)
  PROVE  IInv'
<1> DEFINE r == ReturnTx(a, k, 0, 0, held, {}, {})
<1>1. held \subseteq Vouchers
  BY DEF HeldBy
<1>2. r \in Request
  BY <1>1 DEF ReturnTx, Tx, Request, Operations
<1>3. RequestOK(r)
  <2>1. /\ r.op = "return" /\ r.agent = a /\ r.key = k /\ r.stock = {}
        /\ r.entries = {} /\ r.todo = held /\ r.rows = {} /\ r.avs = {}
    BY DEF ReturnTx, Tx
  <2> HIDE DEF r
  <2>2. QED
    BY <1>1, <2>1 DEF RequestOK, EntriesOK, IssueOK, ReturnOK, RedeemOK,
                      RecordOK, Operations, HeldBy
<1>4. \A q \in Requests \ {p} : Disjoint(r, req[q])
  BY DEF Disjoint, ReturnTx, Tx
<1>5. req' = [req EXCEPT ![p] = r] /\ UNCHANGED tables
  BY DEF StartReturn, tables
<1> HIDE DEF r
<1>6. QED
  BY <1>2, <1>3, <1>4, <1>5, RequestStep

\* Only a return has vouchers left to claim.
LEMMA CurrentIsReturn ==
  ASSUME IInv, NEW p \in Requests, NEW v \in Current(p)
  PROVE  /\ req[p].op = "return" /\ v \in req[p].todo /\ v \in Vouchers
         /\ RequestOK(req[p]) /\ req[p] \in Request
         /\ req[p].agent \in Agents /\ req[p].key \in Keys
<1>1. v \in req[p].todo /\ req[p] \in Request /\ RequestOK(req[p])
  BY DEF Current, IInv, TypeOK, RequestsOK
<1>2. v \in Vouchers /\ req[p].op \in Operations \cup {"none", "redeem"}
  BY <1>1 DEF Request
<1>3. req[p].op = "return"
  BY <1>1, <1>2 DEF RequestOK, IssueOK, RecordOK, RedeemOK, Operations,
                    NoRequest, Tx
<1>4. QED
  BY <1>1, <1>2, <1>3 DEF RequestOK, Operations

LEMMA ClaimVoucherStep ==
  ASSUME IInv, NEW p \in Requests, ClaimVoucher(p)
  PROVE  IInv'
<1>1. PICK v \in Current(p) :
        /\ VoucherRowFree(p, v)
        /\ voucher[v] = "unused"
        /\ req' = [req EXCEPT ![p] =
                     ReturnTx(req[p].agent, req[p].key, req[p].face,
                              req[p].comm, req[p].todo, req[p].rows \cup {v},
                              req[p].avs)]
  BY DEF ClaimVoucher
<1> DEFINE s == req[p]
           r == ReturnTx(s.agent, s.key, s.face, s.comm, s.todo,
                         s.rows \cup {v}, s.avs)
<1>2. /\ s.op = "return" /\ v \in s.todo /\ v \in Vouchers
      /\ RequestOK(s) /\ s \in Request /\ s.agent \in Agents /\ s.key \in Keys
  BY CurrentIsReturn
<1>3. /\ r.op = "return" /\ r.agent = s.agent /\ r.key = s.key
      /\ r.stock = {} /\ r.entries = {} /\ r.todo = s.todo
      /\ r.rows = s.rows \cup {v} /\ r.avs = s.avs
  BY DEF ReturnTx, Tx
<1> HIDE DEF s
<1>4. r \in Request
  BY <1>2 DEF ReturnTx, Tx, Request
<1>5. req' = [req EXCEPT ![p] = r] /\ UNCHANGED tables
  BY <1>1 DEF ClaimVoucher, tables, s
<1> HIDE DEF r
<1>6. RequestOK(r)
  BY <1>1, <1>2, <1>3 DEF RequestOK, EntriesOK, IssueOK, ReturnOK, RedeemOK,
                          RecordOK, Operations
<1>7. \A q \in Requests \ {p} : Disjoint(r, req[q])
  <2>1. \A q \in Requests \ {p} : Disjoint(s, req[q])
    BY DEF IInv, RequestsOK, s
  <2>2. QED
    BY <1>1, <1>3, <2>1 DEF Disjoint, VoucherRowFree
<1>8. QED
  BY <1>4, <1>5, <1>6, <1>7, RequestStep

LEMMA ClaimHoldingStep ==
  ASSUME IInv, NEW p \in Requests, ClaimHolding(p)
  PROVE  IInv'
<1>1. PICK v \in Current(p) :
        /\ v \in req[p].rows
        /\ req' = [req EXCEPT ![p] =
                     ReturnTx(req[p].agent, req[p].key,
                              req[p].face + holding[v].face,
                              req[p].comm + holding[v].comm,
                              req[p].todo \ {v}, req[p].rows,
                              req[p].avs \cup {v})]
  BY DEF ClaimHolding
<1> DEFINE s == req[p]
           r == ReturnTx(s.agent, s.key, s.face + holding[v].face,
                         s.comm + holding[v].comm, s.todo \ {v}, s.rows,
                         s.avs \cup {v})
<1>2. /\ s.op = "return" /\ v \in s.todo /\ v \in Vouchers
      /\ RequestOK(s) /\ s \in Request /\ s.agent \in Agents /\ s.key \in Keys
  BY CurrentIsReturn
<1>3. /\ r.op = "return" /\ r.agent = s.agent /\ r.key = s.key
      /\ r.stock = {} /\ r.entries = {} /\ r.todo = s.todo \ {v}
      /\ r.rows = s.rows /\ r.avs = s.avs \cup {v}
  BY DEF ReturnTx, Tx
<1>4. holding[v].face \in Nat /\ holding[v].comm \in Nat
  <2>1. holding[v] # None
    BY <1>2 DEF RequestOK, ReturnOK, s
  <2>2. holding[v] \in Holding
    BY <1>2, <2>1 DEF IInv, TypeOK
  <2>3. QED
    BY <2>2 DEF Holding
<1> HIDE DEF s
<1>5. r \in Request
  <2>1. s.face + holding[v].face \in Nat /\ s.comm + holding[v].comm \in Nat
    BY <1>2, <1>4 DEF Request
  <2>2. QED
    BY <1>2, <2>1 DEF ReturnTx, Tx, Request
<1>6. req' = [req EXCEPT ![p] = r] /\ UNCHANGED tables
  BY <1>1 DEF ClaimHolding, tables, s
<1> HIDE DEF r
<1>7. RequestOK(r)
  <2>1. v \in s.rows
    BY <1>1 DEF s
  <2>2. QED
    BY <1>2, <1>3, <2>1 DEF RequestOK, EntriesOK, IssueOK, ReturnOK, RedeemOK,
                            RecordOK, Operations
<1>8. \A q \in Requests \ {p} : Disjoint(r, req[q])
  <2>1. \A q \in Requests \ {p} : Disjoint(s, req[q])
    BY DEF IInv, RequestsOK, s
  <2>2. QED
    BY <1>3, <2>1 DEF Disjoint
<1>9. QED
  BY <1>5, <1>6, <1>7, <1>8, RequestStep

\* A handover, adjustment or reversal holds one entry of its own type.
LEMMA StartEntryStep ==
  ASSUME IInv, NEW p \in Requests, NEW e \in Entry,
         e.type \in {"handover", "adjustment", "reversal"},
         (e.type = "reversal") <=> (e.reverses # None),
         e.type = "reversal" =>
           \E o \in ledger : /\ Id(o) = e.reverses
                             /\ o.type \in {"handover", "adjustment"}
                             /\ o.agent = e.agent
                             /\ e.amount = -o.amount,
         StartEntry(p, e.type, e)
  PROVE  IInv'
<1> DEFINE r == EntryTx(e.type, e)
<1>1. e.agent \in Agents /\ e.key \in Keys
  BY DEF Entry
<1>2. r \in Request
  BY <1>1 DEF EntryTx, Tx, Request, Operations
<1>3. RequestOK(r)
  <2>1. /\ r.op = e.type /\ r.agent = e.agent /\ r.key = e.key /\ r.stock = {}
        /\ r.entries = {e} /\ r.todo = {} /\ r.rows = {} /\ r.avs = {}
    BY DEF EntryTx, Tx
  <2> HIDE DEF r
  <2>2. EntriesOK(r)
    BY <2>1 DEF EntriesOK, WritesType
  <2>3. QED
    BY <1>1, <2>1, <2>2 DEF RequestOK, IssueOK, ReturnOK, RedeemOK, RecordOK,
                            Operations
<1>4. \A q \in Requests \ {p} : Disjoint(r, req[q])
  BY DEF Disjoint, EntryTx, Tx
<1>5. req' = [req EXCEPT ![p] = r] /\ UNCHANGED tables
  BY DEF StartEntry, tables
<1> HIDE DEF r
<1>6. QED
  BY <1>2, <1>3, <1>4, <1>5, RequestStep

LEMMA RedeemLockStep ==
  ASSUME IInv, NEW p \in Requests, NEW v \in Vouchers, RedeemLock(p, v)
  PROVE  IInv'
<1> DEFINE r == RedeemTx(v)
<1>1. r \in Request
  BY DEF RedeemTx, Tx, Request
<1>2. /\ r.op = "redeem" /\ r.agent = None /\ r.stock = {} /\ r.entries = {}
      /\ r.todo = {} /\ r.rows = {v} /\ r.avs = {}
  BY DEF RedeemTx, Tx
<1>3. req' = [req EXCEPT ![p] = r] /\ UNCHANGED tables
  BY DEF RedeemLock, tables
<1> HIDE DEF r
<1>4. RequestOK(r)
  BY <1>2 DEF RequestOK, EntriesOK, IssueOK, ReturnOK, RedeemOK, RecordOK,
              Operations, RedeemLock
<1>5. \A q \in Requests \ {p} : Disjoint(r, req[q])
  BY <1>2 DEF Disjoint, RedeemLock, VoucherRowFree
<1>6. QED
  BY <1>1, <1>3, <1>4, <1>5, RequestStep

-----------------------------------------------------------------------------
(* The steps that change the tables.                                       *)

LEMMA AgentUpdateStep ==
  ASSUME IInv, NEW a \in Agents, NEW t \in Terms, AgentUpdate(a, t)
  PROVE  IInv'
<1> USE DEF IInv, AgentUpdate
<1>1. TypeOK'
  BY DEF TypeOK
<1>2. RequestsOK'
  BY DEF RequestsOK, RequestOK, EntriesOK, IssueOK, ReturnOK, RedeemOK,
         RecordOK, Id, Disjoint
<1>3. VoucherBooks' /\ ReversalsExact' /\ KeysSpentOnce'
  BY DEF VoucherBooks, Covering, ReversalsExact, KeysSpentOnce, Id
<1>4. QED
  BY <1>1, <1>2, <1>3

\* Generating or deleting a voucher that no agent holds.
LEMMA PlainVoucherStep ==
  ASSUME IInv, NEW v \in Vouchers, VoucherGenerate(v) \/ VoucherDestroy(v)
  PROVE  IInv'
<1> USE DEF IInv
<1>1. /\ UNCHANGED <<agent, holding, ledger, idem, req>>
      /\ \E s \in {"unused", "deleted"} : voucher' = [voucher EXCEPT ![v] = s]
      /\ \A q \in Requests : v \notin req[q].rows /\ v \notin req[q].stock
      /\ holding[v] = None
  <2>1. CASE VoucherGenerate(v)
    BY <2>1 DEF VoucherGenerate, Fresh, RequestsOK, RequestOK, VoucherBooks
  <2>2. CASE VoucherDestroy(v)
    BY <2>2 DEF VoucherDestroy, RequestsOK, RequestOK
  <2>3. QED
    BY <2>1, <2>2
<1>2. TypeOK'
  BY <1>1 DEF TypeOK
<1>3. RequestsOK'
  <2>1. ASSUME NEW q \in Requests PROVE RequestOK(req[q])'
    <3>1. req[q] \in Request /\ RequestOK(req[q])
      BY DEF TypeOK, RequestsOK
    <3>2. \A w \in req[q].rows \cup req[q].stock : voucher'[w] = voucher[w]
      BY <1>1, <3>1 DEF TypeOK, Request
    <3>3. QED
      BY <1>1, <3>1, <3>2 DEF RequestOK, EntriesOK, IssueOK, ReturnOK,
                              RedeemOK, RecordOK, Id
  <2>2. QED
    BY <1>1, <2>1 DEF RequestsOK, Disjoint
<1>4. VoucherBooks'
  BY <1>1 DEF VoucherBooks, Covering, TypeOK
<1>5. ReversalsExact' /\ KeysSpentOnce'
  BY <1>1 DEF ReversalsExact, KeysSpentOnce, Id
<1>6. QED
  BY <1>2, <1>3, <1>4, <1>5

LEMMA RedeemCommitStep ==
  ASSUME IInv, NEW p \in Requests, RedeemCommit(p)
  PROVE  IInv'
<1> USE DEF IInv
<1>1. PICK v \in req[p].rows :
        /\ voucher' = [voucher EXCEPT ![v] = "depleted"]
        /\ holding' = IF holding[v] # None /\ holding[v].status = "issued"
                        THEN [holding EXCEPT ![v].status = "sold"]
                        ELSE holding
  BY DEF RedeemCommit
<1>2. /\ req' = [req EXCEPT ![p] = NoRequest]
      /\ UNCHANGED <<agent, ledger, idem>>
  BY DEF RedeemCommit
<1>3. v \in Vouchers /\ voucher[v] = "unused"
  BY DEF TypeOK, Request, RequestsOK, RequestOK
<1>4. holding[v] # None => holding[v] \in Holding /\ holding[v].status = "issued"
  BY <1>3 DEF TypeOK, VoucherBooks
<1>5. /\ \A w \in Vouchers \ {v} : /\ holding'[w] = holding[w]
                                   /\ voucher'[w] = voucher[w]
      /\ voucher'[v] = "depleted"
      /\ holding[v] = None => holding'[v] = None
      /\ holding[v] # None => /\ holding'[v] \in Holding
                              /\ holding'[v].status = "sold"
                              /\ holding'[v].agent = holding[v].agent
                              /\ holding'[v].batch = holding[v].batch
  BY <1>1, <1>3, <1>4 DEF TypeOK, Holding
<1>6. TypeOK'
  <2>1. NoRequest \in Request
    BY DEF NoRequest, Tx, Request
  <2>2. holding' \in [Vouchers -> Holding \cup {None}]
    <3>1. DOMAIN holding' = Vouchers /\ holding' = [w \in Vouchers |-> holding'[w]]
      BY <1>1 DEF TypeOK
    <3>2. QED
      BY <1>5, <3>1 DEF TypeOK
  <2>3. QED
    BY <1>1, <1>2, <1>3, <2>1, <2>2 DEF TypeOK
<1>7. RequestsOK'
  <2>1. \A q \in Requests : req'[q] = IF q = p THEN NoRequest ELSE req[q]
    BY <1>2 DEF TypeOK
  <2>2. ASSUME NEW q \in Requests PROVE RequestOK(req[q])'
    <3>1. CASE q = p
      BY <2>1, <3>1 DEF NoRequest, Tx, RequestOK, EntriesOK, IssueOK, ReturnOK,
                        RedeemOK, RecordOK, Operations
    <3>2. CASE q # p
      <4>1. req[q] \in Request /\ RequestOK(req[q])
        BY DEF TypeOK, RequestsOK
      <4>2. v \notin req[q].rows /\ v \notin req[q].stock
        BY <1>3, <3>2, <4>1 DEF RequestsOK, Disjoint, RequestOK
      <4>3. \A w \in req[q].rows \cup req[q].stock : voucher'[w] = voucher[w]
        BY <1>5, <4>1, <4>2 DEF Request
      <4>4. \A w \in req[q].avs \cup req[q].todo : holding[w] # None =>
              holding'[w] # None /\ holding'[w].agent = holding[w].agent
        BY <1>5, <4>1, NoneIsNoRow DEF Request
      <4>5. req'[q] = req[q]
        BY <2>1, <3>2
      <4>6. QED
        BY <1>2, <4>1, <4>3, <4>4, <4>5 DEF RequestOK, EntriesOK, IssueOK,
          ReturnOK, RedeemOK, RecordOK, Id
    <3>3. QED
      BY <3>1, <3>2
  <2>3. \A q1, q2 \in Requests : q1 # q2 => Disjoint(req[q1], req[q2])'
    BY <2>1 DEF RequestsOK, Disjoint, NoRequest, Tx
  <2>4. QED
    BY <2>2, <2>3 DEF RequestsOK
<1>8. VoucherBooks'
  <2>1. \A w \in Vouchers, t \in StockTypes : Covering(w, t)' = Covering(w, t)
    BY <1>2 DEF Covering
  <2>2. QED
    BY <1>2, <1>4, <1>5, <2>1, NoneIsNoRow DEF VoucherBooks, StockTypes
<1>9. ReversalsExact' /\ KeysSpentOnce'
  BY <1>2 DEF ReversalsExact, KeysSpentOnce, Id
<1>10. QED
  BY <1>6, <1>7, <1>8, <1>9

\* What a committing transaction writes: entries under its key and agent, one
\* of each type, that cover exactly the vouchers it issues or takes back.
LEMMA WritesOK ==
  ASSUME IInv, NEW p \in Requests, req[p].op \in Operations, req[p].todo = {}
  PROVE  /\ Writes(p) \subseteq Entry
         /\ \A e \in Writes(p) :
              /\ e.key = req[p].key /\ e.agent = req[p].agent
              /\ <<req[p].op, e.type>> \in WritesType
              /\ \A f \in Writes(p) : f.type = e.type => f = e
              /\ e.type = "issue" => e.vouchers = req[p].stock
              /\ e.type = "return" => e.vouchers = req[p].avs
              /\ (e.type = "reversal") <=> (e.reverses # None)
              /\ e.type = "reversal" =>
                   \E o \in ledger : /\ Id(o) = e.reverses
                                     /\ o.type \in {"handover", "adjustment"}
                                     /\ o.agent = e.agent
                                     /\ e.amount = -o.amount
         /\ req[p].op = "issue" => \E e \in Writes(p) : e.type = "issue"
         /\ req[p].op = "return" => \E e \in Writes(p) : e.type = "return"
<1> DEFINE s == req[p]
<1>1. s \in Request /\ RequestOK(s) /\ s.agent \in Agents /\ s.key \in Keys
  BY DEF IInv, TypeOK, RequestsOK, RequestOK
<1>2. CASE s.op = "return"
  <2> DEFINE ret == Line(s.key, "return", s.agent, -s.face, None, None, s.avs)
             rev == Line(s.key, "commission_reversal", s.agent, s.comm,
                         None, None, s.avs)
  <2>1. Writes(p) \subseteq {ret, rev} /\ ret \in Writes(p)
    BY <1>2 DEF Writes, ReturnEntries
  <2>2. ret \in Entry /\ rev \in Entry
    BY <1>1 DEF Line, Entry, EntryTypes, Request
  <2>3. /\ ret.type = "return" /\ rev.type = "commission_reversal"
        /\ \A e \in {ret, rev} : /\ e.key = s.key /\ e.agent = s.agent
                                 /\ e.vouchers = s.avs /\ e.reverses = None
    BY DEF Line
  <2> HIDE DEF ret, rev
  <2>4. QED
    BY <1>2, <2>1, <2>2, <2>3 DEF WritesType
<1>3. CASE s.op # "return"
  <2>1. Writes(p) = s.entries
    BY <1>3 DEF Writes
  <2>2. s.entries \subseteq Entry
    BY <1>1 DEF Request
  <2>3. QED
    BY <1>1, <1>3, <2>1, <2>2 DEF RequestOK, EntriesOK, IssueOK
<1>4. QED
  BY <1>2, <1>3

\* The vouchers a committing transaction creates or voids.
LEMMA CommittedRows ==
  ASSUME IInv, NEW p \in Requests, req[p].op \in Operations, req[p].todo = {}
  PROVE  /\ req[p].rows = req[p].avs
         /\ req[p].stock # {} => req[p].op = "issue"
         /\ req[p].avs # {} => req[p].op = "return"
         /\ \A v \in req[p].stock : holding[v] = None
         /\ \A v \in req[p].avs : /\ holding[v] # None
                                  /\ holding[v] \in Holding
                                  /\ holding[v].agent = req[p].agent
                                  /\ holding[v].status = "issued"
<1>1. req[p] \in Request /\ RequestOK(req[p])
  BY DEF IInv, TypeOK, RequestsOK
<1>2. /\ req[p].rows = req[p].avs
      /\ req[p].stock # {} => req[p].op = "issue"
      /\ req[p].avs # {} => req[p].op = "return"
  BY <1>1 DEF RequestOK, IssueOK, ReturnOK, RecordOK, Operations
<1>3. \A v \in req[p].stock : holding[v] = None
  BY <1>1 DEF Request, RequestOK, IInv, VoucherBooks
<1>4. ASSUME NEW v \in req[p].avs
      PROVE  /\ holding[v] # None /\ holding[v] \in Holding
             /\ holding[v].agent = req[p].agent
             /\ holding[v].status = "issued"
  <2>1. v \in Vouchers /\ voucher[v] = "unused"
    BY <1>1, <1>2 DEF Request, RequestOK
  <2>2. holding[v] # None /\ holding[v].agent = req[p].agent
    BY <1>1, <1>2 DEF RequestOK, ReturnOK
  <2>3. QED
    BY <2>1, <2>2 DEF IInv, TypeOK, VoucherBooks
<1>5. QED
  BY <1>2, <1>3, <1>4

LEMMA CommitStep ==
  ASSUME IInv, NEW p \in Requests, Commit(p)
  PROVE  IInv'
<1> DEFINE s == req[p]
           W == Writes(p)
           row == [agent |-> s.agent, batch |-> s.key, face |-> s.face,
                   comm |-> s.comm, status |-> "issued"]
           keyRow == [op |-> s.op, agent |-> s.agent, funding |-> s.funding]
<1> USE DEF IInv
<1>1. /\ s.op \in Operations /\ s.todo = {} /\ idem[s.key] = None
      /\ \A e \in W : e.reverses # None =>
           \A r \in ledger : r.reverses # e.reverses
      /\ voucher' = [v \in Vouchers |-> IF v \in s.stock THEN "unused"
                                        ELSE IF v \in s.rows THEN "void"
                                        ELSE voucher[v]]
      /\ holding' = [v \in Vouchers |->
                       IF v \in s.stock THEN row
                       ELSE IF v \in s.avs
                         THEN [holding[v] EXCEPT !.status = "returned"]
                       ELSE holding[v]]
      /\ ledger' = ledger \cup W
      /\ idem' = [idem EXCEPT ![s.key] = keyRow]
      /\ req' = [req EXCEPT ![p] = NoRequest]
      /\ agent' = agent
  BY DEF Commit, Unique
<1>2. s \in Request /\ RequestOK(s) /\ s.agent \in Agents /\ s.key \in Keys
  BY <1>1 DEF TypeOK, RequestsOK, RequestOK
<1>3. row \in Holding /\ keyRow \in KeyRow /\ row # None /\ keyRow # None
  <2>1. row \in Holding /\ keyRow \in KeyRow
    BY <1>1, <1>2 DEF Holding, KeyRow, Request
  <2>2. QED
    BY <2>1, NoneIsNoRow
<1>4. /\ row.agent = s.agent /\ row.batch = s.key /\ row.status = "issued"
      /\ keyRow.agent = s.agent /\ keyRow.op = s.op
  OBVIOUS
<1>5. /\ s.rows = s.avs
      /\ s.stock # {} => s.op = "issue"
      /\ s.avs # {} => s.op = "return"
      /\ \A v \in s.stock : holding[v] = None
      /\ \A v \in s.avs : /\ holding[v] # None /\ holding[v] \in Holding
                          /\ holding[v].agent = s.agent
                          /\ holding[v].status = "issued"
  BY <1>1, CommittedRows
<1>6. /\ W \subseteq Entry
      /\ \A e \in W :
           /\ e.key = s.key /\ e.agent = s.agent
           /\ <<s.op, e.type>> \in WritesType
           /\ \A f \in W : f.type = e.type => f = e
           /\ e.type = "issue" => e.vouchers = s.stock
           /\ e.type = "return" => e.vouchers = s.avs
           /\ (e.type = "reversal") <=> (e.reverses # None)
           /\ e.type = "reversal" =>
                \E o \in ledger : /\ Id(o) = e.reverses
                                  /\ o.type \in {"handover", "adjustment"}
                                  /\ o.agent = e.agent
                                  /\ e.amount = -o.amount
      /\ s.op = "issue" => \E e \in W : e.type = "issue"
      /\ s.op = "return" => \E e \in W : e.type = "return"
  BY <1>1, WritesOK
<1> HIDE DEF W, row, keyRow
<1>7. /\ \A v \in s.stock : v \in Vouchers /\ holding'[v] = row
      /\ \A v \in s.avs : v \in Vouchers /\ v \notin s.stock
      /\ \A v \in s.avs : /\ holding'[v] \in Holding
                          /\ holding'[v].agent = holding[v].agent
                          /\ holding'[v].batch = holding[v].batch
                          /\ holding'[v].status = "returned"
      /\ \A v \in Vouchers \ (s.stock \cup s.avs) : holding'[v] = holding[v]
  <2>1. s.stock \subseteq Vouchers /\ s.avs \subseteq Vouchers
    BY <1>2 DEF Request
  <2>2. s.stock \cap s.avs = {}
    BY <1>5
  <2> HIDE DEF s
  <2>3. \A v \in s.avs : holding'[v] = [holding[v] EXCEPT !.status = "returned"]
    BY <1>1, <2>1, <2>2
  <2>4. QED
    BY <1>1, <1>5, <2>1, <2>2, <2>3 DEF Holding
<1>8. /\ \A v \in s.stock : voucher'[v] = "unused"
      /\ \A v \in s.avs : voucher'[v] = "void"
      /\ \A v \in Vouchers \ (s.stock \cup s.avs) : voucher'[v] = voucher[v]
  BY <1>1, <1>5, <1>7
<1>9. TypeOK'
  <2>1. NoRequest \in Request
    BY DEF NoRequest, Tx, Request
  <2>2. holding' \in [Vouchers -> Holding \cup {None}]
    <3>1. holding' = [v \in Vouchers |-> holding'[v]]
      BY <1>1
    <3>2. \A v \in Vouchers : holding'[v] \in Holding \cup {None}
      BY <1>3, <1>7 DEF TypeOK
    <3>3. QED
      BY <3>1, <3>2
  <2>3. voucher' \in [Vouchers -> {"absent", "unused", "depleted", "void",
                                   "deleted"}]
    BY <1>1 DEF TypeOK
  <2>4. QED
    BY <1>1, <1>2, <1>3, <1>6, <2>1, <2>2, <2>3 DEF TypeOK
<1>10. RequestsOK'
  <2>1. \A q \in Requests : req'[q] = IF q = p THEN NoRequest ELSE req[q]
    BY <1>1 DEF TypeOK
  <2>2. ASSUME NEW q \in Requests PROVE RequestOK(req[q])'
    <3>1. CASE q = p
      BY <2>1, <3>1 DEF NoRequest, Tx, RequestOK, EntriesOK, IssueOK, ReturnOK,
                        RedeemOK, RecordOK, Operations
    <3>2. CASE q # p
      <4>1. req[q] \in Request /\ RequestOK(req[q]) /\ Disjoint(s, req[q])
        BY <3>2 DEF TypeOK, RequestsOK
      <4>2. \A v \in req[q].rows \cup req[q].stock :
              v \notin s.stock /\ v \notin s.avs /\ v \in Vouchers
        BY <1>2, <1>5, <4>1 DEF Disjoint, RequestOK, Request
      <4>3. \A v \in req[q].rows \cup req[q].stock : voucher'[v] = voucher[v]
        BY <1>8, <4>2
      <4>4. \A v \in Vouchers : holding[v] # None =>
              holding'[v] # None /\ holding'[v].agent = holding[v].agent
        BY <1>5, <1>7, NoneIsNoRow
      <4>5. req'[q] = req[q] /\ ledger \subseteq ledger'
        BY <1>1, <2>1, <3>2
      <4>6. req[q].avs \cup req[q].todo \subseteq Vouchers
        BY <4>1 DEF Request
      <4> HIDE DEF s
      <4>7. EntriesOK(req[q])'
        BY <4>1, <4>5 DEF RequestOK, EntriesOK, Id
      <4>8. ReturnOK(req[q])'
        BY <4>1, <4>4, <4>5, <4>6 DEF RequestOK, ReturnOK
      <4>9. QED
        BY <4>1, <4>3, <4>5, <4>7, <4>8 DEF RequestOK, IssueOK, RedeemOK,
                                            RecordOK
    <3>3. QED
      BY <3>1, <3>2
  <2>3. \A q1, q2 \in Requests : q1 # q2 => Disjoint(req[q1], req[q2])'
    BY <2>1 DEF RequestsOK, Disjoint, NoRequest, Tx
  <2>4. QED
    BY <2>2, <2>3 DEF RequestsOK
<1>one. \A e, f \in W : e.type = f.type => e = f
  BY <1>6
<1>11. VoucherBooks'
  <2>0. ASSUME NEW v \in Vouchers, NEW t \in StockTypes
        PROVE  Covering(v, t)' =
                 Covering(v, t) \cup {x \in W : x.type = t /\ v \in x.vouchers}
    BY <1>1 DEF Covering
  <2>1. ASSUME NEW v \in Vouchers, v \in s.stock
        PROVE  /\ \E e \in ledger' : /\ Covering(v, "issue")' = {e}
                                     /\ e.key = s.key /\ e.agent = s.agent
               /\ Covering(v, "return")' = {}
    <3>1. s.op = "issue" /\ \A t \in StockTypes : Covering(v, t) = {}
      BY <1>5, <2>1 DEF VoucherBooks
    <3>2. PICK e \in W : e.type = "issue"
      BY <1>6, <3>1
    <3>3. v \in e.vouchers /\ e.key = s.key /\ e.agent = s.agent
      BY <1>6, <2>1, <3>2
    <3>4. Covering(v, "issue")' = {e}
      <4>1. {x \in W : x.type = "issue" /\ v \in x.vouchers} = {e}
        BY <1>one, <3>2, <3>3, Zenon
      <4>2. QED
        BY <2>0, <3>1, <4>1 DEF StockTypes
    <3>5. Covering(v, "return")' = {}
      BY <1>1, <1>6, <3>1 DEF Covering, StockTypes, WritesType
    <3>6. QED
      BY <1>1, <3>2, <3>3, <3>4, <3>5
  <2>2. ASSUME NEW v \in Vouchers, v \in s.avs
        PROVE  /\ Covering(v, "issue")' = Covering(v, "issue")
               /\ \E e \in ledger' : /\ Covering(v, "return")' = {e}
                                     /\ e.agent = s.agent
    <3>1. s.op = "return" /\ Covering(v, "return") = {}
      BY <1>5, <2>2 DEF VoucherBooks
    <3>2. PICK e \in W : e.type = "return"
      BY <1>6, <3>1
    <3>3. v \in e.vouchers /\ e.agent = s.agent
      BY <1>6, <2>2, <3>2
    <3>4. Covering(v, "return")' = {e}
      <4>1. {x \in W : x.type = "return" /\ v \in x.vouchers} = {e}
        BY <1>one, <3>2, <3>3, Zenon
      <4>2. QED
        BY <2>0, <3>1, <4>1 DEF StockTypes
    <3>5. Covering(v, "issue")' = Covering(v, "issue")
      BY <1>1, <1>6, <3>1 DEF Covering, WritesType
    <3>6. QED
      BY <1>1, <3>2, <3>3, <3>4, <3>5
  <2>3. ASSUME NEW v \in Vouchers \ (s.stock \cup s.avs), NEW t \in StockTypes
        PROVE  Covering(v, t)' = Covering(v, t)
    <3>1. \A x \in W : ~(x.type = t /\ v \in x.vouchers)
      <4>1. v \notin s.stock /\ v \notin s.avs
        BY <2>3
      <4>2. t = "issue" \/ t = "return"
        BY DEF StockTypes
      <4>3. \A x \in W : /\ x.type = "issue" => x.vouchers = s.stock
                         /\ x.type = "return" => x.vouchers = s.avs
        BY <1>6
      <4>4. QED
        BY <4>1, <4>2, <4>3, Zenon
    <3>2. {x \in W : x.type = t /\ v \in x.vouchers} = {}
      BY <3>1, Zenon
    <3>3. Covering(v, t)' = Covering(v, t) \cup {}
      BY <2>0, <2>3, <3>2, Zenon
    <3>4. QED
      BY <3>3, Zenon
  <2> HIDE DEF s
  <2>4. ASSUME NEW v \in Vouchers, v \in s.stock
        PROVE  /\ holding'[v] # None /\ holding'[v].status = "issued"
               /\ voucher'[v] = "unused"
               /\ \E e \in ledger' : /\ Covering(v, "issue")' = {e}
                                     /\ e.key = holding'[v].batch
                                     /\ e.agent = holding'[v].agent
               /\ Covering(v, "return")' = {}
    BY <1>3, <1>4, <1>7, <1>8, <2>1, <2>4
  <2>5. ASSUME NEW v \in Vouchers, v \in s.avs
        PROVE  /\ holding'[v] # None /\ holding'[v].status = "returned"
               /\ voucher'[v] = "void"
               /\ \E e \in ledger' : /\ Covering(v, "issue")' = {e}
                                     /\ e.key = holding'[v].batch
                                     /\ e.agent = holding'[v].agent
               /\ \E e \in ledger' : /\ Covering(v, "return")' = {e}
                                     /\ e.agent = holding'[v].agent
    <3>1. holding'[v] # None
      BY <1>7, <2>5, NoneIsNoRow
    <3>2. \E e \in ledger : /\ Covering(v, "issue") = {e}
                            /\ e.key = holding[v].batch
                            /\ e.agent = holding[v].agent
      BY <1>5, <2>5 DEF VoucherBooks
    <3>3. QED
      BY <1>1, <1>5, <1>7, <1>8, <2>2, <2>5, <3>1, <3>2
  <2>6. ASSUME NEW v \in Vouchers \ (s.stock \cup s.avs)
        PROVE  /\ holding'[v] = holding[v] /\ voucher'[v] = voucher[v]
               /\ Covering(v, "issue")' = Covering(v, "issue")
               /\ Covering(v, "return")' = Covering(v, "return")
    BY <1>7, <1>8, <2>3 DEF StockTypes
  <2>7. ledger \subseteq ledger'
    BY <1>1
  <2>8. QED
    BY <2>4, <2>5, <2>6, <2>7 DEF VoucherBooks, StockTypes
<1>12. ReversalsExact'
  <2>1. ASSUME NEW r \in ledger', r.type = "reversal"
        PROVE  \E o \in ledger' : /\ Id(o) = r.reverses
                                  /\ o.type \in {"handover", "adjustment"}
                                  /\ o.agent = r.agent
                                  /\ o.amount = -r.amount
    <3>1. PICK o \in ledger : /\ Id(o) = r.reverses
                              /\ o.type \in {"handover", "adjustment"}
                              /\ o.agent = r.agent
                              /\ r.amount = -o.amount \/ o.amount = -r.amount
      BY <1>1, <1>6, <2>1 DEF ReversalsExact
    <3>2. o.amount \in Int /\ r.amount \in Int
      BY <1>1, <1>6, <2>1 DEF TypeOK, Entry
    <3>3. QED
      BY <1>1, <3>1, <3>2
  <2>2. ASSUME NEW r \in ledger', NEW t \in ledger', r.type = "reversal",
               t.reverses = r.reverses
        PROVE  t = r
    <3>1. r.reverses # None
      BY <1>1, <1>6, <2>2 DEF ReversalsExact
    <3>2. t.type = "reversal"
      BY <1>1, <1>6, <2>2, <3>1 DEF ReversalsExact
    <3>3. CASE r \in W \/ t \in W
      <4>1. \A e \in W : e.type = "reversal" =>
              /\ \A x \in ledger : x.reverses # e.reverses
              /\ \A f \in W : f.type = "reversal" => f = e
        <5>1. \A e \in W : e.type = "reversal" => e.reverses # None
          BY <1>6
        <5>2. QED
          BY <1>1, <1>one, <5>1, Zenon
      <4>2. QED
        BY <1>1, <2>2, <3>2, <3>3, <4>1
    <3>4. CASE r \in ledger /\ t \in ledger
      BY <2>2, <3>4 DEF ReversalsExact
    <3>5. QED
      BY <1>1, <3>3, <3>4
  <2>3. \A r \in ledger' : (r.type = "reversal") <=> (r.reverses # None)
    BY <1>1, <1>6 DEF ReversalsExact
  <2>4. QED
    BY <2>1, <2>2, <2>3 DEF ReversalsExact, Id
<1>13. KeysSpentOnce'
  <2>1. idem' = [idem EXCEPT ![s.key] = keyRow] /\ idem'[s.key] = keyRow
    BY <1>1, <1>2 DEF TypeOK
  <2>2. \A k \in Keys \ {s.key} : idem'[k] = idem[k]
    BY <1>1 DEF TypeOK
  <2>3. \A e \in ledger : e.key \in Keys \ {s.key}
    BY <1>1 DEF KeysSpentOnce, TypeOK, Entry
  <2> HIDE DEF s
  <2>4. ASSUME NEW e \in ledger
        PROVE  /\ idem'[e.key] # None /\ e.agent = idem'[e.key].agent
               /\ <<idem'[e.key].op, e.type>> \in WritesType
               /\ \A f \in ledger' : Id(f) = Id(e) => f = e
    <3>1. idem'[e.key] = idem[e.key]
      BY <2>2, <2>3
    <3>2. \A f \in W : Id(f) # Id(e)
      BY <1>6, <2>3 DEF Id
    <3>3. QED
      BY <1>1, <3>1, <3>2 DEF KeysSpentOnce
  <2>5. ASSUME NEW e \in W
        PROVE  /\ idem'[e.key] # None /\ e.agent = idem'[e.key].agent
               /\ <<idem'[e.key].op, e.type>> \in WritesType
               /\ \A f \in ledger' : Id(f) = Id(e) => f = e
    <3>1. e.key = s.key /\ e.agent = s.agent /\ <<s.op, e.type>> \in WritesType
      BY <1>6
    <3>2. \A f \in ledger : Id(f) # Id(e)
      BY <2>3, <3>1 DEF Id
    <3>3. \A f \in W : Id(f) = Id(e) => f = e
      BY <1>one DEF Id
    <3>4. \A f \in ledger' : Id(f) = Id(e) => f = e
      BY <1>1, <3>2, <3>3
    <3>5. /\ idem'[e.key] # None /\ e.agent = idem'[e.key].agent
          /\ <<idem'[e.key].op, e.type>> \in WritesType
      BY <1>3, <1>4, <2>1, <3>1
    <3>6. QED
      BY <3>4, <3>5
  <2>6. QED
    BY <1>1, <2>4, <2>5 DEF KeysSpentOnce, Id
<1>14. QED
  BY <1>9, <1>10, <1>11, <1>12, <1>13

\* The entries the three one-entry operations build are well formed.
LEMMA RecordStep ==
  ASSUME IInv, NEW p \in Requests, Record(p)
  PROVE  IInv'
<1>1. PICK a \in Agents, k \in Keys :
        \/ \E amount \in HandoverAmounts, ref \in Refs \cup {None} :
             StartHandover(p, a, k, amount, ref)
        \/ \E amount \in AdjustmentAmounts : StartAdjustment(p, a, k, amount)
        \/ \E orig \in ledger : StartReversal(p, a, k, orig)
  BY DEF Record
<1>2. ASSUME NEW amount \in HandoverAmounts, NEW ref \in Refs \cup {None},
             StartHandover(p, a, k, amount, ref)
      PROVE  IInv'
  <2> DEFINE e == Line(k, "handover", a, -amount, ref, None, {})
  <2>1. e \in Entry /\ e.type = "handover" /\ e.reverses = None
    BY LedgerAssumption DEF Line, Entry, EntryTypes
  <2>2. StartEntry(p, e.type, e)
    BY <1>2, <2>1 DEF StartHandover
  <2> HIDE DEF e
  <2>3. QED
    BY <2>1, <2>2, StartEntryStep
<1>3. ASSUME NEW amount \in AdjustmentAmounts, StartAdjustment(p, a, k, amount)
      PROVE  IInv'
  <2> DEFINE e == Line(k, "adjustment", a, amount, None, None, {})
  <2>1. e \in Entry /\ e.type = "adjustment" /\ e.reverses = None
    BY LedgerAssumption DEF Line, Entry, EntryTypes
  <2>2. StartEntry(p, e.type, e)
    BY <1>3, <2>1 DEF StartAdjustment
  <2> HIDE DEF e
  <2>3. QED
    BY <2>1, <2>2, StartEntryStep
<1>4. ASSUME NEW o \in ledger, StartReversal(p, a, k, o)
      PROVE  IInv'
  <2> DEFINE e == Line(k, "reversal", a, -o.amount, o.ref, Id(o), {})
  <2>1. o \in Entry /\ Id(o) \in EntryIds
    BY DEF IInv, TypeOK, Entry, Id, EntryIds
  <2>2. /\ e \in Entry /\ e.type = "reversal" /\ e.reverses = Id(o)
        /\ e.agent = a /\ e.amount = -o.amount
    BY <2>1 DEF Line, Entry, EntryTypes
  <2>3. e.reverses # None
    BY <2>1, <2>2, NoneIsNoRow
  <2>4. /\ o.agent = a /\ o.type \in {"handover", "adjustment"}
        /\ StartEntry(p, e.type, e)
    BY <1>4, <2>2 DEF StartReversal
  <2> HIDE DEF e
  <2>5. QED
    BY <2>2, <2>3, <2>4, StartEntryStep
<1>5. QED
  BY <1>1, <1>2, <1>3, <1>4

\* Every step preserves the invariant.
LEMMA NextStep ==
  ASSUME IInv, [Next]_vars
  PROVE  IInv'
<1>1. ASSUME NEW p \in Requests, Issue(p) PROVE IInv'
  BY <1>1, StartIssueStep DEF Issue
<1>2. ASSUME NEW p \in Requests, Return(p) PROVE IInv'
  <2>1. PICK a \in Agents : \E k \in Keys, held \in SUBSET HeldBy(a) :
          StartReturn(p, a, k, held)
    <3>1. \A a \in Agents, vs \in SUBSET Vouchers :
            Listed(a, vs) \in SUBSET HeldBy(a)
      BY DEF Listed
    <3>2. \A a \in Agents, b \in Keys : OfBatch(a, b) \in SUBSET HeldBy(a)
      BY DEF OfBatch
    <3>3. QED
      BY <1>2, <3>1, <3>2 DEF Return
  <2>2. QED
    BY <2>1, StartReturnStep
<1>3. ASSUME NEW p \in Requests, NEW v \in Vouchers, RedeemLock(p, v)
      PROVE  IInv'
  BY <1>3, RedeemLockStep
<1>4. ASSUME NEW p \in Requests,
             RefuseReturn(p) \/ LoseKeyRace(p) \/ Abort(p)
      PROVE  IInv'
  <2>1. req' = [req EXCEPT ![p] = NoRequest] /\ UNCHANGED tables
    BY <1>4 DEF RefuseReturn, LoseKeyRace, Abort, tables
  <2>2. QED
    BY <2>1, RollbackStep
<1>5. ASSUME NEW p \in Requests, Proceed(p) PROVE IInv'
  <2>1. CASE ClaimVoucher(p)
    BY <2>1, ClaimVoucherStep
  <2>2. CASE ClaimHolding(p)
    BY <2>2, ClaimHoldingStep
  <2>3. CASE Commit(p)
    BY <2>3, CommitStep
  <2>4. CASE RedeemCommit(p)
    BY <2>4, RedeemCommitStep
  <2>5. QED
    BY <1>4, <1>5, <2>1, <2>2, <2>3, <2>4 DEF Proceed, Claim
<1>6. ASSUME NEW v \in Vouchers, VoucherGenerate(v) \/ VoucherDestroy(v)
      PROVE  IInv'
  BY <1>6, PlainVoucherStep
<1>7. ASSUME NEW a \in Agents, NEW t \in Terms, AgentUpdate(a, t) PROVE IInv'
  BY <1>7, AgentUpdateStep
<1>8. CASE UNCHANGED vars
  <2>1. TypeOK' /\ VoucherBooks' /\ ReversalsExact' /\ KeysSpentOnce'
    BY <1>8 DEF vars, IInv, TypeOK, VoucherBooks, Covering, ReversalsExact,
                KeysSpentOnce, Id
  <2>2. RequestsOK'
    BY <1>8 DEF vars, IInv, RequestsOK, RequestOK, EntriesOK, IssueOK,
                ReturnOK, RedeemOK, RecordOK, Id, Disjoint
  <2>3. QED
    BY <2>1, <2>2 DEF IInv
<1>9. QED
  BY <1>1, <1>2, <1>3, <1>4, <1>5, <1>6, <1>7, <1>8, RecordStep DEF Next

-----------------------------------------------------------------------------
\* The inductive invariant holds in every reachable state of the ledger.
THEOREM Inductive == Spec => []IInv
<1>1. Init => IInv
  BY InitIInv
<1>2. IInv /\ [Next]_vars => IInv'
  BY NextStep
<1>3. QED
  BY <1>1, <1>2, PTL DEF Spec

\* The tables and the running transactions keep their types, whatever the
\* number of agents, vouchers, keys and concurrent requests.
THEOREM TypeCorrect == Spec => []TypeOK
<1>1. IInv => TypeOK
  BY DEF IInv
<1>2. QED
  BY <1>1, Inductive, PTL

\* Whatever returns, issues and redemptions race, each voucher, its
\* agent_vouchers row and the ledger agree: it is charged to its agent exactly
\* once, credited exactly once if returned, and never both returned and
\* redeemed (IssueToAgent, ReturnAgentVouchers, Redeem).
THEOREM VoucherBooksHold == Spec => []VoucherBooks
<1>1. IInv => VoucherBooks
  BY DEF IInv
<1>2. QED
  BY <1>1, Inductive, PTL

\* ReverseEntry: an entry is reversed at most once, by an equal and opposite
\* entry of its own agent, and only a handover or an adjustment is.
THEOREM ReversalsHold == Spec => []ReversalsExact
<1>1. IInv => ReversalsExact
  BY DEF IInv
<1>2. QED
  BY <1>1, Inductive, PTL

\* runIdempotent: one key stands for at most one committed write, of the agent
\* and the operation it was stored for.
THEOREM KeysHold == Spec => []KeysSpentOnce
<1>1. IInv => KeysSpentOnce
  BY DEF IInv
<1>2. QED
  BY <1>1, Inductive, PTL

-----------------------------------------------------------------------------
(* Sums over finite sets.  SumFunction is defined by a recursive function  *)
(* that takes the elements in an unspecified order.                        *)

\* The element a sum takes first.
First(s) == CHOOSE x \in s : TRUE

\* What the recursion of SumFunction says of one set.
SumStep(f, g, s) == IF s = {} THEN 0 ELSE f[First(s)] + g[s \ {First(s)}]

\* g is the sum of f over every subset of T.
Sums(f, T, g) == g = [s \in SUBSET T |-> SumStep(f, g, s)]

Recursion(f, T) == CHOOSE g : Sums(f, T, g)

LEMMA FirstIsIn == ASSUME NEW s, s # {} PROVE First(s) \in s
BY DEF First

\* The sums over the subsets of U only.
Part(g, U) == [s \in SUBSET U |-> g[s]]

LEMMA SumIsRecursion ==
  ASSUME NEW f
  PROVE  SumFunction(f) = Recursion(f, DOMAIN f)[DOMAIN f]
BY DEF SumFunction, SumFunctionOnSet, FoldFunctionOnSet, MapThenFoldSet,
       Recursion, Sums, SumStep, First

\* Among the subsets of a finite set that violate something, one is smallest.
LEMMA Smallest ==
  ASSUME NEW S, IsFiniteSet(S), NEW D, D \subseteq SUBSET S, D # {}
  PROVE  \E s \in D : \A t \in D : t \subseteq s => t = s
<1>1. FiniteSubsetsOf(S) = SUBSET S
  BY FS_FiniteSubsetsOfFinite
<1>2. IsWellFoundedOn(StrictSubsetOrdering(S), SUBSET S)
  BY <1>1, FS_StrictSubsetOrderingWellFounded
<1>3. PICK s \in D : \A t \in D : <<t, s>> \notin StrictSubsetOrdering(S)
  BY <1>2, WFMin
<1>4. ASSUME NEW t \in D, t \subseteq s, t # s PROVE FALSE
  BY <1>3, <1>4 DEF StrictSubsetOrdering
<1>5. QED
  BY <1>4

\* There is one such function,
LEMMA SumsUnique ==
  ASSUME NEW f, NEW T, IsFiniteSet(T), NEW g, NEW h, Sums(f, T, g), Sums(f, T, h)
  PROVE  g = h
<1> DEFINE D == {s \in SUBSET T : g[s] # h[s]}
<1>1. D = {}
  <2> SUFFICES ASSUME D # {} PROVE FALSE
    OBVIOUS
  <2>0. D \subseteq SUBSET T
    OBVIOUS
  <2>1. PICK s \in D : \A t \in D : t \subseteq s => t = s
    <3> HIDE DEF D
    <3>1. QED
      BY <2>0, Smallest
  <2>2. s # {}
    BY <2>1 DEF Sums, SumStep
  <2>3. First(s) \in s
    BY <2>2, FirstIsIn
  <2>4. s \ {First(s)} \in SUBSET T /\ s \ {First(s)} # s
    BY <2>3
  <2>5. g[s \ {First(s)}] = h[s \ {First(s)}]
    BY <2>1, <2>4
  <2>6. QED
    BY <2>1, <2>2, <2>5 DEF Sums, SumStep
<1>2. QED
  BY <1>1 DEF Sums

\* which over fewer elements is the same,
LEMMA SumsRestrict ==
  ASSUME NEW f, NEW T, NEW U, U \subseteq T, NEW g, Sums(f, T, g)
  PROVE  Sums(f, U, Part(g, U))
<1> DEFINE h == Part(g, U)
<1>2. ASSUME NEW s \in SUBSET U
      PROVE  h[s] = SumStep(f, h, s)
  <2>1. s \in SUBSET T /\ s \ {First(s)} \in SUBSET U
    BY <1>2
  <2>2. h[s] = g[s] /\ h[s \ {First(s)}] = g[s \ {First(s)}]
    BY <2>1 DEF Part
  <2>3. QED
    BY <2>1, <2>2 DEF Sums, SumStep
<1>3. QED
  BY <1>2 DEF Sums, Part

\* and there is one at all.
LEMMA SumsExist ==
  ASSUME NEW S, IsFiniteSet(S), NEW f
  PROVE  \E g : Sums(f, S, g)
<1> DEFINE D == {T \in SUBSET S : ~ \E g : Sums(f, T, g)}
           All(T) == CHOOSE g : Sums(f, T, g)
<1>1. D = {}
  <2> SUFFICES ASSUME D # {} PROVE FALSE
    OBVIOUS
  <2>0. D \subseteq SUBSET S
    OBVIOUS
  <2>1. PICK T \in D : \A t \in D : t \subseteq T => t = T
    <3> HIDE DEF D
    <3>1. QED
      BY <2>0, Smallest
  <2>2. \A U \in SUBSET T : U # T => Sums(f, U, All(U))
    BY <2>1
  <2> HIDE DEF All
  <2> DEFINE rest == T \ {First(T)}
             top == IF T = {} THEN 0 ELSE f[First(T)] + All(rest)[rest]
             g == [s \in SUBSET T |-> IF s = T THEN top ELSE All(s)[s]]
  <2>3. T # {} => First(T) \in T /\ rest \in SUBSET T /\ rest # T
    BY FirstIsIn
  <2> HIDE DEF top
  <2>7. ASSUME NEW s \in SUBSET T, s # T
        PROVE  g[s] = SumStep(f, g, s)
    <3> DEFINE r == s \ {First(s)}
    <3>1. Sums(f, s, All(s))
      BY <2>2, <2>7
    <3>2. All(s)[s] = SumStep(f, All(s), s)
      BY <3>1 DEF Sums
    <3>3. CASE s = {}
      BY <2>7, <3>2, <3>3 DEF SumStep
    <3>4. CASE s # {}
      <4>1. First(s) \in s
        BY <3>4, FirstIsIn
      <4>2. r \in SUBSET s /\ r # s /\ r \in SUBSET T /\ r # T
        BY <4>1, <2>7
      <4>3. Sums(f, r, All(r))
        BY <2>2, <4>2
      <4>4. IsFiniteSet(r)
        BY <4>2, FS_Subset, <2>1
      <4>5. Part(All(s), r) = All(r)
        <5>1. Sums(f, r, Part(All(s), r))
          BY <3>1, <4>2, SumsRestrict
        <5>2. QED
          BY <4>3, <4>4, <5>1, SumsUnique
      <4>6. All(s)[r] = All(r)[r]
        BY <4>5 DEF Part
      <4>7. g[r] = All(r)[r] /\ g[s] = All(s)[s]
        BY <2>7, <4>2
      <4>8. QED
        BY <3>2, <3>4, <4>6, <4>7 DEF SumStep
    <3>5. QED
      BY <3>3, <3>4
  <2>8. g[T] = SumStep(f, g, T)
    <3>1. g[T] = top
      OBVIOUS
    <3>2. CASE T = {}
      BY <3>1, <3>2 DEF SumStep, top
    <3>3. CASE T # {}
      <4>1. g[rest] = All(rest)[rest]
        BY <2>3, <3>3
      <4>2. QED
        BY <3>1, <3>3, <4>1 DEF SumStep, top
    <3>4. QED
      BY <3>2, <3>3
  <2>9. Sums(f, T, g)
    BY <2>7, <2>8 DEF Sums
  <2>10. QED
    BY <2>1, <2>9
<1>2. QED
  BY <1>1

LEMMA SumOver ==
  ASSUME NEW S, IsFiniteSet(S), NEW f, DOMAIN f = S
  PROVE  /\ Sums(f, S, Recursion(f, S))
         /\ SumFunction(f) = Recursion(f, S)[S]
BY SumsExist, SumIsRecursion DEF Recursion

LEMMA SumsType ==
  ASSUME NEW S, IsFiniteSet(S), NEW f \in [S -> Int], NEW g, Sums(f, S, g)
  PROVE  \A T \in SUBSET S : g[T] \in Int
<1> DEFINE D == {s \in SUBSET S : g[s] \notin Int}
<1>1. D = {}
  <2> SUFFICES ASSUME D # {} PROVE FALSE
    OBVIOUS
  <2>0. D \subseteq SUBSET S
    OBVIOUS
  <2>1. PICK s \in D : \A t \in D : t \subseteq s => t = s
    <3> HIDE DEF D
    <3>1. QED
      BY <2>0, Smallest
  <2>2. g[s] = SumStep(f, g, s)
    BY <2>1 DEF Sums
  <2>3. s # {}
    BY <2>1, <2>2 DEF SumStep
  <2>4. First(s) \in s
    BY <2>3, FirstIsIn
  <2>5. s \ {First(s)} \in SUBSET S /\ s \ {First(s)} # s
    BY <2>1, <2>4
  <2>6. g[s \ {First(s)}] \in Int /\ f[First(s)] \in Int
    BY <2>1, <2>4, <2>5
  <2>7. QED
    BY <2>1, <2>2, <2>3, <2>6 DEF SumStep
<1>2. QED
  BY <1>1

\* The order does not matter.
LEMMA SumsAnyOrder ==
  ASSUME NEW S, IsFiniteSet(S), NEW f \in [S -> Int], NEW g, Sums(f, S, g),
         NEW T \in SUBSET S, NEW x \in T
  PROVE  g[T] = f[x] + g[T \ {x}]
<1> DEFINE D == {s \in SUBSET S : \E y \in s : g[s] # f[y] + g[s \ {y}]}
<1>1. D = {}
  <2> SUFFICES ASSUME D # {} PROVE FALSE
    OBVIOUS
  <2>0. D \subseteq SUBSET S
    OBVIOUS
  <2>1. PICK s \in D : \A t \in D : t \subseteq s => t = s
    <3> HIDE DEF D
    <3>1. QED
      BY <2>0, Smallest
  <2>2. PICK y \in s : g[s] # f[y] + g[s \ {y}]
    BY <2>1
  <2> DEFINE p == First(s)
             q == (s \ {p}) \ {y}
  <2>3. p \in s /\ g[s] = f[p] + g[s \ {p}]
    BY <2>1, <2>2, FirstIsIn DEF Sums, SumStep
  <2> HIDE DEF p
  <2>4. p # y
    BY <2>2, <2>3
  <2>5. g[s \ {p}] = f[y] + g[q]
    <3>1. s \ {p} \in SUBSET S /\ s \ {p} # s /\ y \in s \ {p}
      BY <2>1, <2>3, <2>4
    <3>2. s \ {p} \notin D
      BY <2>1, <3>1
    <3>3. QED
      BY <3>1, <3>2
  <2>6. g[s \ {y}] = f[p] + g[q]
    <3>1. s \ {y} \in SUBSET S /\ s \ {y} # s /\ p \in s \ {y}
      BY <2>1, <2>2, <2>3, <2>4
    <3>2. s \ {y} \notin D
      BY <2>1, <3>1
    <3>3. (s \ {y}) \ {p} = q
      OBVIOUS
    <3>4. QED
      BY <3>1, <3>2, <3>3
  <2>7. f[p] \in Int /\ f[y] \in Int /\ g[q] \in Int
    BY <2>1, <2>2, <2>3, SumsType
  <2> HIDE DEF q
  <2>8. QED
    BY <2>2, <2>3, <2>5, <2>6, <2>7
<1>2. QED
  BY <1>1

LEMMA SumType ==
  ASSUME NEW S, IsFiniteSet(S), NEW f \in [S -> Int]
  PROVE  SumFunction(f) \in Int
BY SumOver, SumsType

\* The sum of nothing is zero, that of one element its value.
LEMMA SumEmpty ==
  ASSUME NEW f, DOMAIN f = {}
  PROVE  SumFunction(f) = 0
<1>1. IsFiniteSet({})
  BY FS_EmptySet
<1>2. Recursion(f, {})[{}] = SumStep(f, Recursion(f, {}), {})
  BY <1>1, SumOver DEF Sums
<1>3. QED
  BY <1>1, <1>2, SumOver DEF SumStep

LEMMA SumOne ==
  ASSUME NEW x, NEW f \in [{x} -> Int]
  PROVE  SumFunction(f) = f[x]
<1> DEFINE g == Recursion(f, {x})
<1>1. IsFiniteSet({x}) /\ DOMAIN f = {x} /\ {x} \in SUBSET {x} /\ x \in {x}
  BY FS_Singleton
<1>2. Sums(f, {x}, g) /\ SumFunction(f) = g[{x}]
  BY <1>1, SumOver
<1> HIDE DEF g
<1>3. g[{x}] = f[x] + g[{x} \ {x}]
  <2>1. First({x}) = x
    BY FirstIsIn
  <2>2. QED
    BY <1>2, <2>1 DEF Sums, SumStep
<1>4. {x} \ {x} = {} /\ f[x] \in Int
  OBVIOUS
<1>5. g[{}] = 0
  BY <1>2 DEF Sums, SumStep
<1>6. QED
  BY <1>2, <1>3, <1>4, <1>5

\* f on the elements of S only.
On(f, S) == [y \in S |-> f[y]]

LEMMA SumOn ==
  ASSUME NEW T, IsFiniteSet(T), NEW f \in [T -> Int], NEW g, Sums(f, T, g),
         NEW S, S \subseteq T
  PROVE  SumFunction(On(f, S)) = g[S] /\ g[S] \in Int
<1> DEFINE h == On(f, S)
           k == Part(g, S)
<1>1. IsFiniteSet(S) /\ DOMAIN h = S
  BY FS_Subset DEF On
<1>2. Sums(f, S, k)
  BY SumsRestrict
<1>3. Sums(h, S, k)
  <2>1. ASSUME NEW s \in SUBSET S PROVE SumStep(f, k, s) = SumStep(h, k, s)
    BY FirstIsIn DEF SumStep, On
  <2>2. QED
    BY <1>2, <2>1 DEF Sums, Part
<1> HIDE DEF h
<1>4. SumFunction(h) = k[S]
  BY <1>1, <1>3, SumOver, SumsUnique
<1>5. k[S] = g[S]
  BY DEF Part
<1>6. g[S] \in Int
  BY SumsType
<1>7. QED
  BY <1>4, <1>5, <1>6 DEF h

\* The sum over two sets that are apart is the sum of their sums.
LEMMA SumApart ==
  ASSUME NEW A, NEW B, IsFiniteSet(A), IsFiniteSet(B), A \cap B = {},
         NEW f \in [A \cup B -> Int]
  PROVE  SumFunction(f) = SumFunction(On(f, A)) + SumFunction(On(f, B))
<1> DEFINE T == A \cup B
           g == Recursion(f, T)
           D == {U \in SUBSET B : g[A \cup U] # g[A] + g[U]}
<1>1. IsFiniteSet(T) /\ A \subseteq T /\ B \subseteq T /\ f \in [T -> Int] /\ DOMAIN f = T
  BY FS_Union
<1>2. Sums(f, T, g) /\ SumFunction(f) = g[T]
  BY <1>1, SumOver
<1> HIDE DEF g
<1>3. D = {}
  <2> SUFFICES ASSUME D # {} PROVE FALSE
    OBVIOUS
  <2>0. D \subseteq SUBSET B
    OBVIOUS
  <2>1. PICK U \in D : \A t \in D : t \subseteq U => t = U
    <3> HIDE DEF D
    <3>1. QED
      BY <2>0, Smallest
  <2>2. /\ g[A] \in Int /\ g[U] \in Int /\ g[A \cup U] \in Int
        /\ \A y \in U : g[U \ {y}] \in Int
    <3>1. /\ A \in SUBSET T /\ U \in SUBSET T /\ A \cup U \in SUBSET T
          /\ \A y \in U : U \ {y} \in SUBSET T
      BY <2>1
    <3> HIDE DEF T
    <3>2. QED
      BY <1>1, <1>2, <3>1, SumsType
  <2>3. U # {}
    <3> SUFFICES ASSUME U = {} PROVE FALSE
      OBVIOUS
    <3>1. A \cup U = A
      OBVIOUS
    <3>2. g[U] = 0
      BY <1>2 DEF Sums, SumStep
    <3>3. g[A \cup U] # g[A] + g[U]
      BY <2>1
    <3>4. QED
      BY <2>2, <3>1, <3>2, <3>3
  <2>4. PICK x \in U : TRUE
    BY <2>3
  <2> DEFINE W == U \ {x}
  <2>5. /\ W \subseteq U /\ W # U /\ W \in SUBSET B
        /\ (A \cup U) \ {x} = A \cup W
        /\ x \in U /\ U \in SUBSET T /\ A \cup U \in SUBSET T /\ x \in A \cup U
    BY <2>1, <2>4
  <2>6. W \notin D
    BY <2>1, <2>5
  <2>7. g[A \cup W] = g[A] + g[W]
    BY <2>5, <2>6
  <2> HIDE DEF T
  <2>8. g[A \cup U] = f[x] + g[A \cup W]
    BY <1>1, <1>2, <2>5, SumsAnyOrder
  <2>9. g[U] = f[x] + g[W]
    BY <1>1, <1>2, <2>5, SumsAnyOrder
  <2>10. f[x] \in Int /\ g[W] \in Int
    BY <1>1, <2>2, <2>4, <2>5
  <2>11. QED
    BY <2>1, <2>2, <2>7, <2>8, <2>9, <2>10
<1>4. g[T] = g[A] + g[B]
  BY <1>3
<1> HIDE DEF T, D
<1>5. SumFunction(On(f, A)) = g[A] /\ SumFunction(On(f, B)) = g[B]
  BY <1>1, <1>2, SumOn
<1>6. QED
  BY <1>2, <1>4, <1>5

\* The sum of the same value.
LEMMA SumSame ==
  ASSUME NEW S, IsFiniteSet(S), NEW c \in Int, NEW f \in [S -> Int],
         \A y \in S : f[y] = c
  PROVE  SumFunction(f) = Cardinality(S) * c
<1> DEFINE g == Recursion(f, S)
           D == {U \in SUBSET S : g[U] # Cardinality(U) * c}
<1>1. Sums(f, S, g) /\ SumFunction(f) = g[S]
  BY SumOver
<1> HIDE DEF g
<1>2. D = {}
  <2> SUFFICES ASSUME D # {} PROVE FALSE
    OBVIOUS
  <2>0. D \subseteq SUBSET S
    OBVIOUS
  <2>1. PICK U \in D : \A t \in D : t \subseteq U => t = U
    <3> HIDE DEF D
    <3>1. QED
      BY <2>0, Smallest
  <2>2. IsFiniteSet(U) /\ U \in SUBSET S
    BY <2>1, FS_Subset
  <2>3. U # {}
    <3> SUFFICES ASSUME U = {} PROVE FALSE
      OBVIOUS
    <3>1. g[U] = 0
      BY <1>1 DEF Sums, SumStep
    <3>2. Cardinality(U) = 0
      BY FS_EmptySet
    <3>3. g[U] # Cardinality(U) * c
      BY <2>1
    <3>4. QED
      BY <3>1, <3>2, <3>3
  <2>4. PICK x \in U : TRUE
    BY <2>3
  <2>5. g[U] = f[x] + g[U \ {x}] /\ f[x] = c
    BY <1>1, <2>2, SumsAnyOrder
  <2>6. g[U \ {x}] = Cardinality(U \ {x}) * c
    BY <2>1, <2>2, <2>4
  <2>7. Cardinality(U \ {x}) = Cardinality(U) - 1 /\ Cardinality(U) \in Nat
    BY <2>2, FS_RemoveElement, FS_CardinalityType
  <2>8. \A n \in Nat : c + (n - 1) * c = n * c
    OBVIOUS
  <2>9. QED
    BY <2>1, <2>5, <2>6, <2>7, <2>8
<1>3. QED
  BY <1>1, <1>2

-----------------------------------------------------------------------------
(* The books of money: what a running transaction will charge or give      *)
(* back, and what the committed entries are worth.                         *)

\* The entries of cash, and those of stock.
CashTypes == {"handover", "adjustment", "reversal"}
CashOf(S)  == {e \in S : e.type \in CashTypes}
StockOf(S) == {e \in S : e.type \notin CashTypes}

\* The vouchers an agent got and has not returned, and what vouchers cost.
Owned(a) == {v \in HeldBy(a) : holding[v].status \in {"issued", "sold"}}
Nets(S)  == SumFunction([v \in S |-> Net(v)])
Cost(r)  == Cardinality(r.stock) * (r.face - r.comm)

\* An issue charges its vouchers at their price, within the limit or against
\* cash; a return has added up what it has claimed.
ChargeOK(r) ==
  r.op = "issue" =>
    /\ r.stock # {}
    /\ SumAmounts(StockOf(r.entries)) = Cost(r)
    /\ \/ SumAmounts(r.entries) = 0
       \/ /\ SumAmounts(r.entries) = Cost(r)
          /\ Balance(r.agent) + Cost(r) <= agent[r.agent].limit

CreditOK(r) ==
  r.op = "return" =>
    /\ r.avs \cup r.todo # {}
    /\ r.face - r.comm = Nets(r.avs)

MoneyOK(r) == IsFiniteSet(r.entries) /\ ChargeOK(r) /\ CreditOK(r)

\* The stock entries of an agent are worth what they own.
StockPaid(a) == SumAmounts(StockOf(EntriesOf(a))) = Nets(Owned(a))

\* One transaction at a time has an agent's row.
Alone ==
  \A p, q \in Requests :
    p # q /\ req[p].agent = req[q].agent => req[p].agent = None

\* The second half of the inductive invariant.
MoneyInv ==
  /\ IsFiniteSet(ledger)
  /\ Alone
  /\ \A a \in Agents : StockPaid(a)
  /\ \A p \in Requests : MoneyOK(req[p])

-----------------------------------------------------------------------------
\* A sum over two sets that are apart, of values of one function,
LEMMA SumSplit ==
  ASSUME NEW A, NEW B, IsFiniteSet(A), IsFiniteSet(B), A \cap B = {}, NEW f,
         \A x \in A \cup B : f[x] \in Int
  PROVE  /\ SumFunction(On(f, A \cup B)) = SumFunction(On(f, A)) + SumFunction(On(f, B))
         /\ SumFunction(On(f, A)) \in Int
         /\ SumFunction(On(f, B)) \in Int
<1> DEFINE g == On(f, A \cup B)
<1>1. /\ g \in [A \cup B -> Int] /\ On(f, A) \in [A -> Int]
      /\ On(f, B) \in [B -> Int]
  BY DEF On
<1>2. On(g, A) = On(f, A) /\ On(g, B) = On(f, B)
  BY DEF On
<1> HIDE DEF g
<1>3. SumFunction(g) = SumFunction(On(g, A)) + SumFunction(On(g, B))
  BY <1>1, SumApart
<1>4. SumFunction(On(f, A)) \in Int /\ SumFunction(On(f, B)) \in Int
  BY <1>1, SumType
<1>5. QED
  BY <1>2, <1>3, <1>4 DEF g

\* of the amounts of entries,
LEMMA AmountsApart ==
  ASSUME NEW A, NEW B, IsFiniteSet(A), IsFiniteSet(B), A \cap B = {},
         A \cup B \subseteq Entry
  PROVE  /\ SumAmounts(A \cup B) = SumAmounts(A) + SumAmounts(B)
         /\ SumAmounts(A) \in Int /\ SumAmounts(B) \in Int
<1> DEFINE f == [e \in A \cup B |-> e.amount]
<1>1. \A e \in A \cup B : f[e] \in Int
  BY DEF Entry
<1>2. /\ On(f, A) = [e \in A |-> e.amount] /\ On(f, B) = [e \in B |-> e.amount]
      /\ On(f, A \cup B) = [e \in A \cup B |-> e.amount]
  BY DEF On
<1> HIDE DEF f
<1>3. /\ SumFunction(On(f, A \cup B)) = SumFunction(On(f, A)) + SumFunction(On(f, B))
      /\ SumFunction(On(f, A)) \in Int /\ SumFunction(On(f, B)) \in Int
  BY <1>1, SumSplit
<1>4. QED
  BY <1>2, <1>3 DEF SumAmounts

LEMMA AmountsNone == SumAmounts({}) = 0
BY SumEmpty DEF SumAmounts

LEMMA AmountsOne == ASSUME NEW e \in Entry PROVE SumAmounts({e}) = e.amount
<1> DEFINE f == [x \in {e} |-> x.amount]
<1>1. f \in [{e} -> Int] /\ f[e] = e.amount
  BY DEF Entry
<1> HIDE DEF f
<1>2. SumFunction(f) = f[e]
  BY <1>1, SumOne
<1>3. QED
  BY <1>1, <1>2 DEF SumAmounts, f

\* The sum of one more entry.
LEMMA AmountsMore ==
  ASSUME NEW A, IsFiniteSet(A), A \subseteq Entry, NEW e \in Entry, e \notin A
  PROVE  /\ IsFiniteSet(A \cup {e})
         /\ SumAmounts(A \cup {e}) = SumAmounts(A) + e.amount
<1>1. IsFiniteSet({e})
  BY FS_Singleton
<1>2. SumAmounts(A \cup {e}) = SumAmounts(A) + SumAmounts({e})
  BY <1>1, AmountsApart
<1>3. IsFiniteSet(A \cup {e})
  BY FS_AddElement
<1>4. QED
  BY <1>2, <1>3, AmountsOne

\* What an issue writes: its vouchers at their price, and for vouchers paid
\* at once the same sum in cash.
LEMMA IssueSums ==
  ASSUME NEW a \in Agents, NEW k \in Keys, NEW vs \in SUBSET Vouchers,
         NEW n \in Nat, Cardinality(vs) = n, NEW face \in Nat, NEW comm \in Nat,
         comm <= face, NEW funding \in Fundings, NEW ref \in Refs \cup {None},
         NEW es, es = IssueEntries(a, k, vs, face, comm, funding, ref)
  PROVE  /\ IsFiniteSet(es)
         /\ SumAmounts(StockOf(es)) = n * (face - comm)
         /\ IF funding = "upfront" THEN SumAmounts(es) = 0
                                   ELSE SumAmounts(es) = n * (face - comm)
<1> DEFINE x == n * face
           y == n * comm
           z == n * (face - comm)
           i == Line(k, "issue", a, x, None, None, vs)
           c == Line(k, "commission", a, -y, None, None, vs)
           h == Line(k, "handover", a, -z, ref, None, vs)
           C == IF comm > 0 THEN {i} \cup {c} ELSE {i}
<1>1. /\ x \in Int /\ y \in Int /\ z \in Int /\ -y \in Int /\ -z \in Int
      /\ z = x - y /\ z >= 0
      /\ comm = 0 => y = 0
  <2>1. \A u, v, w \in Nat : u * (v - w) = u * v - u * w
    OBVIOUS
  <2>2. \A u, v \in Nat : u * v \in Nat
    OBVIOUS
  <2>3. face - comm \in Nat
    OBVIOUS
  <2>4. x \in Nat /\ y \in Nat /\ z \in Nat
    BY <2>2, <2>3
  <2>5. z = x - y
    BY <2>1
  <2>6. comm = 0 => y = 0
    OBVIOUS
  <2> HIDE DEF x, y, z
  <2>7. QED
    BY <2>4, <2>5, <2>6
<1>2. es = IF funding = "upfront" /\ z > 0 THEN C \cup {h} ELSE C
  BY DEF IssueEntries
<1> HIDE DEF x, y, z
<1>3. /\ i \in Entry /\ i.type = "issue" /\ i.amount = x
      /\ c \in Entry /\ c.type = "commission" /\ c.amount = -y
      /\ h \in Entry /\ h.type = "handover" /\ h.amount = -z
  <2>1. i \in Entry /\ i.type = "issue" /\ i.amount = x
    BY <1>1 DEF Line, Entry, EntryTypes
  <2>2. c \in Entry /\ c.type = "commission" /\ c.amount = -y
    BY <1>1 DEF Line, Entry, EntryTypes
  <2>3. h \in Entry /\ h.type = "handover" /\ h.amount = -z
    BY <1>1 DEF Line, Entry, EntryTypes
  <2>4. QED
    BY <2>1, <2>2, <2>3
<1> HIDE DEF i, c, h
<1>4. IsFiniteSet({i}) /\ SumAmounts({i}) = x
  BY <1>3, FS_Singleton, AmountsOne
<1>5. IsFiniteSet({i} \cup {c}) /\ SumAmounts({i} \cup {c}) = x + (-y)
  BY <1>3, <1>4, AmountsMore
<1>6. /\ IsFiniteSet(C) /\ SumAmounts(C) = z /\ C \subseteq Entry
      /\ \A e \in C : e.type \in {"issue", "commission"}
  <2>1. CASE comm > 0
    <3>1. C = {i} \cup {c}
      BY <2>1
    <3>2. x + (-y) = z
      BY <1>1
    <3>3. QED
      BY <1>3, <1>5, <3>1, <3>2
  <2>2. CASE ~(comm > 0)
    <3>1. C = {i}
      BY <2>2
    <3>2. x = z
      BY <1>1, <2>2
    <3>3. QED
      BY <1>3, <1>4, <3>1, <3>2
  <2>3. QED
    BY <2>1, <2>2
<1> HIDE DEF C
<1>7. IsFiniteSet(C \cup {h}) /\ SumAmounts(C \cup {h}) = z + (-z)
  BY <1>3, <1>6, AmountsMore
<1>8. StockOf(es) = C
  BY <1>2, <1>3, <1>6 DEF StockOf, CashTypes
<1>9. CASE funding = "upfront" /\ z > 0
  BY <1>1, <1>2, <1>6, <1>7, <1>8, <1>9 DEF z
<1>10. CASE funding = "upfront" /\ ~(z > 0)
  BY <1>1, <1>2, <1>6, <1>8, <1>10 DEF z
<1>11. CASE funding # "upfront"
  BY <1>1, <1>2, <1>6, <1>8, <1>11 DEF z
<1>12. QED
  BY <1>9, <1>10, <1>11

\* What a return writes: what its vouchers cost, given back.
LEMMA ReturnSums ==
  ASSUME NEW r \in Request, r.agent \in Agents, r.key \in Keys,
         NEW W, W = ReturnEntries(r)
  PROVE  /\ IsFiniteSet(W) /\ StockOf(W) = W
         /\ SumAmounts(W) = r.comm - r.face
<1> DEFINE x == r.face
           y == r.comm
           i == Line(r.key, "return", r.agent, -x, None, None, r.avs)
           c == Line(r.key, "commission_reversal", r.agent, y, None, None, r.avs)
<1>1. x \in Nat /\ y \in Nat /\ -x \in Int /\ r.avs \in SUBSET Vouchers
  BY DEF Request
<1>2. W = IF y > 0 THEN {i} \cup {c} ELSE {i}
  BY DEF ReturnEntries
<1> HIDE DEF x, y
<1>3. /\ i \in Entry /\ i.type = "return" /\ i.amount = -x
      /\ c \in Entry /\ c.type = "commission_reversal" /\ c.amount = y
  BY <1>1 DEF Line, Entry, EntryTypes
<1> HIDE DEF i, c
<1>4. IsFiniteSet({i}) /\ SumAmounts({i}) = -x
  BY <1>3, FS_Singleton, AmountsOne
<1>5. IsFiniteSet({i} \cup {c}) /\ SumAmounts({i} \cup {c}) = -x + y
  BY <1>3, <1>4, AmountsMore
<1>6. IsFiniteSet(W) /\ SumAmounts(W) = y - x
  <2>1. CASE y > 0
    BY <1>1, <1>2, <1>5, <2>1
  <2>2. CASE ~(y > 0)
    BY <1>1, <1>2, <1>4, <2>2
  <2>3. QED
    BY <2>1, <2>2
<1>7. StockOf(W) = W
  BY <1>2, <1>3 DEF StockOf, CashTypes
<1>8. QED
  BY <1>6, <1>7 DEF x, y

-----------------------------------------------------------------------------
\* A step that only rewrites what one request holds.
LEMMA RequestMoney ==
  ASSUME IInv, MoneyInv, NEW p \in Requests, NEW r \in Request,
         req' = [req EXCEPT ![p] = r], UNCHANGED tables, MoneyOK(r),
         r.agent = None \/ r.agent = req[p].agent \/ AgentFree(r.agent)
  PROVE  MoneyInv'
<1>1. \A q \in Requests : req'[q] = IF q = p THEN r ELSE req[q]
  BY DEF IInv, TypeOK
<1>2. IsFiniteSet(ledger')
  BY DEF MoneyInv, tables
<1>3. Alone'
  BY <1>1 DEF MoneyInv, Alone, AgentFree
<1>4. ASSUME NEW a \in Agents PROVE StockPaid(a)'
  <2>1. StockPaid(a)
    BY DEF MoneyInv
  <2>2. QED
    BY <2>1 DEF StockPaid, SumAmounts, StockOf, EntriesOf, Nets, Owned, HeldBy,
                Net, tables
<1>5. ASSUME NEW q \in Requests PROVE MoneyOK(req[q])'
  <2>1. MoneyOK(req'[q])
    BY <1>1 DEF MoneyInv
  <2>2. QED
    BY <2>1 DEF MoneyOK, ChargeOK, CreditOK, SumAmounts, StockOf, Cost, Balance,
                EntriesOf, Nets, Net, tables
<1>6. QED
  BY <1>2, <1>3, <1>4, <1>5 DEF MoneyInv

LEMMA NoMoney == MoneyOK(NoRequest) /\ NoRequest \in Request /\ NoRequest.agent = None
<1>1. NoRequest \in Request /\ NoRequest.agent = None
  BY DEF NoRequest, Tx, Request
<1>2. IsFiniteSet(NoRequest.entries)
  BY FS_EmptySet DEF NoRequest, Tx
<1>3. NoRequest.op = "none"
  BY DEF NoRequest, Tx
<1>4. QED
  BY <1>1, <1>2, <1>3 DEF MoneyOK, ChargeOK, CreditOK

LEMMA RollbackMoney ==
  ASSUME IInv, MoneyInv, NEW p \in Requests,
         req' = [req EXCEPT ![p] = NoRequest], UNCHANGED tables
  PROVE  MoneyInv'
BY NoMoney, RequestMoney

LEMMA StartIssueMoney ==
  ASSUME IInv, MoneyInv, NEW p \in Requests, NEW a \in Agents, NEW k \in Keys,
         NEW n \in 1..MaxAgentBatch, NEW face \in Faces,
         NEW funding \in Fundings, NEW ref \in Refs \cup {None},
         StartIssue(p, a, k, n, face, funding, ref)
  PROVE  MoneyInv'
<1> DEFINE comm == CommissionFor(agent[a], face)
<1>1. comm \in Nat /\ face \in Nat /\ comm <= face /\ n \in Nat /\ n # 0
  <2>1. /\ face \in Nat /\ agent[a] \in Terms /\ agent[a].value \in Nat
        /\ n \in Nat /\ n # 0
    BY LedgerAssumption DEF IInv, TypeOK, Profile
  <2>2. (face * agent[a].value + 5000) \div 10000 \in Nat
    <3>1. face * agent[a].value \in Nat
      BY <2>1
    <3>2. \A m \in Nat : (m + 5000) \div 10000 \in Nat
      OBVIOUS
    <3>3. QED
      BY <3>1, <3>2
  <2>3. QED
    BY <2>1, <2>2 DEF CommissionFor
<1>2. PICK vs \in SUBSET Fresh :
        /\ Cardinality(vs) = n
        /\ req' = [req EXCEPT ![p] =
                    IssueTx(a, k, funding, vs, face, comm,
                            IssueEntries(a, k, vs, face, comm, funding, ref))]
  BY DEF StartIssue
<1> DEFINE es == IssueEntries(a, k, vs, face, comm, funding, ref)
           r == IssueTx(a, k, funding, vs, face, comm, es)
<1>3. AgentFree(a) /\ UNCHANGED tables /\ Funded(a, n * (face - comm), funding)
  BY DEF StartIssue, Begin, tables
<1>4. req' = [req EXCEPT ![p] = r]
  BY <1>2
<1>5. vs \in SUBSET Vouchers
  BY <1>2 DEF Fresh
<1> HIDE DEF comm, es
<1>6. /\ IsFiniteSet(es)
      /\ SumAmounts(StockOf(es)) = n * (face - comm)
      /\ IF funding = "upfront" THEN SumAmounts(es) = 0
                                ELSE SumAmounts(es) = n * (face - comm)
  BY <1>1, <1>2, <1>5, IssueSums DEF es
<1>7. es \subseteq Entry
  <2>1. /\ n * face \in Int /\ -(n * comm) \in Int
        /\ -(n * (face - comm)) \in Int
    BY <1>1
  <2>2. QED
    BY <1>2, <1>5, <2>1 DEF es, IssueEntries, Line, Entry, EntryTypes
<1>8. r \in Request
  BY <1>1, <1>5, <1>7 DEF IssueTx, Tx, Request, Operations
<1>9. /\ r.op = "issue" /\ r.agent = a /\ r.entries = es /\ r.stock = vs
      /\ r.face = face /\ r.comm = comm
  BY DEF IssueTx, Tx
<1> HIDE DEF r
<1>10. vs # {}
  BY <1>1, <1>2, FS_EmptySet
<1>11. Cost(r) = n * (face - comm)
  BY <1>2, <1>9 DEF Cost
<1>12. funding # "upfront" => Balance(a) + n * (face - comm) <= agent[a].limit
  <2>1. CASE funding = "credit"
    BY <1>3, <2>1 DEF Funded
  <2>2. CASE funding = "float"
    <3>1. agent[a].limit \in Nat
      BY LedgerAssumption DEF IInv, TypeOK, Profile
    <3>2. Balance(a) + n * (face - comm) <= 0
      BY <1>3, <2>2 DEF Funded
    <3>3. Balance(a) \in Int
      <4>1. EntriesOf(a) \subseteq Entry /\ IsFiniteSet(EntriesOf(a))
        BY FS_Subset DEF IInv, TypeOK, MoneyInv, EntriesOf
      <4>2. QED
        BY <4>1, AmountsApart, FS_EmptySet DEF Balance
    <3>4. n * (face - comm) \in Int
      BY <1>1
    <3>5. QED
      BY <3>1, <3>2, <3>3, <3>4
  <2>3. QED
    BY <2>1, <2>2 DEF Fundings
<1>13. MoneyOK(r)
  BY <1>6, <1>9, <1>10, <1>11, <1>12 DEF MoneyOK, ChargeOK, CreditOK
<1>14. QED
  BY <1>3, <1>4, <1>8, <1>9, <1>13, RequestMoney

LEMMA StartReturnMoney ==
  ASSUME IInv, MoneyInv, NEW p \in Requests, NEW a \in Agents, NEW k \in Keys,
         NEW held \in SUBSET HeldBy(a), StartReturn(p, a, k, held)
  PROVE  MoneyInv'
<1> DEFINE r == ReturnTx(a, k, 0, 0, held, {}, {})
<1>1. r \in Request
  BY DEF ReturnTx, Tx, Request, Operations, HeldBy
<1>2. /\ r.op = "return" /\ r.agent = a /\ r.entries = {} /\ r.avs = {}
      /\ r.todo = held /\ r.face = 0 /\ r.comm = 0
  BY DEF ReturnTx, Tx
<1>3. /\ req' = [req EXCEPT ![p] = r] /\ UNCHANGED tables /\ AgentFree(a)
      /\ held # {}
  BY DEF StartReturn, Begin, tables
<1> HIDE DEF r
<1>4. Nets({}) = 0
  BY SumEmpty DEF Nets
<1>5. MoneyOK(r)
  BY <1>2, <1>3, <1>4, FS_EmptySet DEF MoneyOK, ChargeOK, CreditOK
<1>6. QED
  BY <1>1, <1>2, <1>3, <1>5, RequestMoney

LEMMA StartEntryMoney ==
  ASSUME IInv, MoneyInv, NEW p \in Requests, NEW op, NEW e,
         op \in {"handover", "adjustment", "reversal"}, e \in Entry,
         StartEntry(p, op, e)
  PROVE  MoneyInv'
<1> DEFINE r == EntryTx(op, e)
<1>1. r \in Request
  BY DEF EntryTx, Tx, Request, Operations, Entry
<1>2. r.op = op /\ r.agent = e.agent /\ r.entries = {e}
  BY DEF EntryTx, Tx
<1>3. req' = [req EXCEPT ![p] = r] /\ UNCHANGED tables /\ AgentFree(e.agent)
  BY DEF StartEntry, Begin, tables
<1> HIDE DEF r
<1>4. MoneyOK(r)
  BY <1>2, FS_Singleton DEF MoneyOK, ChargeOK, CreditOK
<1>5. QED
  BY <1>1, <1>2, <1>3, <1>4, RequestMoney

LEMMA RecordMoney ==
  ASSUME IInv, MoneyInv, NEW p \in Requests, Record(p)
  PROVE  MoneyInv'
<1> DEFINE Started == \E op \in {"handover", "adjustment", "reversal"},
                         e \in Entry : StartEntry(p, op, e)
<1>1. Started
  <2>1. PICK a \in Agents, k \in Keys :
          \/ \E amount \in HandoverAmounts, ref \in Refs \cup {None} :
               StartHandover(p, a, k, amount, ref)
          \/ \E amount \in AdjustmentAmounts : StartAdjustment(p, a, k, amount)
          \/ \E orig \in ledger : StartReversal(p, a, k, orig)
    BY DEF Record
  <2>2. ASSUME NEW amount \in HandoverAmounts, NEW ref \in Refs \cup {None},
               StartHandover(p, a, k, amount, ref)
        PROVE  Started
    <3> DEFINE e == Line(k, "handover", a, -amount, ref, None, {})
    <3>1. e \in Entry
      BY LedgerAssumption DEF Line, Entry, EntryTypes
    <3>2. QED
      BY <2>2, <3>1 DEF StartHandover
  <2>3. ASSUME NEW amount \in AdjustmentAmounts, StartAdjustment(p, a, k, amount)
        PROVE  Started
    <3> DEFINE e == Line(k, "adjustment", a, amount, None, None, {})
    <3>1. e \in Entry
      BY LedgerAssumption DEF Line, Entry, EntryTypes
    <3>2. QED
      BY <2>3, <3>1 DEF StartAdjustment
  <2>4. ASSUME NEW o \in ledger, StartReversal(p, a, k, o)
        PROVE  Started
    <3> DEFINE e == Line(k, "reversal", a, -o.amount, o.ref, Id(o), {})
    <3>1. o \in Entry /\ Id(o) \in EntryIds
      BY DEF IInv, TypeOK, Entry, Id, EntryIds
    <3>2. e \in Entry
      BY <3>1 DEF Line, Entry, EntryTypes
    <3>3. QED
      BY <2>4, <3>2 DEF StartReversal
  <2>5. QED
    BY <2>1, <2>2, <2>3, <2>4
<1>2. QED
  BY <1>1, StartEntryMoney

LEMMA ClaimVoucherMoney ==
  ASSUME IInv, MoneyInv, NEW p \in Requests, ClaimVoucher(p)
  PROVE  MoneyInv'
<1>1. PICK v \in Current(p) :
        req' = [req EXCEPT ![p] =
                  ReturnTx(req[p].agent, req[p].key, req[p].face, req[p].comm,
                           req[p].todo, req[p].rows \cup {v}, req[p].avs)]
  BY DEF ClaimVoucher
<1> DEFINE s == req[p]
           r == ReturnTx(s.agent, s.key, s.face, s.comm, s.todo,
                         s.rows \cup {v}, s.avs)
<1>2. /\ s.op = "return" /\ v \in Vouchers /\ s \in Request
      /\ s.agent \in Agents /\ s.key \in Keys
  BY CurrentIsReturn
<1>3. r \in Request
  BY <1>2 DEF ReturnTx, Tx, Request
<1>4. /\ r.op = "return" /\ r.agent = s.agent /\ r.entries = {}
      /\ r.avs = s.avs /\ r.todo = s.todo /\ r.face = s.face /\ r.comm = s.comm
  BY DEF ReturnTx, Tx
<1>5. req' = [req EXCEPT ![p] = r] /\ UNCHANGED tables
  BY <1>1 DEF ClaimVoucher, tables
<1>6. MoneyOK(s)
  BY DEF MoneyInv
<1> HIDE DEF r, s
<1>7. MoneyOK(r)
  BY <1>2, <1>4, <1>6, FS_EmptySet DEF MoneyOK, ChargeOK, CreditOK
<1>8. QED
  BY <1>3, <1>4, <1>5, <1>7, RequestMoney DEF s

\* The vouchers a transaction has claimed or has yet to claim are held, at a
\* price.
LEMMA HeldIsPriced ==
  ASSUME IInv, NEW v \in Vouchers, holding[v] # None
  PROVE  /\ holding[v] \in Holding /\ Net(v) \in Int
         /\ holding[v].face \in Nat /\ holding[v].comm \in Nat
BY DEF IInv, TypeOK, Holding, Net

\* and of the prices of vouchers.
LEMMA NetsMore ==
  ASSUME NEW A, NEW B, A \in SUBSET Vouchers, B \in SUBSET Vouchers,
         A \cap B = {}, \A v \in A \cup B : Net(v) \in Int
  PROVE  /\ Nets(A \cup B) = Nets(A) + Nets(B)
         /\ Nets(A) \in Int /\ Nets(B) \in Int
<1> DEFINE f == [v \in A \cup B |-> Net(v)]
<1>1. IsFiniteSet(A) /\ IsFiniteSet(B)
  BY LedgerAssumption, FS_Subset
<1>2. \A v \in A \cup B : f[v] \in Int
  OBVIOUS
<1>3. /\ On(f, A) = [v \in A |-> Net(v)] /\ On(f, B) = [v \in B |-> Net(v)]
      /\ On(f, A \cup B) = [v \in A \cup B |-> Net(v)]
  BY DEF On
<1> HIDE DEF f
<1>4. /\ SumFunction(On(f, A \cup B)) = SumFunction(On(f, A)) + SumFunction(On(f, B))
      /\ SumFunction(On(f, A)) \in Int /\ SumFunction(On(f, B)) \in Int
  BY <1>1, <1>2, SumSplit
<1>5. QED
  BY <1>3, <1>4 DEF Nets

LEMMA ClaimHoldingMoney ==
  ASSUME IInv, MoneyInv, NEW p \in Requests, ClaimHolding(p)
  PROVE  MoneyInv'
<1>1. PICK v \in Current(p) :
        req' = [req EXCEPT ![p] =
                  ReturnTx(req[p].agent, req[p].key,
                           req[p].face + holding[v].face,
                           req[p].comm + holding[v].comm,
                           req[p].todo \ {v}, req[p].rows,
                           req[p].avs \cup {v})]
  BY DEF ClaimHolding
<1> DEFINE s == req[p]
           r == ReturnTx(s.agent, s.key, s.face + holding[v].face,
                         s.comm + holding[v].comm, s.todo \ {v}, s.rows,
                         s.avs \cup {v})
<1>2. /\ s.op = "return" /\ v \in s.todo /\ v \in Vouchers
      /\ RequestOK(s) /\ s \in Request /\ s.agent \in Agents /\ s.key \in Keys
  BY CurrentIsReturn
<1>3. /\ \A w \in s.avs \cup {v} : w \in Vouchers /\ holding[w] # None
      /\ v \notin s.avs
  BY <1>2 DEF RequestOK, ReturnOK, Request
<1>4. /\ holding[v].face \in Nat /\ holding[v].comm \in Nat
      /\ s.face \in Nat /\ s.comm \in Nat
  BY <1>2, <1>3, HeldIsPriced DEF Request
<1>5. r \in Request
  <2>1. s.face + holding[v].face \in Nat /\ s.comm + holding[v].comm \in Nat
    BY <1>4
  <2> HIDE DEF s
  <2>2. QED
    BY <1>2, <2>1 DEF ReturnTx, Tx, Request
<1>6. /\ r.op = "return" /\ r.agent = s.agent /\ r.entries = {}
      /\ r.avs = s.avs \cup {v}
      /\ r.face = s.face + holding[v].face /\ r.comm = s.comm + holding[v].comm
  BY DEF ReturnTx, Tx
<1>7. req' = [req EXCEPT ![p] = r] /\ UNCHANGED tables
  BY <1>1 DEF ClaimHolding, tables
<1>8. s.face - s.comm = Nets(s.avs)
  BY <1>2 DEF MoneyInv, MoneyOK, CreditOK
<1> HIDE DEF r, s
<1>9. Nets(s.avs \cup {v}) = Nets(s.avs) + Nets({v}) /\ Nets(s.avs) \in Int
  BY <1>2, <1>3, HeldIsPriced, NetsMore
<1>10. Nets({v}) = Net(v)
  <2> DEFINE f == [w \in {v} |-> Net(w)]
  <2>1. f \in [{v} -> Int] /\ f[v] = Net(v)
    BY <1>3, HeldIsPriced
  <2> HIDE DEF f
  <2>2. SumFunction(f) = f[v]
    BY <2>1, SumOne
  <2>3. QED
    BY <2>1, <2>2 DEF Nets, f
<1>11. r.face - r.comm = Nets(r.avs)
  BY <1>4, <1>6, <1>8, <1>9, <1>10 DEF Net
<1>12. MoneyOK(r)
  BY <1>6, <1>11, FS_EmptySet DEF MoneyOK, ChargeOK, CreditOK
<1>13. QED
  BY <1>5, <1>6, <1>7, <1>12, RequestMoney DEF s

LEMMA RedeemLockMoney ==
  ASSUME IInv, MoneyInv, NEW p \in Requests, NEW v \in Vouchers, RedeemLock(p, v)
  PROVE  MoneyInv'
<1> DEFINE r == RedeemTx(v)
<1>1. r \in Request
  BY DEF RedeemTx, Tx, Request
<1>2. r.op = "redeem" /\ r.agent = None /\ r.entries = {}
  BY DEF RedeemTx, Tx
<1>3. req' = [req EXCEPT ![p] = r] /\ UNCHANGED tables
  BY DEF RedeemLock, tables
<1> HIDE DEF r
<1>4. MoneyOK(r)
  BY <1>2, FS_EmptySet DEF MoneyOK, ChargeOK, CreditOK
<1>5. QED
  BY <1>1, <1>2, <1>3, <1>4, RequestMoney

\* A request that a step leaves alone stays in order if the price of what is
\* held, and the books of the agent it issues to, stay as they are.
LEMMA PendingKept ==
  ASSUME IInv, MoneyInv, NEW q \in Requests, req'[q] = req[q],
         \A v \in Vouchers : holding[v] # None =>
           /\ holding'[v].face = holding[v].face
           /\ holding'[v].comm = holding[v].comm,
         req[q].op = "issue" =>
           /\ Balance(req[q].agent)' = Balance(req[q].agent)
           /\ agent'[req[q].agent].limit = agent[req[q].agent].limit
  PROVE  MoneyOK(req[q])'
<1> DEFINE r == req[q]
<1>1. MoneyOK(r) /\ r \in Request /\ RequestOK(r)
  BY DEF MoneyInv, IInv, TypeOK, RequestsOK
<1>2. CASE r.op = "return"
  <2>1. \A v \in r.avs : v \in Vouchers /\ holding[v] # None
    BY <1>1, <1>2 DEF Request, RequestOK, ReturnOK
  <2>2. \A v \in r.avs : holding'[v].face - holding'[v].comm = Net(v)
    BY <2>1 DEF Net
  <2>3. [v \in r.avs |-> holding'[v].face - holding'[v].comm]
          = [v \in r.avs |-> Net(v)]
    BY <2>2
  <2>4. Nets(r.avs)' = Nets(r.avs)
    BY <2>3 DEF Nets, Net
  <2>5. QED
    BY <1>1, <1>2, <2>4 DEF MoneyOK, ChargeOK, CreditOK
<1>3. CASE r.op = "issue"
  BY <1>1, <1>3 DEF MoneyOK, ChargeOK, CreditOK, SumAmounts, StockOf, Cost
<1>4. CASE r.op \notin {"return", "issue"}
  BY <1>1, <1>4 DEF MoneyOK, ChargeOK, CreditOK
<1>5. QED
  BY <1>2, <1>3, <1>4

LEMMA AgentUpdateMoney ==
  ASSUME IInv, MoneyInv, NEW a \in Agents, NEW t \in Terms, AgentUpdate(a, t)
  PROVE  MoneyInv'
<1>1. /\ UNCHANGED <<voucher, holding, ledger, idem, req>> /\ AgentFree(a)
      /\ agent' = [agent EXCEPT ![a] = t]
  BY DEF AgentUpdate
<1>2. ASSUME NEW q \in Requests PROVE MoneyOK(req[q])'
  <2>1. req[q].op = "issue" => req[q].agent \in Agents /\ req[q].agent # a
    BY <1>1 DEF AgentFree, IInv, RequestsOK, RequestOK, Operations
  <2>2. req[q].op = "issue" =>
          /\ Balance(req[q].agent)' = Balance(req[q].agent)
          /\ agent'[req[q].agent].limit = agent[req[q].agent].limit
    BY <1>1, <2>1 DEF IInv, TypeOK, Balance, EntriesOf
  <2>3. QED
    BY <1>1, <2>2, PendingKept
<1>3. (IsFiniteSet(ledger) /\ Alone)'
  BY <1>1 DEF MoneyInv, Alone
<1>4. ASSUME NEW b \in Agents PROVE StockPaid(b)'
  BY <1>1 DEF MoneyInv, StockPaid, StockOf, EntriesOf, Nets, Owned, HeldBy, Net
<1>5. QED
  BY <1>2, <1>3, <1>4 DEF MoneyInv

LEMMA PlainVoucherMoney ==
  ASSUME IInv, MoneyInv, NEW v \in Vouchers, VoucherGenerate(v) \/ VoucherDestroy(v)
  PROVE  MoneyInv'
<1>1. UNCHANGED <<agent, holding, ledger, idem, req>>
  BY DEF VoucherGenerate, VoucherDestroy
<1>2. QED
  BY <1>1 DEF MoneyInv, Alone, StockPaid, StockOf, EntriesOf, Nets, Owned,
              HeldBy, Net, MoneyOK, ChargeOK, CreditOK, Cost, Balance

\* What a sale does to the agents' stock: nothing, or one row is sold.
LEMMA RedeemTables ==
  ASSUME IInv, NEW p \in Requests, RedeemCommit(p)
  PROVE  /\ UNCHANGED <<agent, ledger, idem>>
         /\ req' = [req EXCEPT ![p] = NoRequest]
         /\ \E v \in Vouchers :
              \/ holding[v] = None /\ holding' = holding
              \/ /\ holding[v] \in Holding /\ holding[v] # None
                 /\ holding[v].status = "issued"
                 /\ holding' = [holding EXCEPT ![v].status = "sold"]
<1>1. PICK v \in req[p].rows :
        holding' = IF holding[v] # None /\ holding[v].status = "issued"
                     THEN [holding EXCEPT ![v].status = "sold"]
                     ELSE holding
  BY DEF RedeemCommit
<1>2. v \in Vouchers /\ voucher[v] = "unused"
  BY DEF IInv, TypeOK, Request, RequestsOK, RequestOK
<1>3. holding[v] # None => holding[v] \in Holding /\ holding[v].status = "issued"
  BY <1>2 DEF IInv, TypeOK, VoucherBooks
<1>4. QED
  BY <1>1, <1>2, <1>3 DEF RedeemCommit

\* An agent's row that a sale or a commit leaves alone, but for its status
\* between issued and sold.
RowKept(v) ==
  /\ holding'[v] # None
  /\ holding'[v].agent = holding[v].agent
  /\ holding'[v].face = holding[v].face
  /\ holding'[v].comm = holding[v].comm

LEMMA RedeemMoney ==
  ASSUME IInv, MoneyInv, NEW p \in Requests, RedeemCommit(p)
  PROVE  MoneyInv'
<1>1. UNCHANGED <<agent, ledger, idem>> /\ req' = [req EXCEPT ![p] = NoRequest]
  BY RedeemTables
<1>2. \A w \in Vouchers :
        /\ holding[w] = None => holding'[w] = None
        /\ holding[w] # None =>
             /\ RowKept(w)
             /\ holding'[w].status \in {"issued", "sold"}
                  <=> holding[w].status \in {"issued", "sold"}
  <2>1. PICK v \in Vouchers :
          \/ holding[v] = None /\ holding' = holding
          \/ /\ holding[v] \in Holding /\ holding[v] # None
             /\ holding[v].status = "issued"
             /\ holding' = [holding EXCEPT ![v].status = "sold"]
    BY RedeemTables
  <2>2. CASE holding' = holding
    BY <2>2 DEF RowKept
  <2>3. CASE /\ holding[v] \in Holding /\ holding[v] # None
             /\ holding[v].status = "issued"
             /\ holding' = [holding EXCEPT ![v].status = "sold"]
    <3>1. \A w \in Vouchers \ {v} : holding'[w] = holding[w]
      BY <2>3 DEF IInv, TypeOK
    <3>2. holding'[v] = [holding[v] EXCEPT !.status = "sold"]
      BY <2>3 DEF IInv, TypeOK
    <3>3. /\ holding'[v] \in Holding /\ holding'[v].status = "sold"
          /\ holding'[v].agent = holding[v].agent
          /\ holding'[v].face = holding[v].face
          /\ holding'[v].comm = holding[v].comm
      BY <2>3, <3>2 DEF Holding
    <3>4. holding'[v] # None
      BY <3>3, NoneIsNoRow
    <3>5. QED
      BY <2>3, <3>1, <3>3, <3>4 DEF RowKept
  <2>4. QED
    BY <2>1, <2>2, <2>3
<1>3. \A q \in Requests : req'[q] = IF q = p THEN NoRequest ELSE req[q]
  BY <1>1 DEF IInv, TypeOK
<1>4. ASSUME NEW q \in Requests PROVE MoneyOK(req[q])'
  <2>1. CASE q = p
    BY <1>3, <2>1, NoMoney, FS_EmptySet DEF MoneyOK, ChargeOK, CreditOK, NoRequest, Tx
  <2>2. CASE q # p
    <3>1. Balance(req[q].agent)' = Balance(req[q].agent)
      BY <1>1, <1>3, <2>2 DEF Balance, EntriesOf
    <3>2. QED
      BY <1>1, <1>2, <1>3, <2>2, <3>1, PendingKept DEF RowKept
  <2>3. QED
    BY <2>1, <2>2
<1>5. (IsFiniteSet(ledger) /\ Alone)'
  BY <1>1, <1>3, NoMoney DEF MoneyInv, Alone
<1>6. ASSUME NEW b \in Agents PROVE StockPaid(b)'
  <2>1. Owned(b)' = Owned(b)
    BY <1>2 DEF Owned, HeldBy, RowKept
  <2>2. \A v \in Owned(b) : holding'[v].face - holding'[v].comm = Net(v)
    BY <1>2 DEF Owned, HeldBy, RowKept, Net
  <2>3. [v \in Owned(b) |-> holding'[v].face - holding'[v].comm]
          = [v \in Owned(b) |-> Net(v)]
    BY <2>2
  <2>4. Nets(Owned(b))' = Nets(Owned(b))
    BY <2>1, <2>3 DEF Nets, Net
  <2>5. QED
    BY <1>1, <2>4 DEF MoneyInv, StockPaid, StockOf, EntriesOf, SumAmounts
<1>7. QED
  BY <1>4, <1>5, <1>6 DEF MoneyInv

\* What a commit makes of the rows it creates, of those it takes back and of
\* the others.
Created(s) ==
  \A v \in s.stock :
    /\ holding[v] = None
    /\ holding'[v] = [agent |-> s.agent, batch |-> s.key, face |-> s.face,
                      comm |-> s.comm, status |-> "issued"]
    /\ holding'[v] # None

TakenBack(s) ==
  \A v \in s.avs :
    /\ holding[v] # None /\ holding[v] \in Holding
    /\ holding[v].agent = s.agent /\ holding[v].status = "issued"
    /\ holding'[v].status = "returned"
    /\ RowKept(v)

Untouched(s) ==
  \A v \in Vouchers \ (s.stock \cup s.avs) : holding'[v] = holding[v]

\* What a commit does to the tables.
LEMMA CommitTables ==
  ASSUME IInv, NEW p \in Requests, Commit(p), NEW s, s = req[p]
  PROVE  /\ s \in Request /\ RequestOK(s)
         /\ s.op \in Operations /\ s.todo = {} /\ idem[s.key] = None
         /\ s.agent \in Agents /\ s.key \in Keys
         /\ s.stock \in SUBSET Vouchers /\ s.avs \in SUBSET Vouchers
         /\ s.stock # {} => s.op = "issue"
         /\ s.avs # {} => s.op = "return"
         /\ Created(s) /\ TakenBack(s) /\ Untouched(s)
         /\ UNCHANGED agent
         /\ ledger' = ledger \cup Writes(p)
         /\ req' = [req EXCEPT ![p] = NoRequest]
<1> DEFINE row == [agent |-> s.agent, batch |-> s.key, face |-> s.face,
                   comm |-> s.comm, status |-> "issued"]
<1>1. /\ s.op \in Operations /\ s.todo = {} /\ idem[s.key] = None
      /\ holding' = [v \in Vouchers |->
                       IF v \in s.stock THEN row
                       ELSE IF v \in s.avs
                         THEN [holding[v] EXCEPT !.status = "returned"]
                       ELSE holding[v]]
      /\ ledger' = ledger \cup Writes(p)
      /\ req' = [req EXCEPT ![p] = NoRequest]
      /\ agent' = agent
  BY DEF Commit, Unique
<1>2. s \in Request /\ RequestOK(s) /\ s.agent \in Agents /\ s.key \in Keys
  BY <1>1 DEF IInv, TypeOK, RequestsOK, RequestOK
<1>3. row \in Holding /\ row # None
  BY <1>2, NoneIsNoRow DEF Holding, Request
<1>4. /\ s.stock # {} => s.op = "issue"
      /\ s.avs # {} => s.op = "return"
      /\ \A v \in s.stock : holding[v] = None
      /\ \A v \in s.avs : /\ holding[v] # None /\ holding[v] \in Holding
                          /\ holding[v].agent = s.agent
                          /\ holding[v].status = "issued"
  BY <1>1, CommittedRows
<1>5. s.stock \in SUBSET Vouchers /\ s.avs \in SUBSET Vouchers
  BY <1>2 DEF Request
<1>6. s.stock \cap s.avs = {}
  BY <1>4
<1> HIDE DEF row
<1>7. ASSUME NEW v \in s.avs
      PROVE  holding'[v].status = "returned" /\ RowKept(v)
  <2>1. v \in Vouchers /\ v \notin s.stock
    BY <1>5, <1>6
  <2>2. holding'[v] = [holding[v] EXCEPT !.status = "returned"]
    BY <1>1, <2>1
  <2>3. holding[v] \in Holding
    BY <1>4
  <2>4. /\ holding'[v] \in Holding /\ holding'[v].status = "returned"
        /\ holding'[v].agent = holding[v].agent
        /\ holding'[v].face = holding[v].face
        /\ holding'[v].comm = holding[v].comm
    BY <2>2, <2>3 DEF Holding
  <2>5. QED
    BY <2>4, NoneIsNoRow DEF RowKept
<1>8. /\ \A v \in s.stock : holding'[v] = row
      /\ \A v \in Vouchers \ (s.stock \cup s.avs) : holding'[v] = holding[v]
  BY <1>1, <1>5
<1>9. Created(s) /\ TakenBack(s) /\ Untouched(s)
  BY <1>3, <1>4, <1>7, <1>8 DEF row, Created, TakenBack, Untouched
<1>10. QED
  BY <1>1, <1>2, <1>4, <1>5, <1>9

\* What a commit does to the accounts: nothing to those of other agents, and
\* its entries are added to that of its own.
LEMMA CommitEntries ==
  ASSUME IInv, MoneyInv, NEW p \in Requests, Commit(p),
         NEW s, s = req[p], NEW W, W = Writes(p)
  PROVE  /\ IsFiniteSet(ledger')
         /\ \A a \in Agents \ {s.agent} : EntriesOf(a)' = EntriesOf(a)
         /\ Balance(s.agent)' = Balance(s.agent) + SumAmounts(W)
         /\ SumAmounts(StockOf(EntriesOf(s.agent)))'
              = SumAmounts(StockOf(EntriesOf(s.agent))) + SumAmounts(StockOf(W))
         /\ Balance(s.agent) \in Int
         /\ SumAmounts(StockOf(EntriesOf(s.agent))) \in Int
<1>1. /\ s \in Request /\ s.op \in Operations /\ s.todo = {}
      /\ s.agent \in Agents /\ s.key \in Keys
      /\ idem[s.key] = None /\ ledger' = ledger \cup W
  BY CommitTables
<1>2. W \subseteq Entry /\ \A e \in W : e.key = s.key /\ e.agent = s.agent
  BY <1>1, WritesOK
<1>3. IsFiniteSet(W)
  <2>1. CASE s.op = "return"
    BY <1>1, <2>1, ReturnSums DEF Writes
  <2>2. CASE s.op # "return"
    BY <2>2 DEF Writes, MoneyInv, MoneyOK
  <2>3. QED
    BY <2>1, <2>2
<1>4. ledger \cap W = {}
  BY <1>1, <1>2 DEF IInv, KeysSpentOnce
<1>5. IsFiniteSet(ledger')
  BY <1>1, <1>3, FS_Union DEF MoneyInv
<1> DEFINE A == EntriesOf(s.agent)
<1>6. /\ A \subseteq Entry /\ IsFiniteSet(A) /\ A \cap W = {}
      /\ EntriesOf(s.agent)' = A \cup W
      /\ \A a \in Agents \ {s.agent} : EntriesOf(a)' = EntriesOf(a)
  <2>1. A \subseteq ledger
    BY DEF EntriesOf
  <2>2. A \subseteq Entry /\ IsFiniteSet(A) /\ A \cap W = {}
    BY <1>4, <2>1, FS_Subset DEF IInv, TypeOK, MoneyInv
  <2>3. s' = s
    OBVIOUS
  <2>4. QED
    BY <1>1, <1>2, <2>2, <2>3 DEF EntriesOf
<1> HIDE DEF A
<1>7. SumAmounts(A \cup W) = SumAmounts(A) + SumAmounts(W) /\ SumAmounts(A) \in Int
  BY <1>2, <1>3, <1>6, AmountsApart
<1>8. /\ SumAmounts(StockOf(A \cup W))
           = SumAmounts(StockOf(A)) + SumAmounts(StockOf(W))
      /\ SumAmounts(StockOf(A)) \in Int
  <2>1. StockOf(A \cup W) = StockOf(A) \cup StockOf(W)
    BY DEF StockOf
  <2>2. StockOf(A) \subseteq A /\ StockOf(W) \subseteq W
    BY DEF StockOf
  <2>3. IsFiniteSet(StockOf(A)) /\ IsFiniteSet(StockOf(W))
    BY <1>3, <1>6, <2>2, FS_Subset
  <2>4. StockOf(A) \cap StockOf(W) = {} /\ StockOf(A) \cup StockOf(W) \subseteq Entry
    BY <1>2, <1>6, <2>2
  <2>5. QED
    BY <2>1, <2>3, <2>4, AmountsApart
<1>9. /\ Balance(s.agent)' = SumAmounts(A \cup W)
      /\ SumAmounts(StockOf(EntriesOf(s.agent)))' = SumAmounts(StockOf(A \cup W))
  BY <1>6 DEF Balance, SumAmounts, StockOf
<1>10. QED
  BY <1>5, <1>6, <1>7, <1>8, <1>9 DEF Balance, A

\* The worth of what a commit writes, by its operation.
LEMMA CommitSums ==
  ASSUME IInv, MoneyInv, NEW p \in Requests, Commit(p),
         NEW s, s = req[p], NEW W, W = Writes(p)
  PROVE  /\ s.op = "issue" =>
              /\ s.stock # {} /\ s.avs = {}
              /\ SumAmounts(StockOf(W)) = Cost(s)
              /\ \/ SumAmounts(W) = 0
                 \/ /\ SumAmounts(W) = Cost(s)
                    /\ Balance(s.agent) + Cost(s) <= agent[s.agent].limit
         /\ s.op = "return" =>
              /\ s.stock = {} /\ s.avs # {}
              /\ SumAmounts(StockOf(W)) = -Nets(s.avs)
              /\ SumAmounts(W) = -Nets(s.avs)
         /\ s.op \notin {"issue", "return"} =>
              /\ s.stock = {} /\ s.avs = {}
              /\ SumAmounts(StockOf(W)) = 0
<1>1. /\ s \in Request /\ RequestOK(s) /\ s.op \in Operations /\ s.todo = {}
      /\ s.agent \in Agents /\ s.key \in Keys
      /\ s.stock # {} => s.op = "issue"
      /\ s.avs # {} => s.op = "return"
  BY CommitTables
<1>2. MoneyOK(s)
  BY DEF MoneyInv
<1>3. CASE s.op = "issue"
  <2>1. W = s.entries
    BY <1>3 DEF Writes
  <2>2. QED
    BY <1>1, <1>2, <1>3, <2>1 DEF MoneyOK, ChargeOK
<1>4. CASE s.op = "return"
  <2>1. W = ReturnEntries(s)
    BY <1>4 DEF Writes
  <2>2. StockOf(W) = W /\ SumAmounts(W) = s.comm - s.face
    BY <1>1, <2>1, ReturnSums
  <2>3. s.avs # {} /\ s.face - s.comm = Nets(s.avs)
    BY <1>1, <1>2, <1>4 DEF MoneyOK, CreditOK
  <2>4. s.face \in Nat /\ s.comm \in Nat
    BY <1>1 DEF Request
  <2>5. QED
    BY <1>1, <1>4, <2>2, <2>3, <2>4
<1>5. CASE s.op \notin {"issue", "return"}
  <2>1. s.op \in {"handover", "adjustment", "reversal"}
    BY <1>1, <1>5 DEF Operations
  <2>2. \A e \in W : <<s.op, e.type>> \in WritesType
    BY <1>1, WritesOK
  <2>3. \A e \in W : e.type \in CashTypes
    BY <2>1, <2>2 DEF WritesType, CashTypes
  <2>4. StockOf(W) = {}
    BY <2>3 DEF StockOf
  <2>5. QED
    BY <1>1, <1>5, <2>4, AmountsNone
<1>6. QED
  BY <1>3, <1>4, <1>5

\* A commit changes what its agent owns by the worth of its stock entries.
LEMMA CommitStock ==
  ASSUME IInv, MoneyInv, NEW p \in Requests, Commit(p), NEW a \in Agents
  PROVE  StockPaid(a)'
<1>1. PICK s : s = req[p]
  OBVIOUS
<1>2. PICK W : W = Writes(p)
  OBVIOUS
<1>3. /\ s \in Request /\ s.op \in Operations /\ s.agent \in Agents
      /\ s.stock \in SUBSET Vouchers /\ s.avs \in SUBSET Vouchers
      /\ Created(s) /\ TakenBack(s) /\ Untouched(s)
  BY <1>1, CommitTables
<1>4. /\ \A b \in Agents \ {s.agent} : EntriesOf(b)' = EntriesOf(b)
      /\ SumAmounts(StockOf(EntriesOf(s.agent)))'
           = SumAmounts(StockOf(EntriesOf(s.agent))) + SumAmounts(StockOf(W))
      /\ SumAmounts(StockOf(EntriesOf(s.agent))) \in Int
  BY <1>1, <1>2, CommitEntries
<1>5. /\ s.op = "issue" => /\ s.stock # {} /\ s.avs = {}
                           /\ SumAmounts(StockOf(W)) = Cost(s)
      /\ s.op = "return" => /\ s.stock = {} /\ s.avs # {}
                            /\ SumAmounts(StockOf(W)) = -Nets(s.avs)
      /\ s.op \notin {"issue", "return"} =>
           /\ s.stock = {} /\ s.avs = {}
           /\ SumAmounts(StockOf(W)) = 0
  BY <1>1, <1>2, CommitSums
<1>6. StockPaid(a)
  BY DEF MoneyInv
<1> DEFINE O == Owned(a)
           P == Owned(a)'
           price(v) == holding'[v].face - holding'[v].comm
<1>7. Nets(Owned(a))' = SumFunction([v \in P |-> price(v)])
  BY DEF Nets, Net
<1>8. \A v \in O : v \in Vouchers /\ holding[v] # None /\ Net(v) \in Int
  BY HeldIsPriced DEF Owned, HeldBy
<1>9. \A v \in O \ s.stock : price(v) = Net(v)
  BY <1>3, <1>8 DEF TakenBack, Untouched, RowKept, Net
<1>10. ASSUME O = P, \A v \in O : price(v) = Net(v)
       PROVE  Nets(Owned(a))' = Nets(Owned(a))
  <2>1. [v \in P |-> price(v)] = [v \in O |-> Net(v)]
    BY <1>10
  <2>2. QED
    BY <1>7, <2>1 DEF Nets
<1>11. CASE a # s.agent
  <2>1. O = P
    BY <1>3, <1>11 DEF Owned, HeldBy, Created, TakenBack, Untouched, RowKept
  <2>2. \A v \in O : price(v) = Net(v)
    BY <1>3, <1>8, <1>9 DEF Created
  <2>3. QED
    BY <1>4, <1>6, <1>10, <1>11, <2>1, <2>2 DEF StockPaid, SumAmounts, StockOf
<1>12. CASE a = s.agent /\ s.op = "issue"
  <2>1. P = O \cup s.stock /\ O \cap s.stock = {}
    BY <1>3, <1>5, <1>12 DEF Owned, HeldBy, Created, Untouched
  <2> DEFINE f == [v \in Vouchers |-> price(v)]
             d == s.face - s.comm
  <2>2. d \in Int
    BY <1>3 DEF Request
  <2>3. /\ \A v \in O : f[v] = Net(v) /\ f[v] \in Int
        /\ \A v \in s.stock : f[v] = d
    BY <1>3, <1>8, <1>9, <2>1 DEF Created
  <2>4. IsFiniteSet(O) /\ IsFiniteSet(s.stock) /\ P \subseteq Vouchers
    BY <1>3, <1>8, <2>1, LedgerAssumption, FS_Subset
  <2>5. /\ On(f, O) = [v \in O |-> Net(v)]
        /\ On(f, O \cup s.stock) = [v \in P |-> price(v)]
        /\ On(f, s.stock) \in [s.stock -> Int]
        /\ \A v \in s.stock : On(f, s.stock)[v] = d
    BY <2>1, <2>2, <2>3, <2>4, <1>8 DEF On
  <2> HIDE DEF f, d
  <2>6. /\ SumFunction(On(f, O \cup s.stock))
             = SumFunction(On(f, O)) + SumFunction(On(f, s.stock))
    BY <2>1, <2>2, <2>3, <2>4, SumSplit
  <2>7. SumFunction(On(f, s.stock)) = Cardinality(s.stock) * d
    BY <2>2, <2>4, <2>5, SumSame
  <2>8. Nets(Owned(a))' = Nets(Owned(a)) + Cost(s)
    BY <1>7, <2>5, <2>6, <2>7 DEF Nets, Cost, d
  <2>9. QED
    BY <1>4, <1>5, <1>6, <1>12, <2>8 DEF StockPaid
<1>13. CASE a = s.agent /\ s.op = "return"
  <2>1. O = P \cup s.avs /\ P \cap s.avs = {}
    BY <1>3, <1>5, <1>13 DEF Owned, HeldBy, TakenBack, Untouched, RowKept
  <2>2. P \subseteq O /\ P \in SUBSET Vouchers
    BY <1>8, <2>1
  <2>3. Nets(O) = Nets(P) + Nets(s.avs) /\ Nets(P) \in Int /\ Nets(s.avs) \in Int
    <3>1. PICK Q : Q = P
      OBVIOUS
    <3>2. /\ Nets(Q \cup s.avs) = Nets(Q) + Nets(s.avs)
          /\ Nets(Q) \in Int /\ Nets(s.avs) \in Int
      <4> HIDE DEF P, O
      <4>1. QED
        BY <1>3, <1>8, <2>1, <2>2, <3>1, NetsMore
    <3>3. QED
      BY <2>1, <3>1, <3>2
  <2>4. [v \in P |-> price(v)] = [v \in P |-> Net(v)]
    BY <1>5, <1>9, <1>13, <2>2
  <2>5. Nets(Owned(a))' = SumFunction([v \in P |-> Net(v)])
    BY <1>7, <2>4
  <2>6. Nets(Owned(a))' = Nets(Owned(a)) - Nets(s.avs)
    BY <2>3, <2>5 DEF Nets
  <2>7. Nets(s.avs) \in Int
    BY <2>3
  <2>8. QED
    BY <1>4, <1>5, <1>6, <1>13, <2>6, <2>7 DEF StockPaid
<1>14. CASE a = s.agent /\ s.op \notin {"issue", "return"}
  <2>1. O = P
    BY <1>3, <1>5, <1>14 DEF Owned, HeldBy, Untouched
  <2>2. \A v \in O : price(v) = Net(v)
    BY <1>5, <1>9, <1>14
  <2>3. QED
    BY <1>4, <1>5, <1>6, <1>10, <1>14, <2>1, <2>2 DEF StockPaid
<1>15. QED
  BY <1>11, <1>12, <1>13, <1>14

LEMMA CommitMoney ==
  ASSUME IInv, MoneyInv, NEW p \in Requests, Commit(p)
  PROVE  MoneyInv'
<1>1. PICK s : s = req[p]
  OBVIOUS
<1>2. PICK W : W = Writes(p)
  OBVIOUS
<1>3. /\ s.agent \in Agents /\ agent' = agent
      /\ req' = [req EXCEPT ![p] = NoRequest]
  BY <1>1 DEF Commit, IInv, RequestsOK, RequestOK
<1>kept. \A v \in Vouchers : holding[v] # None => RowKept(v)
  <2>1. Created(s) /\ TakenBack(s) /\ Untouched(s)
    BY <1>1, CommitTables
  <2>2. QED
    BY <2>1 DEF Created, TakenBack, Untouched, RowKept
<1>4. /\ IsFiniteSet(ledger')
      /\ \A a \in Agents \ {s.agent} : EntriesOf(a)' = EntriesOf(a)
  BY <1>1, <1>2, CommitEntries
<1>5. \A q \in Requests : req'[q] = IF q = p THEN NoRequest ELSE req[q]
  BY <1>3 DEF IInv, TypeOK
<1>6. ASSUME NEW q \in Requests PROVE MoneyOK(req[q])'
  <2>1. CASE q = p
    BY <1>5, <2>1, NoMoney DEF MoneyOK, ChargeOK, CreditOK, NoRequest, Tx
  <2>2. CASE q # p
    <3>1. ASSUME req[q].op = "issue"
          PROVE  Balance(req[q].agent)' = Balance(req[q].agent)
      <4>1. req[q].agent \in Agents
        BY <3>1 DEF IInv, RequestsOK, RequestOK, Operations
      <4>2. req[q].agent # s.agent
        BY <1>1, <1>3, <2>2, <4>1, LedgerAssumption DEF MoneyInv, Alone
      <4>3. PICK b \in Agents : b = req[q].agent
        BY <4>1
      <4>4. EntriesOf(b)' = EntriesOf(b)
        BY <1>4, <4>2, <4>3
      <4>5. b = req'[q].agent
        BY <1>5, <2>2, <4>3
      <4>6. QED
        BY <4>3, <4>4, <4>5 DEF Balance, EntriesOf
    <3>2. \A v \in Vouchers : holding[v] # None =>
            /\ holding'[v].face = holding[v].face
            /\ holding'[v].comm = holding[v].comm
      BY <1>kept DEF RowKept
    <3>3. req'[q] = req[q]
      BY <1>5, <2>2
    <3>4. req[q].op = "issue" =>
            agent'[req[q].agent].limit = agent[req[q].agent].limit
      BY <1>3
    <3>5. QED
      BY <3>1, <3>2, <3>3, <3>4, PendingKept
  <2>3. QED
    BY <2>1, <2>2
<1>7. Alone'
  BY <1>5, NoMoney DEF MoneyInv, Alone
<1>8. \A a \in Agents : StockPaid(a)'
  BY CommitStock
<1>9. QED
  BY <1>4, <1>6, <1>7, <1>8 DEF MoneyInv

LEMMA InitMoney == Init => MoneyInv
<1> SUFFICES ASSUME Init PROVE MoneyInv
  OBVIOUS
<1>1. /\ ledger = {} /\ holding = [v \in Vouchers |-> None]
      /\ \A p \in Requests : req[p] = NoRequest
  BY DEF Init
<1>2. IsFiniteSet(ledger)
  BY <1>1, FS_EmptySet
<1>3. Alone /\ \A p \in Requests : MoneyOK(req[p])
  BY <1>1, NoMoney DEF Alone
<1>4. ASSUME NEW a \in Agents PROVE StockPaid(a)
  <2>1. StockOf(EntriesOf(a)) = {}
    BY <1>1 DEF StockOf, EntriesOf
  <2>2. Owned(a) = {}
    BY <1>1 DEF Owned, HeldBy
  <2>3. Nets({}) = 0
    BY SumEmpty DEF Nets
  <2>4. QED
    BY <2>1, <2>2, <2>3, AmountsNone DEF StockPaid
<1>5. QED
  BY <1>2, <1>3, <1>4 DEF MoneyInv

LEMMA NextMoney ==
  ASSUME IInv, MoneyInv, [Next]_vars
  PROVE  MoneyInv'
<1>1. ASSUME NEW p \in Requests, Issue(p) PROVE MoneyInv'
  BY <1>1, StartIssueMoney DEF Issue
<1>2. ASSUME NEW p \in Requests, Return(p) PROVE MoneyInv'
  <2>1. PICK a \in Agents : \E k \in Keys, held \in SUBSET HeldBy(a) :
          StartReturn(p, a, k, held)
    <3>1. \A a \in Agents, vs \in SUBSET Vouchers :
            Listed(a, vs) \in SUBSET HeldBy(a)
      BY DEF Listed
    <3>2. \A a \in Agents, b \in Keys : OfBatch(a, b) \in SUBSET HeldBy(a)
      BY DEF OfBatch
    <3>3. QED
      BY <1>2, <3>1, <3>2 DEF Return
  <2>2. QED
    BY <2>1, StartReturnMoney
<1>3. ASSUME NEW p \in Requests, NEW v \in Vouchers, RedeemLock(p, v)
      PROVE  MoneyInv'
  BY <1>3, RedeemLockMoney
<1>4. ASSUME NEW p \in Requests,
             RefuseReturn(p) \/ LoseKeyRace(p) \/ Abort(p)
      PROVE  MoneyInv'
  <2>1. req' = [req EXCEPT ![p] = NoRequest] /\ UNCHANGED tables
    BY <1>4 DEF RefuseReturn, LoseKeyRace, Abort, tables
  <2>2. QED
    BY <2>1, RollbackMoney
<1>5. ASSUME NEW p \in Requests, Proceed(p) PROVE MoneyInv'
  <2>1. CASE ClaimVoucher(p)
    BY <2>1, ClaimVoucherMoney
  <2>2. CASE ClaimHolding(p)
    BY <2>2, ClaimHoldingMoney
  <2>3. CASE Commit(p)
    BY <2>3, CommitMoney
  <2>4. CASE RedeemCommit(p)
    BY <2>4, RedeemMoney
  <2>5. QED
    BY <1>4, <1>5, <2>1, <2>2, <2>3, <2>4 DEF Proceed, Claim
<1>6. ASSUME NEW v \in Vouchers, VoucherGenerate(v) \/ VoucherDestroy(v)
      PROVE  MoneyInv'
  BY <1>6, PlainVoucherMoney
<1>7. ASSUME NEW a \in Agents, NEW t \in Terms, AgentUpdate(a, t)
      PROVE  MoneyInv'
  BY <1>7, AgentUpdateMoney
<1>8. CASE UNCHANGED vars
  BY <1>8 DEF vars, MoneyInv, Alone, StockPaid, StockOf, EntriesOf, Nets, Owned,
              HeldBy, Net, MoneyOK, ChargeOK, CreditOK, Cost, Balance
<1>9. QED
  BY <1>1, <1>2, <1>3, <1>4, <1>5, <1>6, <1>7, <1>8, RecordMoney DEF Next

\* The books of money hold in every reachable state.
THEOREM MoneyInductive == Spec => [](IInv /\ MoneyInv)
<1>1. Init => IInv /\ MoneyInv
  BY InitIInv, InitMoney
<1>2. IInv /\ MoneyInv /\ [Next]_vars => (IInv /\ MoneyInv)'
  BY NextStep, NextMoney
<1>3. QED
  BY <1>1, <1>2, PTL DEF Spec

\* In such a state the cash an agent is said to hold is accounted for.
LEMMA CashFollows ==
  ASSUME IInv, MoneyInv
  PROVE  CashDueReconciles
<1> SUFFICES ASSUME NEW a \in Agents
             PROVE  CashDue(a) = SumAmounts(CashOf(EntriesOf(a)))
                                   + Nets(HeldAs(a, "sold"))
  BY DEF CashDueReconciles, CashOf, CashTypes, Nets
<1> DEFINE E == EntriesOf(a)
<1>1. /\ Balance(a) = SumAmounts(CashOf(E)) + SumAmounts(StockOf(E))
      /\ SumAmounts(CashOf(E)) \in Int
  <2>1. E \subseteq Entry /\ IsFiniteSet(E)
    BY FS_Subset DEF EntriesOf, IInv, TypeOK, MoneyInv
  <2>2. /\ CashOf(E) \cup StockOf(E) = E /\ CashOf(E) \cap StockOf(E) = {}
        /\ CashOf(E) \subseteq E /\ StockOf(E) \subseteq E
    BY DEF CashOf, StockOf
  <2>3. IsFiniteSet(CashOf(E)) /\ IsFiniteSet(StockOf(E))
    BY <2>1, <2>2, FS_Subset
  <2> HIDE DEF E
  <2>4. /\ SumAmounts(CashOf(E) \cup StockOf(E))
             = SumAmounts(CashOf(E)) + SumAmounts(StockOf(E))
        /\ SumAmounts(CashOf(E)) \in Int
    BY <2>1, <2>2, <2>3, AmountsApart
  <2>5. QED
    BY <2>2, <2>4 DEF Balance, E
<1>2. /\ Nets(Owned(a)) = Nets(HeldAs(a, "issued")) + Nets(HeldAs(a, "sold"))
      /\ Nets(HeldAs(a, "issued")) \in Int /\ Nets(HeldAs(a, "sold")) \in Int
  <2> DEFINE A == HeldAs(a, "issued")
             B == HeldAs(a, "sold")
  <2>1. Owned(a) = A \cup B /\ A \cap B = {}
    BY DEF Owned, HeldAs
  <2>2. /\ A \in SUBSET Vouchers /\ B \in SUBSET Vouchers
        /\ \A v \in A \cup B : v \in Vouchers /\ holding[v] # None
    BY DEF HeldAs, HeldBy
  <2>3. \A v \in A \cup B : Net(v) \in Int
    BY <2>2, HeldIsPriced
  <2> HIDE DEF A, B
  <2>4. /\ Nets(A \cup B) = Nets(A) + Nets(B)
        /\ Nets(A) \in Int /\ Nets(B) \in Int
    BY <2>1, <2>2, <2>3, NetsMore
  <2>5. QED
    BY <2>1, <2>4 DEF A, B
<1>3. SumAmounts(StockOf(E)) = Nets(Owned(a))
  BY DEF MoneyInv, StockPaid
<1>4. UnsoldNet(a) = Nets(HeldAs(a, "issued"))
  BY DEF UnsoldNet, Nets
<1> HIDE DEF E
<1>5. QED
  BY <1>1, <1>2, <1>3, <1>4 DEF CashDue, E

\* AgentSummaries: the cash an agent is said to hold is what their sold
\* vouchers brought in, corrected by handovers, adjustments and reversals
\* only, whatever issues, returns and sales interleave and however prices and
\* commission rates change in between.
THEOREM CashReconciles == Spec => []CashDueReconciles
<1>1. IInv /\ MoneyInv => CashDueReconciles
  BY CashFollows
<1>2. QED
  BY <1>1, MoneyInductive, PTL

-----------------------------------------------------------------------------
(* Waits for rows.                                                         *)

\* A request with a voucher's row is a return or a redemption, and a return
\* has the rows of vouchers its own agent holds.
LEMMA RowHolder ==
  ASSUME IInv, NEW q \in Requests, NEW v \in req[q].rows
  PROVE  /\ req[q].op \in {"return", "redeem"}
         /\ req[q].op = "return" => holding[v].agent = req[q].agent
<1>1. RequestOK(req[q]) /\ req[q] \in Request
  BY DEF IInv, TypeOK, RequestsOK
<1>2. req[q].op \in {"return", "redeem"}
  BY <1>1 DEF RequestOK, IssueOK, RecordOK, NoRequest, Tx, Request, Operations
<1>3. QED
  BY <1>1, <1>2 DEF RequestOK, ReturnOK

\* Nobody waits for a row of agent_vouchers: who has it has the voucher's row.
LEMMA HoldingsFree ==
  ASSUME IInv, NEW p \in Requests, NEW q \in Requests \ {p}
  PROVE  req[p].rows \cap req[q].avs = {}
<1>1. RequestOK(req[q]) /\ req[q] \in Request
  BY DEF IInv, TypeOK, RequestsOK
<1>2. req[q].avs \subseteq req[q].rows
  BY <1>1 DEF RequestOK, IssueOK, ReturnOK, RedeemOK, RecordOK, NoRequest, Tx,
              Request, Operations
<1>3. req[p].rows \cap req[q].rows = {}
  BY DEF IInv, RequestsOK, Disjoint
<1>4. QED
  BY <1>2, <1>3

LEMMA WaitsFollow ==
  ASSUME IInv, Alone
  PROVE  WaitsAreShort
<1> SUFFICES ASSUME NEW p \in Requests, NEW q \in WaitsFor(p)
             PROVE  req[p].op = "return" /\ req[q].op = "redeem" /\ WaitsFor(q) = {}
  BY DEF WaitsAreShort
<1>1. req[p].op = "return"
  BY HoldingsFree DEF WaitsFor
<1>2. PICK v \in Current(p) : q \in Requests \ {p} /\ v \in req[q].rows
  BY <1>1, HoldingsFree DEF WaitsFor
<1>3. holding[v].agent = req[p].agent /\ req[p].agent \in Agents
  <2>1. RequestOK(req[p]) /\ v \in req[p].todo
    BY <1>2 DEF IInv, RequestsOK, Current
  <2>2. QED
    BY <1>1, <2>1 DEF RequestOK, ReturnOK, Operations
<1>4. req[q].op = "redeem"
  <2>1. req[q].op = "return" => req[q].agent = req[p].agent
    BY <1>2, <1>3, RowHolder
  <2>2. req[p].agent # None
    BY <1>3, LedgerAssumption
  <2>3. QED
    BY <1>2, <2>1, <2>2, RowHolder DEF Alone
<1>5. WaitsFor(q) = {}
  BY <1>2, <1>4, HoldingsFree DEF WaitsFor
<1>6. QED
  BY <1>1, <1>4, <1>5

\* However many returns and redemptions run, over whatever vouchers, none of
\* them waits for a request that waits itself: no deadlock over the rows of
\* vouchers and agent_vouchers (ReturnAgentVouchers, Redeem,
\* MarkAgentVoucherSold).
THEOREM NoChainOfWaits == Spec => []WaitsAreShort
<1>1. IInv /\ MoneyInv => WaitsAreShort
  BY WaitsFollow DEF MoneyInv
<1>2. QED
  BY <1>1, MoneyInductive, PTL

-----------------------------------------------------------------------------
(* The ledger implements the account.                                      *)

\* The account counts and adds as the ledger does.
LEMMA AccountCounts ==
  /\ \A f : Account!SumFunction(f) = SumFunction(f)
  /\ \A S : Account!Cardinality(S) = Cardinality(S)
<1>1. \A f : Account!SumFunction(f) = SumFunction(f)
  BY Zenon DEF Account!SumFunction, SumFunction, Account!SumFunctionOnSet,
               SumFunctionOnSet, Account!FoldFunctionOnSet, FoldFunctionOnSet,
               Account!MapThenFoldSet, MapThenFoldSet
<1>2. \A S : Account!Cardinality(S) = Cardinality(S)
  BY Zenon DEF Account!Cardinality, Cardinality
<1>3. QED
  BY <1>1, <1>2

\* What the account sees of a voucher.
LEMMA StockRow ==
  /\ Stock = [v \in Vouchers |-> Stock[v]]
  /\ \A v \in Vouchers :
       /\ holding[v] = None => Stock[v] = None
       /\ holding[v] # None => Stock[v] = [agent |-> holding[v].agent,
                                           net |-> Net(v),
                                           status |-> holding[v].status]
BY DEF Stock, Net

LEMMA StockRowNext ==
  /\ Stock' = [v \in Vouchers |-> Stock'[v]]
  /\ \A v \in Vouchers :
       /\ holding'[v] = None => Stock'[v] = None
       /\ holding'[v] # None =>
            Stock'[v] = [agent |-> holding'[v].agent,
                         net |-> holding'[v].face - holding'[v].comm,
                         status |-> holding'[v].status]
BY DEF Stock, Net

LEMMA InitAccount == Init => Account!Init
<1> SUFFICES ASSUME Init PROVE Account!Init
  OBVIOUS
<1>1. Limits \in [Agents -> Nat]
  BY LedgerAssumption DEF Limits, Init, Profile
<1>2. Balances = [a \in Agents |-> 0]
  <2>1. \A a \in Agents : EntriesOf(a) = {}
    BY DEF Init, EntriesOf
  <2>2. \A a \in Agents : Balance(a) = 0
    BY <2>1, AmountsNone DEF Balance
  <2>3. QED
    BY <2>2 DEF Balances
<1>3. Stock = [v \in Vouchers |-> None]
  BY StockRow DEF Init
<1>4. Spent = {}
  BY DEF Init, Spent
<1>5. QED
  BY <1>1, <1>2, <1>3, <1>4 DEF Account!Init

\* Steps that leave the tables alone are not seen in the account.
LEMMA Stutters ==
  ASSUME UNCHANGED <<agent, holding, ledger, idem>>
  PROVE  UNCHANGED Account!vars
BY DEF Account!vars, Limits, Balances, Stock, Spent, Balance, EntriesOf, Net

LEMMA RedeemAccount ==
  ASSUME IInv, NEW p \in Requests, RedeemCommit(p)
  PROVE  Account!Next \/ UNCHANGED Account!vars
<1>1. /\ UNCHANGED <<agent, ledger, idem>>
      /\ req' = [req EXCEPT ![p] = NoRequest]
  BY RedeemTables
<1>2. PICK v \in Vouchers :
        \/ holding[v] = None /\ holding' = holding
        \/ /\ holding[v] \in Holding /\ holding[v] # None
           /\ holding[v].status = "issued"
           /\ holding' = [holding EXCEPT ![v].status = "sold"]
  BY RedeemTables
<1>3. CASE holding' = holding
  BY <1>1, <1>3, Stutters
<1>4. CASE /\ holding[v] \in Holding /\ holding[v] # None
           /\ holding[v].status = "issued"
           /\ holding' = [holding EXCEPT ![v].status = "sold"]
  <2>1. UNCHANGED <<Limits, Balances, Spent>>
    BY <1>1 DEF Limits, Balances, Spent, Balance, EntriesOf
  <2>2. holding'[v] = [holding[v] EXCEPT !.status = "sold"]
    BY <1>4 DEF IInv, TypeOK
  <2>3. /\ holding'[v] \in Holding /\ holding'[v].status = "sold"
        /\ holding'[v].agent = holding[v].agent
        /\ holding'[v].face = holding[v].face
        /\ holding'[v].comm = holding[v].comm
    BY <1>4, <2>2 DEF Holding
  <2>4. holding'[v] # None
    BY <2>3, NoneIsNoRow
  <2>5. /\ Stock[v] = [agent |-> holding[v].agent, net |-> Net(v),
                       status |-> "issued"]
        /\ Stock'[v] = [agent |-> holding[v].agent, net |-> Net(v),
                        status |-> "sold"]
    BY <1>4, <2>3, <2>4, StockRow, StockRowNext DEF Net
  <2>6. \A w \in Vouchers \ {v} : holding'[w] = holding[w]
    BY <1>4 DEF IInv, TypeOK
  <2>7. \A w \in Vouchers \ {v} : Stock'[w] = Stock[w]
    BY <2>6 DEF Stock, Net
  <2>8. Stock' = [Stock EXCEPT ![v].status = "sold"]
    <3> DEFINE row == [Stock[v] EXCEPT !.status = "sold"]
    <3>1. Stock'[v] = row
      BY <2>5
    <3>2. Stock' = [Stock EXCEPT ![v] = row]
      <4> HIDE DEF row
      <4>1. QED
        BY <2>7, <3>1, StockRow, StockRowNext
    <3>3. QED
      BY <3>2
  <2>9. holding[v].agent \in Agents /\ Stock[v] # None
    <3>1. Stock[v] \in StockRows
      BY <1>4, <2>5, HeldIsPriced DEF Holding, StockRows
    <3>2. QED
      BY <1>4, <3>1, NoneIsNoStock DEF Holding
  <2>10. v \in Account!Held(holding[v].agent, "issued")
    BY <2>5, <2>9 DEF Account!Held
  <2>11. Account!Sell(v)
    BY <2>1, <2>8, <2>9, <2>10 DEF Account!Sell
  <2>12. QED
    BY <2>11 DEF Account!Next
<1>5. QED
  BY <1>2, <1>3, <1>4

\* A commit adds what its entries are worth to its agent's balance, spends its
\* key and leaves the limits alone.
LEMMA CommitBalances ==
  ASSUME IInv, MoneyInv, NEW p \in Requests, Commit(p),
         NEW s, s = req[p], NEW W, W = Writes(p)
  PROVE  /\ Balances' = [Balances EXCEPT ![s.agent] = @ + SumAmounts(W)]
         /\ Balances[s.agent] = Balance(s.agent) /\ Balance(s.agent) \in Int
         /\ s.key \notin Spent /\ Spent' = Spent \cup {s.key}
         /\ Limits' = Limits /\ Limits[s.agent] = agent[s.agent].limit
<1>1. /\ s \in Request /\ s.op \in Operations
      /\ s.agent \in Agents /\ s.key \in Keys /\ idem[s.key] = None
      /\ agent' = agent
      /\ idem' = [idem EXCEPT ![s.key] = [op |-> s.op, agent |-> s.agent,
                                          funding |-> s.funding]]
  BY DEF Commit, Unique, IInv, TypeOK, RequestsOK, RequestOK
<1>2. /\ \A a \in Agents \ {s.agent} : EntriesOf(a)' = EntriesOf(a)
      /\ Balance(s.agent)' = Balance(s.agent) + SumAmounts(W)
      /\ Balance(s.agent) \in Int
  BY CommitEntries
<1>3. Balances' = [Balances EXCEPT ![s.agent] = @ + SumAmounts(W)]
  <2>1. \A a \in Agents \ {s.agent} : Balances'[a] = Balances[a]
    BY <1>2 DEF Balances, Balance
  <2>2. Balances'[s.agent] = Balances[s.agent] + SumAmounts(W)
    <3>1. Balances'[s.agent] = Balance(s.agent)'
      BY <1>1 DEF Balances
    <3>2. QED
      BY <1>1, <1>2, <3>1 DEF Balances
  <2>3. /\ Balances' = [a \in Agents |-> Balances'[a]]
        /\ Balances = [a \in Agents |-> Balances[a]]
    BY DEF Balances
  <2>4. QED
    BY <1>1, <2>1, <2>2, <2>3
<1>4. Spent' = Spent \cup {s.key}
  <2> DEFINE row == [op |-> s.op, agent |-> s.agent, funding |-> s.funding]
  <2>1. row # None
    BY <1>1, NoneIsNoRow DEF KeyRow, Request
  <2>2. idem'[s.key] = row /\ \A k \in Keys \ {s.key} : idem'[k] = idem[k]
    BY <1>1 DEF IInv, TypeOK
  <2> HIDE DEF row
  <2>3. QED
    BY <1>1, <2>1, <2>2 DEF Spent
<1>5. s.key \notin Spent /\ Balances[s.agent] = Balance(s.agent)
  BY <1>1 DEF Spent, Balances
<1>6. Limits' = Limits /\ Limits[s.agent] = agent[s.agent].limit
  BY <1>1 DEF Limits
<1>7. QED
  BY <1>2, <1>3, <1>4, <1>5, <1>6

LEMMA IssueAccount ==
  ASSUME IInv, MoneyInv, NEW p \in Requests, Commit(p),
         NEW s, s = req[p], s.op = "issue"
  PROVE  Account!Next
<1>1. PICK W : W = Writes(p)
  OBVIOUS
<1> DEFINE net == s.face - s.comm
           row == [agent |-> s.agent, net |-> net, status |-> "issued"]
<1>2. /\ s \in Request /\ s.agent \in Agents /\ s.key \in Keys
      /\ s.stock \in SUBSET Vouchers /\ s.avs \in SUBSET Vouchers
      /\ Created(s) /\ Untouched(s)
  BY CommitTables
<1>3. /\ s.stock # {} /\ s.avs = {}
      /\ \/ SumAmounts(W) = 0
         \/ SumAmounts(W) = Cost(s) /\ Balance(s.agent) + Cost(s) <= agent[s.agent].limit
  BY <1>1, CommitSums
<1>4. /\ Balances' = [Balances EXCEPT ![s.agent] = @ + SumAmounts(W)]
      /\ Balances[s.agent] = Balance(s.agent) /\ Balance(s.agent) \in Int
      /\ s.key \notin Spent /\ Spent' = Spent \cup {s.key}
      /\ Limits' = Limits /\ Limits[s.agent] = agent[s.agent].limit
  BY <1>1, CommitBalances
<1>5. /\ \A v \in s.stock : Stock[v] = None /\ Stock'[v] = row
      /\ \A v \in Vouchers \ s.stock : Stock'[v] = Stock[v]
  <2>1. \A v \in s.stock : Stock[v] = None /\ Stock'[v] = row
    BY <1>2, StockRow, StockRowNext DEF Created
  <2>2. \A v \in Vouchers \ s.stock : holding'[v] = holding[v]
    BY <1>2, <1>3 DEF Untouched
  <2>3. \A v \in Vouchers \ s.stock : Stock'[v] = Stock[v]
    BY <2>2 DEF Stock
  <2>4. QED
    BY <2>1, <2>3
<1>6. row # None /\ net \in Int
  <2>1. row \in StockRows /\ net \in Int
    BY <1>2 DEF StockRows, Request
  <2>2. QED
    BY <2>1, NoneIsNoStock
<1>7. row.net = net
  OBVIOUS
<1>8. Cost(s) = Account!Cardinality(s.stock) * net
  BY AccountCounts DEF Cost
<1> HIDE DEF net
<1>9. Stock' = [v \in Vouchers |-> IF v \in s.stock
                                     THEN [agent |-> s.agent, net |-> net,
                                           status |-> "issued"]
                                     ELSE Stock[v]]
  <2>1. \A v \in Vouchers : Stock'[v] = IF v \in s.stock THEN row ELSE Stock[v]
    BY <1>2, <1>5
  <2>2. QED
    BY <2>1, StockRowNext
<1>10. \/ /\ Balances[s.agent] + Cost(s) <= Limits[s.agent]
          /\ Balances' = [Balances EXCEPT ![s.agent] = @ + Cost(s)]
       \/ Balances' = Balances
  <2>1. CASE SumAmounts(W) = 0
    <3>1. Balances[s.agent] + 0 = Balances[s.agent]
      BY <1>4
    <3>2. Balances = [a \in Agents |-> Balances[a]]
      BY DEF Balances
    <3>3. QED
      BY <1>4, <2>1, <3>1, <3>2
  <2>2. CASE /\ SumAmounts(W) = Cost(s)
             /\ Balance(s.agent) + Cost(s) <= agent[s.agent].limit
    BY <1>4, <2>2
  <2>3. QED
    BY <1>3, <2>1, <2>2
<1>11. Account!Take(s.agent, s.key, s.stock, net)
  <2>1. Account!Spend(s.key)
    BY <1>4 DEF Account!Spend
  <2>2. \A v \in s.stock : Stock[v] = None
    BY <1>5
  <2> HIDE DEF row
  <2>3. QED
    BY <1>3, <1>4, <1>8, <1>9, <1>10, <2>1, <2>2 DEF Account!Take
<1>12. \E v \in s.stock : Stock'[v] # None /\ Stock'[v].net = net
  BY <1>3, <1>5, <1>6, <1>7
<1>13. \E v \in s.stock : /\ Stock'[v] # None
                          /\ Account!Take(s.agent, s.key, s.stock, Stock'[v].net)
  BY <1>11, <1>12
<1>14. QED
  BY <1>2, <1>13 DEF Account!Next

LEMMA ReturnAccount ==
  ASSUME IInv, MoneyInv, NEW p \in Requests, Commit(p),
         NEW s, s = req[p], s.op = "return"
  PROVE  Account!Next
<1>1. PICK W : W = Writes(p)
  OBVIOUS
<1>2. /\ s \in Request /\ s.agent \in Agents /\ s.key \in Keys
      /\ s.stock \in SUBSET Vouchers /\ s.avs \in SUBSET Vouchers
      /\ TakenBack(s) /\ Untouched(s)
  BY CommitTables
<1>3. s.stock = {} /\ s.avs # {} /\ SumAmounts(W) = -Nets(s.avs)
  BY <1>1, CommitSums
<1>4. /\ Balances' = [Balances EXCEPT ![s.agent] = @ + SumAmounts(W)]
      /\ Balances[s.agent] = Balance(s.agent) /\ Balance(s.agent) \in Int
      /\ s.key \notin Spent /\ Spent' = Spent \cup {s.key}
      /\ Limits' = Limits
  BY <1>1, CommitBalances
<1>5. ASSUME NEW v \in s.avs
      PROVE  /\ Stock[v] # None /\ Stock[v].agent = s.agent
             /\ Stock[v].net = Net(v) /\ Stock[v].status = "issued"
             /\ Stock'[v] = [Stock[v] EXCEPT !.status = "returned"]
             /\ v \in Vouchers /\ Net(v) \in Int
  <2>1. /\ v \in Vouchers /\ holding[v] # None
        /\ holding[v].agent = s.agent /\ holding[v].status = "issued"
        /\ holding'[v].status = "returned" /\ RowKept(v)
    BY <1>2 DEF TakenBack
  <2>2. Stock[v] = [agent |-> s.agent, net |-> Net(v), status |-> "issued"]
    BY <2>1, StockRow
  <2>3. Stock'[v] = [agent |-> s.agent, net |-> Net(v), status |-> "returned"]
    BY <2>1, StockRowNext DEF RowKept, Net
  <2>4. Stock[v] \in StockRows /\ Net(v) \in Int
    BY <1>2, <2>1, <2>2, HeldIsPriced DEF StockRows
  <2>5. QED
    BY <2>1, <2>2, <2>3, <2>4, NoneIsNoStock
<1>6. \A v \in Vouchers \ s.avs : Stock'[v] = Stock[v]
  <2>1. \A v \in Vouchers \ s.avs : holding'[v] = holding[v]
    BY <1>2, <1>3 DEF Untouched
  <2>2. QED
    BY <2>1 DEF Stock
<1>7. Stock' = [v \in Vouchers |-> IF v \in s.avs
                                     THEN [Stock[v] EXCEPT !.status = "returned"]
                                     ELSE Stock[v]]
  <2>1. ASSUME NEW v \in Vouchers
        PROVE  Stock'[v] = IF v \in s.avs
                             THEN [Stock[v] EXCEPT !.status = "returned"]
                             ELSE Stock[v]
    <3>1. CASE v \in s.avs
      BY <1>5, <3>1, Zenon
    <3>2. CASE v \notin s.avs
      BY <1>6, <3>2
    <3>3. QED
      BY <3>1, <3>2
  <2>2. QED
    BY <2>1, StockRowNext, Zenon
<1>8. SumFunction([v \in s.avs |-> Stock[v].net]) = Nets(s.avs)
  <2>1. [v \in s.avs |-> Stock[v].net] = [v \in s.avs |-> Net(v)]
    BY <1>5
  <2>2. QED
    BY <2>1 DEF Nets
<1>9. Balances[s.agent] + SumAmounts(W) = Balances[s.agent] - Nets(s.avs)
  <2>1. Nets(s.avs) \in Int
    <3>1. /\ {} \in SUBSET Vouchers /\ s.avs \cap {} = {}
          /\ \A v \in s.avs \cup {} : Net(v) \in Int
      BY <1>5
    <3>2. QED
      BY <1>2, <3>1, NetsMore
  <2>2. QED
    BY <1>3, <1>4, <2>1
<1>10. s.avs \subseteq Account!Held(s.agent, "issued")
  <2>1. \A v \in s.avs : /\ v \in Vouchers /\ Stock[v] # None
                         /\ Stock[v].agent = s.agent
                         /\ Stock[v].status = "issued"
    BY <1>5
  <2>2. QED
    BY <2>1 DEF Account!Held
<1>11. Balances' = [Balances EXCEPT
                      ![s.agent] =
                        @ - Account!SumFunction([v \in s.avs |-> Stock[v].net])]
  BY <1>4, <1>8, <1>9, AccountCounts
<1>12. Account!Spend(s.key)
  BY <1>4 DEF Account!Spend
<1>13. Account!GiveBack(s.agent, s.key, s.avs)
  BY <1>3, <1>4, <1>7, <1>10, <1>11, <1>12, Zenon DEF Account!GiveBack
<1>14. QED
  BY <1>2, <1>13 DEF Account!Next

LEMMA CommitAccount ==
  ASSUME IInv, MoneyInv, NEW p \in Requests, Commit(p)
  PROVE  Account!Next
<1>1. PICK s : s = req[p]
  OBVIOUS
<1>2. CASE s.op \in {"issue", "return"}
  BY <1>1, <1>2, IssueAccount, ReturnAccount
<1>3. CASE s.op \notin {"issue", "return"}
  <2>1. PICK W : W = Writes(p)
    OBVIOUS
  <2>2. /\ s.stock = {} /\ s.avs = {} /\ s.agent \in Agents /\ s.key \in Keys
        /\ Untouched(s)
    BY <1>1, <1>3, <2>1, CommitTables, CommitSums
  <2>3. /\ Balances' = [Balances EXCEPT ![s.agent] = @ + SumAmounts(W)]
        /\ s.key \notin Spent /\ Spent' = Spent \cup {s.key}
        /\ Limits' = Limits
    BY <1>1, <2>1, CommitBalances
  <2>4. \A v \in Vouchers : holding'[v] = holding[v]
    BY <2>2 DEF Untouched
  <2>5. Stock' = Stock
    BY <2>4 DEF Stock
  <2>6. \A b \in Agents \ {s.agent} : Balances'[b] = Balances[b]
    BY <2>3 DEF Balances
  <2>7. Account!Settle(s.agent, s.key)
    BY <2>3, <2>5, <2>6 DEF Account!Settle, Account!Spend
  <2>8. QED
    BY <2>2, <2>7 DEF Account!Next
<1>4. QED
  BY <1>2, <1>3

\* Every step of the ledger is a step of the account, or is not seen there.
LEMMA StepAccount ==
  ASSUME IInv, MoneyInv, [Next]_vars
  PROVE  [Account!Next]_(Account!vars)
<1> SUFFICES Account!Next \/ UNCHANGED Account!vars
  OBVIOUS
<1>1. ASSUME NEW p \in Requests, Issue(p) \/ Return(p) \/ Record(p)
      PROVE  UNCHANGED Account!vars
  BY <1>1, Stutters DEF Issue, StartIssue, Return, StartReturn, Record,
     StartHandover, StartAdjustment, StartReversal, StartEntry
<1>2. ASSUME NEW p \in Requests, NEW v \in Vouchers, RedeemLock(p, v)
      PROVE  UNCHANGED Account!vars
  BY <1>2, Stutters DEF RedeemLock
<1>3. ASSUME NEW p \in Requests, Proceed(p) \/ Abort(p)
      PROVE  Account!Next \/ UNCHANGED Account!vars
  <2>1. CASE Commit(p)
    BY <2>1, CommitAccount
  <2>2. CASE RedeemCommit(p)
    BY <2>2, RedeemAccount
  <2>3. CASE \/ ClaimVoucher(p) \/ ClaimHolding(p) \/ RefuseReturn(p)
             \/ LoseKeyRace(p) \/ Abort(p)
    <3>1. UNCHANGED <<agent, voucher, holding, ledger, idem>>
      BY <2>3 DEF ClaimVoucher, ClaimHolding, RefuseReturn, LoseKeyRace, Abort
    <3>2. QED
      BY <3>1, Stutters
  <2>4. QED
    BY <1>3, <2>1, <2>2, <2>3 DEF Proceed, Claim
<1>4. ASSUME NEW v \in Vouchers, VoucherGenerate(v) \/ VoucherDestroy(v)
      PROVE  UNCHANGED Account!vars
  BY <1>4, Stutters DEF VoucherGenerate, VoucherDestroy
<1>5. ASSUME NEW a \in Agents, NEW t \in Terms, AgentUpdate(a, t)
      PROVE  Account!Next
  <2>1. UNCHANGED <<Balances, Stock, Spent>>
    BY <1>5 DEF AgentUpdate, Balances, Stock, Spent, Balance, EntriesOf
  <2>2. QED
    BY <2>1 DEF Account!Next, Account!SetLimits
<1>6. CASE UNCHANGED vars
  BY <1>6, Stutters DEF vars
<1>7. QED
  BY <1>1, <1>2, <1>3, <1>4, <1>5, <1>6 DEF Next

\* The ledger implements the serial account: whatever its transactions read
\* before they commit, and whatever runs in between, each is one atomic
\* operation on the balance and the stock of one agent, and no issue passes
\* the credit limit or the float (runIdempotent, IssueToAgent,
\* ReturnAgentVouchers, Redeem).
THEOREM Implements == Spec => AccountSpec
<1>1. Init => Account!Init
  BY InitAccount
<1>2. IInv /\ MoneyInv /\ [Next]_vars => [Account!Next]_(Account!vars)
  BY StepAccount
<1>3. QED
  BY <1>1, <1>2, MoneyInductive, PTL DEF Spec, AccountSpec, Account!Spec
=============================================================================
