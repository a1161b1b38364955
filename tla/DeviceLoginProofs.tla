-------------------------- MODULE DeviceLoginProofs ---------------------------
(***************************************************************************)
(* Proofs of DeviceLogin's type invariant, of AtMostLimit and of           *)
(* TrialOnce, for any devices, phones, packages, servers and number of     *)
(* requests.  The limit needs an inductive invariant about what a          *)
(* transaction has read: every active login, but those that requests it    *)
(* did not exclude have granted since.                                     *)
(***************************************************************************)
EXTENDS DeviceLogin, FiniteSetTheorems, TLAPS

LoginRow == [status : Statuses \cup {"none"}, until : Nat]

WorkStages == {"idle", "begin", "write", "issue", "read", "follow", "count", "claim"}

WorkRow ==
  [at : WorkStages, mac : Macs \cup {None}, from : Macs \cup {None}, locks : BOOLEAN,
   gives : SUBSET Both, paid : Nat, seen : [Macs -> Statuses \cup {"none"}],
   met : SUBSET Macs, phone : Phones \cup {None}, server : Servers \cup {None}]

CustomerOK == plan \in 0..MaxPlans /\ over \in 0..plan /\ changed \in BOOLEAN

\* A row that is there was granted until a date of the plan.
CredOK ==
  /\ cred \in [Macs -> LoginRow]
  /\ \A m \in Macs : cred[m] = NoLogin \/ (cred[m].status \in Statuses /\ cred[m].until \in 1..plan)

TokensOK == token \cup ticket \subseteq {m \in Macs : cred[m] # NoLogin}

WorkOK ==
  /\ work \in [Workers -> WorkRow]
  /\ \A w \in Workers :
       /\ work[w].at \in {"begin", "write", "issue", "claim"} => work[w].mac \in Macs
       /\ work[w].at = "write" => work[w].paid \in 1..plan
       /\ work[w].at = "follow" => work[w].paid \in 0..plan
       /\ work[w].at = "issue" => cred[work[w].mac] # NoLogin
       /\ work[w].at = "claim" => w \in Handlers

\* A row a transaction has read does not disappear, and a login it did not see
\* active was granted meanwhile; of those that lock one is open.
SeenOK ==
  /\ \A w \in Workers : InTx(w) =>
       /\ \A m \in Macs : work[w].seen[m] # "none" => cred[m] # NoLogin
       /\ Active(cred) \subseteq SeenActive(w) \cup work[w].met
  /\ \A v, w \in Workers : InTx(v) /\ InTx(w) /\ work[v].locks /\ work[w].locks => v = w

Claimed(x) == \E c \in claims : c.mac = x \/ c.phone = x

\* A trial given has its claim, is about to have it, or counts as lost.
TrialsOK ==
  /\ claims \subseteq [mac : Macs, phone : Phones \cup {None}]
  /\ trials \in [Macs \cup Phones -> Nat] /\ lost \in [Macs \cup Phones -> Nat]
  /\ \A x \in Macs \cup Phones :
       /\ trials[x] <= 1 + lost[x]
       /\ Claimed(x) \/ UnderWay(x) \/ trials[x] <= lost[x]

IInv == /\ CustomerOK /\ CredOK /\ TokensOK /\ WorkOK /\ SeenOK
        /\ TrialsOK

-----------------------------------------------------------------------------
LEMMA IdleRow == /\ Idle \in WorkRow /\ Idle.at = "idle"
                 /\ NoLogin \in LoginRow
  BY DEF Idle, WorkRow, WorkStages, LoginRow, NoLogin

\* The logins stay, or some active ones end or change their expiry date.
CredStep ==
  /\ CredOK'
  /\ \A m \in Macs : cred[m] # NoLogin => cred'[m] # NoLogin
  /\ Active(cred') \subseteq Active(cred)

LEMMA SameCred ==
  ASSUME IInv, UNCHANGED <<plan, cred>>
  PROVE  CredStep
  BY DEF IInv, CredOK, CredStep

\* A worker begins something, or ends it, in a stage that has read no table.
LEMMA SetRow ==
  ASSUME IInv, NEW w \in Workers, NEW r \in WorkRow,
         r.at \in {"idle", "begin", "read", "follow", "count"},
         r.at = "begin" => r.mac \in Macs,
         r.at = "follow" => r.paid \in 0..plan,
         work[w].at # "claim",
         work' = [work EXCEPT ![w] = r], CredStep,
         UNCHANGED <<plan, over, claims, trials, lost>>
  PROVE  /\ WorkOK' /\ SeenOK' /\ TrialsOK'
         /\ CredOK' /\ (changed' \in BOOLEAN => CustomerOK')
<1>1. work'[w] = r /\ work' \in [Workers -> WorkRow] /\ \A v \in Workers \ {w} : work'[v] = work[v]
  BY DEF IInv, WorkOK
<1>2. WorkOK'
  BY <1>1 DEF IInv, WorkOK, CredStep
<1>3. ~InTx(w)' /\ \A v \in Workers \ {w} : InTx(v)' <=> InTx(v)
  BY <1>1 DEF InTx
<1>4. SeenOK'
  BY <1>1, <1>3 DEF IInv, SeenOK, CredStep, SeenActive
<1>5. \A x : UnderWay(x) => UnderWay(x)'
  BY <1>1 DEF UnderWay, Keys, InTrial, Workers
<1>6. \A x : Claimed(x)' <=> Claimed(x)
  BY DEF Claimed
<1>7. TrialsOK'
  BY <1>5, <1>6 DEF IInv, TrialsOK
<1>8. CredOK' /\ (changed' \in BOOLEAN => CustomerOK')
  BY DEF IInv, CredStep, CustomerOK
<1>9. QED
  BY <1>2, <1>4, <1>7, <1>8

LEMMA StartStep ==
  ASSUME IInv, NEW w \in Workers, NEW r \in WorkRow, Start(w, r),
         r.at \in {"idle", "begin", "read"}, r.at = "begin" => r.mac \in Macs,
         UNCHANGED <<plan, over, cred, claims, trials, lost>>,
         changed' \in BOOLEAN, token' = token, ticket' \subseteq ticket
  PROVE  IInv'
<1>1. work[w].at # "claim" /\ work' = [work EXCEPT ![w] = r]
  BY IdleRow DEF Start
<1>2. TokensOK'
  BY DEF IInv, TokensOK
<1>3. QED
  BY <1>1, <1>2, SetRow, SameCred DEF IInv

LEMMA GrantStep ==
  ASSUME IInv, NEW h \in Handlers, NEW m \in Macs, NEW inZone \in BOOLEAN, Grant(h, m, inZone)
  PROVE  IInv'
<1> DEFINE r == [Idle EXCEPT !.at = "begin", !.mac = m, !.locks = inZone, !.gives = Both]
<1>1. r \in WorkRow /\ r.at = "begin" /\ r.mac = m
  BY IdleRow DEF WorkRow, WorkStages
<1>2. Start(h, r) /\ UNCHANGED <<plan, over, changed, cred, token, ticket, claims, trials, lost>>
  BY DEF Grant, Customer, Logins, Trials
<1>3. QED
  BY <1>1, <1>2, StartStep DEF Workers, IInv, CustomerOK

LEMMA ReconnectStep ==
  ASSUME IInv, NEW h \in Handlers, NEW m \in Macs, NEW k \in Macs \cup {None}, Reconnect(h, k, m)
  PROVE  IInv'
<1> DEFINE from == IF k = m THEN None ELSE k
           r == [Idle EXCEPT !.at = "begin", !.mac = m, !.from = from,
                             !.locks = TRUE, !.gives = Both]
<1>1. r \in WorkRow /\ r.at = "begin" /\ r.mac = m
  BY IdleRow DEF WorkRow, WorkStages
<1>2. Start(h, r) /\ UNCHANGED <<plan, over, changed, cred, token, ticket, claims, trials, lost>>
  BY DEF Reconnect, Customer, Logins, Trials
<1>3. QED
  BY <1>1, <1>2, StartStep DEF Workers, IInv, CustomerOK

LEMMA RecogniseStep ==
  ASSUME IInv, NEW h \in Handlers, NEW m \in Macs, NEW k \in Macs \cup {None}, Recognise(h, k, m)
  PROVE  IInv'
<1> DEFINE from == IF k = m THEN None ELSE k
           gives == IF k = m THEN {"ticket"} ELSE Both
           r == [Idle EXCEPT !.at = "begin", !.mac = m, !.from = from,
                             !.locks = k # m, !.gives = gives]
<1>1. from \in Macs \cup {None} /\ gives \in SUBSET Both
  BY DEF Both
<1> HIDE DEF from, gives
<1>2. r \in WorkRow /\ r.at = "begin" /\ r.mac = m
  BY <1>1, IdleRow DEF WorkRow, WorkStages
<1>3. Start(h, r) /\ UNCHANGED <<plan, over, changed, cred, token, ticket, claims, trials, lost>>
  BY DEF Recognise, Customer, Logins, Trials, from, gives
<1>4. QED
  BY <1>2, <1>3, StartStep DEF Workers, IInv, CustomerOK

LEMMA FetchByTokenStep ==
  ASSUME IInv, NEW h \in Handlers, NEW m \in Macs, NEW k \in Macs \cup {None}, FetchByToken(h, k, m)
  PROVE  IInv'
<1>1. k \in Macs /\ UNCHANGED <<plan, over, changed, cred, token, ticket, claims, trials, lost>>
  BY DEF FetchByToken, Customer, Logins, Trials, IInv, TokensOK
<1> DEFINE r == [Idle EXCEPT !.at = "begin", !.mac = m, !.from = k, !.locks = TRUE, !.gives = Both]
           s == [Idle EXCEPT !.at = "begin", !.mac = k]
<1>2. r \in WorkRow /\ r.at = "begin" /\ r.mac = m
  BY <1>1, IdleRow DEF WorkRow, WorkStages
<1>3. s \in WorkRow /\ s.at = "begin" /\ s.mac = k
  BY <1>1, IdleRow DEF WorkRow, WorkStages
<1>4. Start(h, r) \/ Start(h, s)
  BY DEF FetchByToken
<1> HIDE DEF r, s
<1>5. QED
  BY <1>1, <1>2, <1>3, <1>4, StartStep DEF Workers, IInv, CustomerOK

LEMMA FetchByTicketStep ==
  ASSUME IInv, NEW h \in Handlers, NEW m \in Macs, NEW k \in Macs \cup {None}, FetchByTicket(h, k, m)
  PROVE  IInv'
<1>1. /\ k \in Macs /\ ticket' \subseteq ticket
      /\ UNCHANGED <<plan, over, changed, cred, token, claims, trials, lost>>
  BY DEF FetchByTicket, Customer, Trials, IInv, TokensOK
<1> DEFINE s == [Idle EXCEPT !.at = "begin", !.mac = k]
<1>2. s \in WorkRow /\ s.at = "begin" /\ s.mac = k
  BY <1>1, IdleRow DEF WorkRow, WorkStages
<1>3. Start(h, s) \/ work' = work
  BY DEF FetchByTicket
<1> HIDE DEF s
<1>4. CASE Start(h, s)
  BY <1>1, <1>2, <1>4, StartStep DEF Workers, IInv, CustomerOK
<1>5. CASE work' = work
  <2>1. TokensOK'
    BY <1>1 DEF IInv, TokensOK
  <2>2. SeenOK' /\ WorkOK'
    BY <1>1, <1>5 DEF IInv, SeenOK, WorkOK, InTx, Active, SeenActive
  <2>3. TrialsOK'
    BY <1>1, <1>5 DEF IInv, TrialsOK, Claimed, UnderWay, Keys, InTrial
  <2>4. QED
    BY <1>1, <2>1, <2>2, <2>3 DEF IInv, CustomerOK, CredOK
<1>6. QED
  BY <1>3, <1>4, <1>5

-----------------------------------------------------------------------------
LEMMA BeginStep ==
  ASSUME IInv, NEW w \in Workers, Begin(w)
  PROVE  IInv'
<1>1. /\ work[w] \in WorkRow /\ work[w].at = "begin" /\ work[w].mac \in Macs
      /\ work[w].locks => Unlocked(w)
      /\ UNCHANGED <<plan, over, changed, cred, token, ticket, claims, trials, lost>>
  BY DEF Begin, IInv, WorkOK, Customer, Logins, Trials
<1>2. TokensOK' /\ changed' \in BOOLEAN
  BY <1>1 DEF IInv, TokensOK, CustomerOK
<1>3. CASE ~Paid
  <2>1. work' = [work EXCEPT ![w] = Idle]
    BY <1>3 DEF Begin
  <2>2. QED
    BY <1>1, <1>2, <2>1, SetRow, SameCred, IdleRow DEF IInv
<1>4. CASE Paid
  <2> DEFINE r == [work[w] EXCEPT !.at = "write", !.paid = plan,
                               !.seen = [m \in Macs |-> cred[m].status]]
  <2>1. /\ plan \in 1..plan /\ plan \in Nat /\ cred \in [Macs -> LoginRow]
    BY <1>4 DEF Paid, IInv, CustomerOK, CredOK
  <2>2. /\ r \in WorkRow /\ r.at = "write" /\ r.paid = plan
        /\ \A m \in Macs : r.seen[m] = cred[m].status
        /\ r.mac = work[w].mac /\ r.locks = work[w].locks
    BY <1>1, <2>1 DEF WorkRow, WorkStages, LoginRow
  <2>3. work' = [work EXCEPT ![w] = r]
    BY <1>4 DEF Begin
  <2> HIDE DEF r
  <2>4. work'[w] = r /\ work' \in [Workers -> WorkRow] /\ \A v \in Workers \ {w} : work'[v] = work[v]
    BY <2>2, <2>3 DEF IInv, WorkOK
  <2>5. WorkOK'
    BY <1>1, <2>1, <2>2, <2>4 DEF IInv, WorkOK
  <2>6. SeenOK'
    <3>1. \A v \in Workers \ {w} : InTx(v)' <=> InTx(v)
      BY <2>4 DEF InTx
    <3>2. \A m \in Macs : r.seen[m] # "none" => cred[m] # NoLogin
      BY <2>2 DEF NoLogin
    <3>3. Active(cred) \subseteq SeenActive(w)'
      BY <2>2, <2>4 DEF Active, SeenActive
    <3>4. work[w].locks => \A v \in Workers \ {w} : InTx(v)' => ~work'[v].locks
      BY <1>1, <2>4, <3>1 DEF Unlocked
    <3>5. \A v \in Workers \ {w} : InTx(v)' =>
            /\ \A m \in Macs : work'[v].seen[m] # "none" => cred'[m] # NoLogin
            /\ Active(cred') \subseteq SeenActive(v)' \cup work'[v].met
      BY <1>1, <2>4, <3>1 DEF IInv, SeenOK, SeenActive, Active
    <3>6. \A u, v \in Workers \ {w} : InTx(u)' /\ InTx(v)' /\ work'[u].locks /\ work'[v].locks => u = v
      BY <2>4, <3>1 DEF IInv, SeenOK
    <3>7. QED
      BY <1>1, <2>2, <2>4, <3>2, <3>3, <3>4, <3>5, <3>6 DEF SeenOK, Active
  <2>8. TrialsOK'
    <3>1. \A x : UnderWay(x) => UnderWay(x)'
      BY <1>1, <2>4 DEF UnderWay, Keys, InTrial, Workers
    <3>2. QED
      BY <1>1, <3>1 DEF IInv, TrialsOK, Claimed
  <2>9. QED
    BY <1>1, <1>2, <2>5, <2>6, <2>8 DEF IInv, CustomerOK, CredOK
<1>5. QED
  BY <1>3, <1>4

\* All but limit - 1 of the others go.
LEMMA SurplusGoes ==
  ASSUME NEW others, NEW surplus, NEW limit \in Nat \ {0}, IsFiniteSet(others),
         \/ surplus = {} /\ Cardinality(others) < limit
         \/ surplus \subseteq others /\ Cardinality(surplus) = Cardinality(others) - (limit - 1)
  PROVE  /\ IsFiniteSet(others \ surplus)
         /\ Cardinality(others \ surplus) \in Nat
         /\ Cardinality(others \ surplus) <= limit - 1
<1> DEFINE T == others \ surplus
<1>1. Cardinality(others) \in Nat
  BY FS_CardinalityType
<1>2. IsFiniteSet(T) /\ Cardinality(T) \in Nat
  BY FS_Subset, FS_CardinalityType
<1>3. CASE surplus = {} /\ Cardinality(others) < limit
  <2>1. T = others
    BY <1>3
  <2> HIDE DEF T
  <2>2. Cardinality(T) <= limit - 1
    BY <1>1, <1>3, <2>1
  <2>3. QED
    BY <1>2, <2>2 DEF T
<1>4. CASE surplus \subseteq others /\ Cardinality(surplus) = Cardinality(others) - (limit - 1)
  <2>1. Cardinality(T) = Cardinality(others) - Cardinality(others \cap surplus)
    BY FS_Difference
  <2>2. others \cap surplus = surplus
    BY <1>4
  <2> HIDE DEF T
  <2>3. Cardinality(T) = Cardinality(others) - Cardinality(surplus)
    BY <2>1, <2>2
  <2>4. Cardinality(T) <= limit - 1
    BY <1>1, <1>4, <2>3
  <2>5. QED
    BY <1>2, <2>4 DEF T
<1>5. QED
  BY <1>3, <1>4

\* One more member.
LEMMA OneMore ==
  ASSUME NEW T, NEW m, NEW A, IsFiniteSet(T), A \subseteq T \cup {m}
  PROVE  Cardinality(A) \in Nat /\ Cardinality(T) \in Nat /\ Cardinality(A) <= Cardinality(T) + 1
<1>1. IsFiniteSet(T \cup {m}) /\ Cardinality(T \cup {m}) \in {Cardinality(T), Cardinality(T) + 1}
  BY FS_AddElement
<1>2. IsFiniteSet(A) /\ Cardinality(A) <= Cardinality(T \cup {m})
  BY <1>1, FS_Subset
<1>3. Cardinality(A) \in Nat /\ Cardinality(T) \in Nat
  BY <1>2, FS_CardinalityType
<1>4. QED
  BY <1>1, <1>2, <1>3

\* A transaction's writes: some logins it has seen active go, the device's stays
\* or comes.
LEMMA WriteEffect ==
  ASSUME IInv, NEW w \in Workers, Write(w), ~Clash(w)
  PROVE  \E surplus \in Surplus(w) :
           /\ \A n \in Macs : cred'[n] = IF n = work[w].mac THEN Granted(w)
                                          ELSE IF n \in surplus \cup Replaced(w)
                                                 THEN [cred[n] EXCEPT !.status = "revoked"]
                                                 ELSE cred[n]
           /\ cred \in [Macs -> LoginRow]
<1>1. PICK surplus \in Surplus(w) :
        LET gone == surplus \cup Replaced(w) IN
        cred' = [n \in Macs |-> IF n = work[w].mac THEN Granted(w)
                                ELSE IF n \in gone THEN [cred[n] EXCEPT !.status = "revoked"]
                                ELSE cred[n]]
  BY DEF Write
<1>2. QED
  BY <1>1 DEF IInv, CredOK

LEMMA WriteWithinLimit ==
  ASSUME IInv, NEW w \in Workers, Write(w), ~Clash(w)
  PROVE  Cardinality(Active(cred') \ work[w].met) <= LimitOf[work[w].paid]
<1> DEFINE m == work[w].mac
           others == SeenActive(w) \ {m, work[w].from}
           limit == LimitOf[work[w].paid]
           A == Active(cred') \ work[w].met
<1>1. PICK surplus \in Surplus(w) :
        /\ \A n \in Macs : cred'[n] = IF n = m THEN Granted(w)
                                       ELSE IF n \in surplus \cup Replaced(w)
                                              THEN [cred[n] EXCEPT !.status = "revoked"]
                                              ELSE cred[n]
        /\ cred \in [Macs -> LoginRow]
  BY WriteEffect
<1>2. limit \in Nat \ {0}
  <2>1. work[w].paid \in 1..plan /\ plan \in 0..MaxPlans /\ MaxPlans \in Nat
    BY DeviceAssumption DEF Write, InTx, IInv, WorkOK, CustomerOK
  <2>2. work[w].paid \in 1..MaxPlans
    BY <2>1
  <2>3. QED
    BY <2>2, DeviceAssumption
<1>3. IsFiniteSet(SeenActive(w))
  BY DeviceAssumption, FS_Subset DEF SeenActive
<1>4. Active(cred) \ work[w].met \subseteq SeenActive(w)
  BY DEF Write, IInv, SeenOK
<1>5. \A n \in (surplus \cup Replaced(w)) \ {m} : n \in Macs => cred'[n].status = "revoked"
  BY <1>1 DEF LoginRow
<1>6. A \subseteq (others \ surplus) \cup {m}
  <2> SUFFICES ASSUME NEW n \in A, n # m
               PROVE  n \in others \ surplus
    OBVIOUS
  <2>1. n \in Macs /\ cred'[n].status = "active"
    BY DEF Active
  <2>2. n \notin surplus \cup Replaced(w)
    BY <1>5, <2>1
  <2>3. cred'[n] = cred[n]
    BY <1>1, <2>1, <2>2
  <2>4. n \in SeenActive(w)
    BY <1>4, <2>1, <2>3 DEF Active
  <2>5. QED
    BY <2>2, <2>4 DEF Replaced
<1>7. IsFiniteSet(others) /\ Cardinality(others) \in Nat
  BY <1>3, FS_Subset, FS_CardinalityType
<1>8. \/ surplus = {} /\ Cardinality(others) < limit
      \/ surplus \subseteq others /\ Cardinality(surplus) = Cardinality(others) - (limit - 1)
  BY <1>2, <1>7 DEF Surplus
<1> HIDE DEF others, limit, A, m
<1>9. /\ IsFiniteSet(others \ surplus) /\ Cardinality(others \ surplus) \in Nat
      /\ Cardinality(others \ surplus) <= limit - 1
  BY <1>2, <1>7, <1>8, SurplusGoes
<1>10. Cardinality(A) \in Nat /\ Cardinality(A) <= Cardinality(others \ surplus) + 1
  BY <1>6, <1>9, OneMore
<1>11. Cardinality(A) <= limit
  BY <1>2, <1>9, <1>10
<1>12. QED
  BY <1>11 DEF A, limit

LEMMA WriteStep ==
  ASSUME IInv, NEW w \in Workers, Write(w)
  PROVE  IInv'
<1> DEFINE m == work[w].mac
<1>1. /\ InTx(w) /\ work[w] \in WorkRow /\ m \in Macs /\ work[w].paid \in 1..plan
      /\ UNCHANGED <<plan, over, changed, claims, trials, lost>>
      /\ work \in [Workers -> WorkRow]
  BY DEF Write, IInv, WorkOK, InTx, Customer, Trials
<1>2. CASE Clash(w)
  <2>1. work' = [work EXCEPT ![w] = Idle] /\ UNCHANGED <<cred, token, ticket>>
    BY <1>2 DEF Write, Logins
  <2>2. QED
    BY <1>1, <2>1, SetRow, SameCred, IdleRow DEF IInv, TokensOK, CustomerOK, InTx
<1>3. CASE ~Clash(w)
  <2>1. PICK surplus \in Surplus(w) :
          LET gone == surplus \cup Replaced(w) IN
          /\ cred' = [n \in Macs |-> IF n = m THEN Granted(w)
                                     ELSE IF n \in gone THEN [cred[n] EXCEPT !.status = "revoked"]
                                     ELSE cred[n]]
          /\ token' = token \ Forgotten(gone) /\ ticket' = ticket \ Forgotten(gone)
          /\ work' = [v \in Workers |->
               IF v = w THEN IF work[w].gives = {} THEN Idle
                               ELSE [Idle EXCEPT !.at = "issue", !.mac = m, !.gives = work[w].gives]
               ELSE IF InTx(v) /\ ~(work[v].locks /\ work[w].locks)
                 THEN [work[v] EXCEPT !.met = @ \cup {m}] ELSE work[v]]
    BY <1>3 DEF Write
  <2> DEFINE gone == surplus \cup Replaced(w)
             S == SeenActive(w)
  <2>2. gone \subseteq S \ {m} /\ S \subseteq Macs
    BY <2>1 DEF Surplus, Replaced, SeenActive
  <2>3. \A n \in S : cred[n] # NoLogin /\ cred[n].status \in Statuses
    BY <1>1, <2>2 DEF SeenActive, IInv, SeenOK, CredOK
  <2>4. Granted(w) \in LoginRow /\ Granted(w).status \in Statuses /\ Granted(w).until \in 1..plan
    BY <1>1, <2>3 DEF Granted, LoginRow, Statuses, SeenActive
  <2>5. /\ cred'[m] = Granted(w)
        /\ \A n \in gone : cred'[n] = [cred[n] EXCEPT !.status = "revoked"]
        /\ \A n \in Macs \ (gone \cup {m}) : cred'[n] = cred[n]
        /\ cred' = [n \in Macs |-> cred'[n]]
    BY <1>1, <2>1, <2>2
  <2>6. \A n \in gone : /\ cred'[n] \in LoginRow /\ cred'[n].status = "revoked"
                        /\ cred'[n].until = cred[n].until
    <3> SUFFICES ASSUME NEW n \in gone
                 PROVE  /\ cred'[n] \in LoginRow /\ cred'[n].status = "revoked"
                        /\ cred'[n].until = cred[n].until
      OBVIOUS
    <3>1. cred[n] \in LoginRow /\ cred'[n] = [cred[n] EXCEPT !.status = "revoked"]
      BY <2>2, <2>5 DEF IInv, CredOK
    <3>2. QED
      BY <3>1 DEF LoginRow, Statuses
  <2> HIDE DEF gone, S
  <2>7. CredOK'
    <3>1. \A n \in Macs : cred'[n] \in LoginRow
      BY <2>4, <2>5, <2>6 DEF IInv, CredOK
    <3>2. \A n \in Macs : cred'[n] = NoLogin \/ (cred'[n].status \in Statuses /\ cred'[n].until \in 1..plan)
      BY <2>2, <2>3, <2>4, <2>5, <2>6 DEF IInv, CredOK, Statuses
    <3>3. QED
      BY <1>1, <2>5, <3>1, <3>2 DEF CredOK
  <2>8. \A n \in Macs : cred[n] # NoLogin => cred'[n] # NoLogin
    BY <2>4, <2>5, <2>6 DEF NoLogin, Statuses
  <2>9. cred'[m] # NoLogin
    BY <2>4, <2>5 DEF NoLogin, Statuses
  <2>10. TokensOK'
    BY <2>1, <2>8 DEF IInv, TokensOK, Forgotten, gone
  <2>11. \A v \in Workers \ {w} :
           /\ work'[v] \in WorkRow /\ work'[v].at = work[v].at /\ work'[v].mac = work[v].mac
           /\ work'[v].paid = work[v].paid /\ work'[v].phone = work[v].phone
           /\ work'[v].seen = work[v].seen /\ work'[v].locks = work[v].locks
           /\ work[v].met \subseteq work'[v].met /\ (InTx(v) => m \in work'[v].met)
    <3> SUFFICES ASSUME NEW v \in Workers \ {w}
                 PROVE /\ work'[v] \in WorkRow /\ work'[v].at = work[v].at /\ work'[v].mac = work[v].mac
                       /\ work'[v].paid = work[v].paid /\ work'[v].phone = work[v].phone
                       /\ work'[v].seen = work[v].seen /\ work'[v].locks = work[v].locks
                       /\ work[v].met \subseteq work'[v].met /\ (InTx(v) => m \in work'[v].met)
      OBVIOUS
    <3>1. CASE InTx(v)
      <4>1. work'[v] = [work[v] EXCEPT !.met = @ \cup {m}]
        BY <1>1, <2>1, <3>1 DEF IInv, SeenOK
      <4>2. QED
        BY <1>1, <4>1 DEF WorkRow
    <3>2. CASE ~InTx(v)
      BY <1>1, <2>1, <3>2
    <3>3. QED
      BY <3>1, <3>2
  <2>12. /\ work'[w] \in WorkRow /\ work'[w].at \in {"idle", "issue"}
         /\ work'[w].at = "issue" => work'[w].mac = m
    <3> DEFINE r == [Idle EXCEPT !.at = "issue", !.mac = m, !.gives = work[w].gives]
    <3>1. r \in WorkRow /\ r.at = "issue" /\ r.mac = m
      BY <1>1, IdleRow DEF WorkRow, WorkStages
    <3>2. work'[w] = Idle \/ work'[w] = r
      BY <2>1
    <3> HIDE DEF r
    <3>3. QED
      BY <3>1, <3>2, IdleRow
  <2>13. WorkOK'
    <3>1. work' \in [Workers -> WorkRow]
      BY <2>1, <2>11, <2>12
    <3>2. \A v \in Workers \ {w} : work[v].at = "issue" => cred'[work'[v].mac] # NoLogin
      BY <2>8, <2>11 DEF IInv, WorkOK
    <3>3. QED
      BY <1>1, <2>9, <2>11, <2>12, <3>1, <3>2 DEF IInv, WorkOK
  <2>14. /\ ~InTx(w)' /\ \A v \in Workers \ {w} : InTx(v)' <=> InTx(v)
    BY <2>11, <2>12 DEF InTx
  <2>15. SeenOK'
    <3>1. Active(cred') \subseteq Active(cred) \cup {m}
      BY <1>1, <2>5, <2>6 DEF Active
    <3>2. \A v \in Workers \ {w} : SeenActive(v)' = SeenActive(v)
      BY <2>11 DEF SeenActive
    <3>3. QED
      BY <2>8, <2>11, <2>14, <3>1, <3>2 DEF IInv, SeenOK
  <2>16. TrialsOK'
    <3>1. \A x : UnderWay(x) => UnderWay(x)'
      BY <1>1, <2>11 DEF UnderWay, Keys, InTrial, Workers, InTx
    <3>2. QED
      BY <1>1, <3>1 DEF IInv, TrialsOK, Claimed
  <2>17. CustomerOK'
    BY <1>1, <2>1 DEF IInv, CustomerOK, WorkRow
  <2>18. QED
    BY <2>7, <2>10, <2>13, <2>15, <2>16, <2>17 DEF IInv
<1>4. QED
  BY <1>2, <1>3

LEMMA IssueStep ==
  ASSUME IInv, NEW w \in Workers, Issue(w)
  PROVE  IInv'
<1>1. /\ work[w].at = "issue" /\ work[w].mac \in Macs /\ cred[work[w].mac] # NoLogin
      /\ work' = [work EXCEPT ![w] = Idle]
      /\ UNCHANGED <<plan, over, changed, cred, claims, trials, lost>>
      /\ token' \cup ticket' \subseteq token \cup ticket \cup {work[w].mac}
  BY DEF Issue, IInv, WorkOK, Customer, Trials
<1>2. TokensOK'
  BY <1>1 DEF IInv, TokensOK
<1>3. QED
  BY <1>1, <1>2, SetRow, SameCred, IdleRow DEF IInv, CustomerOK

-----------------------------------------------------------------------------
\* The reconciler: ending a login or giving it the plan's date takes nothing
\* from what a transaction has seen.
LEMMA CredShrinks ==
  ASSUME IInv, plan' = plan,
         NEW f \in [Macs -> LoginRow], cred' = f,
         \A m \in Macs : \/ f[m] = cred[m]
                         \/ /\ cred[m].status = "active" /\ f[m].status \in {"active", "expired"}
                            /\ f[m].until \in 1..plan
  PROVE  CredStep
<1>1. CredOK'
  BY DEF IInv, CredOK, Statuses
<1>2. \A m \in Macs : cred[m] # NoLogin => cred'[m] # NoLogin
  BY DEF NoLogin
<1>3. Active(cred') \subseteq Active(cred)
  BY DEF Active
<1>4. QED
  BY <1>1, <1>2, <1>3 DEF CredStep

LEMMA ActiveRow ==
  ASSUME IInv, NEW m \in Macs
  PROVE  /\ cred[m] \in LoginRow
         /\ cred[m].status = "active" => cred[m].until \in 1..plan
  BY DEF IInv, CredOK, NoLogin

LEMMA ExpireStep ==
  ASSUME IInv, Expire
  PROVE  IInv'
<1> DEFINE r == IF changed THEN [Idle EXCEPT !.at = "read"] ELSE Idle
           f == [m \in Macs |-> IF cred[m].status = "active" /\ cred[m].until <= over
                                  THEN [cred[m] EXCEPT !.status = "expired"] ELSE cred[m]]
<1>1. r \in WorkRow /\ r.at \in {"idle", "read"}
  <2>1. [Idle EXCEPT !.at = "read"] \in WorkRow /\ [Idle EXCEPT !.at = "read"].at = "read"
    BY IdleRow DEF WorkRow, WorkStages
  <2>2. QED
    BY <2>1, IdleRow
<1>2. ASSUME NEW m \in Macs
      PROVE  /\ f[m] \in LoginRow
             /\ \/ f[m] = cred[m]
                \/ /\ cred[m].status = "active" /\ f[m].status = "expired"
                   /\ f[m].until \in 1..plan
  <2>1. CASE cred[m].status = "active" /\ cred[m].until <= over
    <3>1. f[m] = [cred[m] EXCEPT !.status = "expired"]
      BY <2>1
    <3> HIDE DEF f
    <3>2. f[m] \in LoginRow /\ f[m].status = "expired" /\ f[m].until = cred[m].until
      BY <3>1, ActiveRow DEF LoginRow, Statuses
    <3>3. QED
      BY <2>1, <3>2, ActiveRow
  <2>2. CASE ~(cred[m].status = "active" /\ cred[m].until <= over)
    BY <2>2, ActiveRow
  <2>3. QED
    BY <2>1, <2>2
<1>3. /\ cred' = f /\ Start(Job, r) /\ changed' \in BOOLEAN
      /\ UNCHANGED <<plan, over, token, ticket, claims, trials, lost>>
  BY DEF Expire, Trials, IInv, CustomerOK
<1>4. f \in [Macs -> LoginRow]
  BY <1>2
<1> HIDE DEF f, r
<1>5. CredStep
  BY <1>2, <1>3, <1>4, CredShrinks
<1>6. work[Job].at # "claim" /\ work' = [work EXCEPT ![Job] = r] /\ Job \in Workers
  BY <1>3, IdleRow DEF Start, Workers
<1>7. TokensOK'
  BY <1>3, <1>5 DEF IInv, TokensOK, CredStep
<1>8. QED
  BY <1>1, <1>3, <1>5, <1>6, <1>7, SetRow DEF IInv

LEMMA JobType ==
  ASSUME IInv
  PROVE  /\ Job \in Workers /\ work[Job] \in WorkRow /\ work[Job].at # "claim"
         /\ work[Job].at = "follow" => work[Job].paid \in 0..plan
  BY DeviceAssumption DEF IInv, WorkOK, Workers

LEMMA ReadStep ==
  ASSUME IInv, Read
  PROVE  IInv'
<1> DEFINE paid == IF Paid THEN plan ELSE 0
           r == [work[Job] EXCEPT !.at = "follow", !.paid = paid]
<1>1. paid \in 0..plan /\ paid \in Nat
  BY DEF IInv, CustomerOK
<1> HIDE DEF paid
<1>2. r \in WorkRow /\ r.at = "follow" /\ r.paid = paid
  BY <1>1, JobType DEF WorkRow, WorkStages
<1>3. work' = [work EXCEPT ![Job] = r]
  BY DEF Read, paid
<1>4. UNCHANGED <<plan, over, changed, cred, token, ticket, claims, trials, lost>>
  BY DEF Read, Customer, Logins, Trials
<1> HIDE DEF r
<1>5. QED
  BY <1>1, <1>2, <1>3, <1>4, JobType, SameCred, SetRow DEF IInv, TokensOK, CustomerOK

LEMMA FollowStep ==
  ASSUME IInv, Follow
  PROVE  IInv'
<1> DEFINE p == work[Job].paid
           r == IF p = 0 THEN Idle ELSE [Idle EXCEPT !.at = "count"]
<1>1. p \in 0..plan /\ p \in Nat
  BY JobType DEF Follow, IInv, CustomerOK
<1>2. r \in WorkRow /\ r.at \in {"idle", "count"}
  <2>1. [Idle EXCEPT !.at = "count"] \in WorkRow /\ [Idle EXCEPT !.at = "count"].at = "count"
    BY IdleRow DEF WorkRow, WorkStages
  <2>2. QED
    BY <2>1, IdleRow
<1>3. /\ cred' = Followed(p) /\ work' = [work EXCEPT ![Job] = r]
      /\ UNCHANGED <<plan, over, changed, token, ticket, claims, trials, lost>>
  BY DEF Follow, Customer, Trials
<1> HIDE DEF p, r
<1>4. ASSUME NEW m \in Macs
      PROVE  /\ Followed(p)[m] \in LoginRow
             /\ \/ Followed(p)[m] = cred[m]
                \/ /\ cred[m].status = "active" /\ Followed(p)[m].status \in {"active", "expired"}
                   /\ Followed(p)[m].until \in 1..plan
  <2>1. CASE cred[m].status # "active"
    BY <2>1, ActiveRow DEF Followed
  <2>2. CASE cred[m].status = "active" /\ p = 0
    <3>1. Followed(p)[m] = [cred[m] EXCEPT !.status = "expired"]
      BY <2>2 DEF Followed
    <3>2. QED
      BY <2>2, <3>1, ActiveRow DEF LoginRow, Statuses
  <2>3. CASE cred[m].status = "active" /\ p # 0
    <3>1. Followed(p)[m] = [cred[m] EXCEPT !.until = p]
      BY <2>3 DEF Followed
    <3>2. Followed(p)[m] \in LoginRow /\ Followed(p)[m].status = "active" /\ Followed(p)[m].until = p
      BY <1>1, <2>3, <3>1, ActiveRow DEF LoginRow, Statuses
    <3>3. QED
      BY <1>1, <2>3, <3>2
  <2>4. QED
    BY <2>1, <2>2, <2>3
<1>5. Followed(p) \in [Macs -> LoginRow]
  BY <1>4 DEF Followed
<1>6. CredStep
  BY <1>3, <1>4, <1>5, CredShrinks
<1>7. TokensOK'
  BY <1>3, <1>6 DEF IInv, TokensOK, CredStep
<1>8. QED
  BY <1>2, <1>3, <1>6, <1>7, JobType, SetRow DEF IInv, CustomerOK

LEMMA CountStep ==
  ASSUME IInv, Count
  PROVE  IInv'
<1> DEFINE r == IF Active(cred) # {} THEN Idle ELSE [Idle EXCEPT !.at = "begin", !.mac = AccountMac]
<1>1. r \in WorkRow /\ r.at \in {"idle", "begin"} /\ (r.at = "begin" => r.mac \in Macs)
  <2> DEFINE s == [Idle EXCEPT !.at = "begin", !.mac = AccountMac]
  <2>1. s \in WorkRow /\ s.at = "begin" /\ s.mac = AccountMac
    BY IdleRow, DeviceAssumption DEF WorkRow, WorkStages
  <2> HIDE DEF s
  <2>2. r = Idle \/ r = s
    BY DEF s
  <2> HIDE DEF r
  <2>3. QED
    BY <2>1, <2>2, IdleRow, DeviceAssumption
<1>2. work' = [work EXCEPT ![Job] = r]
  BY DEF Count
<1>3. UNCHANGED <<plan, over, changed, cred, token, ticket, claims, trials, lost>>
  BY DEF Count, Customer, Logins, Trials
<1> HIDE DEF r
<1>4. QED
  BY <1>1, <1>2, <1>3, JobType, SameCred, SetRow DEF IInv, TokensOK, CustomerOK

-----------------------------------------------------------------------------
\* Giving up on trials adds one for each device and phone with one under way.
LEMMA ForgoAdds ==
  ASSUME IInv, NEW S, Forgo(S)
  PROVE  /\ lost' \in [Macs \cup Phones -> Nat]
         /\ \A x \in Macs \cup Phones :
              /\ lost[x] \in Nat /\ lost[x] <= lost'[x]
              /\ x \in S /\ UnderWay(x) => lost'[x] = lost[x] + 1
  BY DEF Forgo, IInv, TrialsOK

LEMMA TakeTrialStep ==
  ASSUME IInv, NEW h \in Handlers, NEW s \in Servers, NEW m \in Macs, NEW p \in Phones \cup {None},
         TakeTrial(h, s, m, p)
  PROVE  IInv'
<1> DEFINE r == [Idle EXCEPT !.at = "claim", !.mac = m, !.phone = p, !.server = s]
<1>1. r \in WorkRow /\ r.at = "claim" /\ r.mac = m /\ r.phone = p
  BY IdleRow DEF WorkRow, WorkStages
<1>2. /\ work[h] = Idle /\ work' = [work EXCEPT ![h] = r] /\ h \in Workers
      /\ UNCHANGED <<plan, over, changed, cred, token, ticket, claims>>
      /\ trials' = [x \in Macs \cup Phones |-> trials[x] + IF x \in {m, p} THEN 1 ELSE 0]
      /\ ~Tried(m, p) /\ Forgo({m, p})
  BY DEF TakeTrial, Start, Customer, Logins, Workers
<1> HIDE DEF r
<1>3. work'[h] = r /\ work' \in [Workers -> WorkRow] /\ \A v \in Workers \ {h} : work'[v] = work[v]
  BY <1>1, <1>2 DEF IInv, WorkOK
<1>4. WorkOK'
  BY <1>1, <1>2, <1>3 DEF IInv, WorkOK
<1>5. ~InTx(h)' /\ \A v \in Workers \ {h} : InTx(v)' <=> InTx(v)
  BY <1>1, <1>3 DEF InTx
<1>6. SeenOK'
  BY <1>2, <1>3, <1>5 DEF IInv, SeenOK, Active, SeenActive
<1>7. TrialsOK'
  <2>1. trials' \in [Macs \cup Phones -> Nat]
    BY <1>2 DEF IInv, TrialsOK
  <2>2. ASSUME NEW x \in Macs \cup Phones
        PROVE  /\ trials'[x] <= 1 + lost'[x]
               /\ Claimed(x)' \/ UnderWay(x)' \/ trials'[x] <= lost'[x]
    <3>1. /\ trials[x] \in Nat /\ lost[x] \in Nat /\ lost'[x] \in Nat /\ lost[x] <= lost'[x]
          /\ x \in {m, p} /\ UnderWay(x) => lost'[x] = lost[x] + 1
          /\ trials[x] <= 1 + lost[x] /\ (Claimed(x) \/ UnderWay(x) \/ trials[x] <= lost[x])
      BY <1>2, ForgoAdds DEF IInv, TrialsOK
    <3>2. CASE x \in {m, p}
      <4>1. ~Claimed(x)
        BY <1>2, <3>2, DeviceAssumption DEF Tried, Claimed, IInv, TrialsOK
      <4>2. trials'[x] = trials[x] + 1
        BY <1>2, <3>2
      <4>3. UnderWay(x)'
        BY <1>1, <1>3, <3>2 DEF UnderWay, Keys, InTrial
      <4>4. QED
        BY <3>1, <3>2, <4>1, <4>2, <4>3
    <3>3. CASE x \notin {m, p}
      <4>1. trials'[x] = trials[x]
        BY <1>2, <3>1, <3>3
      <4>2. UnderWay(x) => UnderWay(x)'
        BY <1>2, <1>3, IdleRow DEF UnderWay, Keys, InTrial, Workers
      <4>3. Claimed(x) => Claimed(x)'
        BY <1>2 DEF Claimed
      <4>4. QED
        BY <3>1, <4>1, <4>2, <4>3
    <3>4. QED
      BY <3>2, <3>3
  <2>3. QED
    BY <1>2, <2>1, <2>2, ForgoAdds DEF IInv, TrialsOK
<1>8. QED
  BY <1>2, <1>4, <1>6, <1>7 DEF IInv, CustomerOK, CredOK, TokensOK

LEMMA ClaimTrialStep ==
  ASSUME IInv, NEW h \in Handlers, ClaimTrial(h)
  PROVE  IInv'
<1> DEFINE c == [mac |-> work[h].mac, phone |-> work[h].phone]
<1>1. /\ work[h].at = "claim" /\ work' = [work EXCEPT ![h] = Idle] /\ h \in Workers
      /\ UNCHANGED <<plan, over, changed, cred, token, ticket, trials>>
      /\ \/ claims' = claims \cup {c} /\ lost' = lost
         \/ claims' = claims /\ Forgo(Keys(h))
      /\ work[h].mac \in Macs /\ work[h].phone \in Phones \cup {None}
  BY DEF ClaimTrial, InTrial, Customer, Logins, Workers, IInv, WorkOK, WorkRow
<1>2. work'[h] = Idle /\ work' \in [Workers -> WorkRow] /\ \A v \in Workers \ {h} : work'[v] = work[v]
  BY <1>1, IdleRow DEF IInv, WorkOK
<1>3. WorkOK'
  BY <1>1, <1>2, IdleRow DEF IInv, WorkOK
<1>4. ~InTx(h)' /\ \A v \in Workers \ {h} : InTx(v)' <=> InTx(v)
  BY <1>2, IdleRow DEF InTx
<1>5. SeenOK'
  BY <1>1, <1>2, <1>4 DEF IInv, SeenOK, Active, SeenActive
<1>6. TrialsOK'
  <2>1. ASSUME NEW x \in Macs \cup Phones, UnderWay(x)
        PROVE  x \in Keys(h) \/ UnderWay(x)'
    <3>1. PICK g \in Handlers : InTrial(g) /\ x \in Keys(g)
      BY <2>1 DEF UnderWay
    <3>2. CASE g # h
      BY <1>2, <3>1, <3>2 DEF UnderWay, Keys, InTrial, Workers
    <3>3. QED
      BY <3>1, <3>2
  <2>2. CASE claims' = claims \cup {c} /\ lost' = lost
    <3>1. \A x : Claimed(x) => Claimed(x)'
      BY <2>2 DEF Claimed
    <3>2. \A x \in Keys(h) : Claimed(x)'
      <4>1. c \in claims' /\ c.mac = work[h].mac /\ c.phone = work[h].phone
        BY <2>2
      <4> HIDE DEF c
      <4>2. QED
        BY <4>1 DEF Claimed, Keys
    <3>3. claims' \subseteq [mac : Macs, phone : Phones \cup {None}]
      BY <1>1, <2>2 DEF IInv, TrialsOK
    <3> HIDE DEF c
    <3>4. QED
      BY <1>1, <2>1, <2>2, <3>1, <3>2, <3>3 DEF IInv, TrialsOK
  <2>3. CASE claims' = claims /\ Forgo(Keys(h))
    <3>1. \A x : Claimed(x) => Claimed(x)'
      BY <2>3 DEF Claimed
    <3>2. \A x \in Keys(h) : UnderWay(x)
      BY <1>1 DEF UnderWay, InTrial
    <3>3. ASSUME NEW x \in Macs \cup Phones
          PROVE  /\ trials'[x] <= 1 + lost'[x]
                 /\ Claimed(x)' \/ UnderWay(x)' \/ trials'[x] <= lost'[x]
      <4>1. /\ trials[x] \in Nat /\ lost[x] \in Nat /\ lost'[x] \in Nat /\ lost[x] <= lost'[x]
            /\ x \in Keys(h) => lost'[x] = lost[x] + 1
            /\ trials[x] <= 1 + lost[x] /\ (Claimed(x) \/ UnderWay(x) \/ trials[x] <= lost[x])
        BY <2>3, <3>2, ForgoAdds DEF IInv, TrialsOK
      <4>2. QED
        BY <1>1, <2>1, <3>1, <4>1
    <3>4. QED
      BY <1>1, <2>3, <3>3, ForgoAdds DEF IInv, TrialsOK
  <2>4. QED
    BY <1>1, <2>2, <2>3
<1>7. QED
  BY <1>1, <1>3, <1>5, <1>6 DEF IInv, CustomerOK, CredOK, TokensOK

\* A purchase, and an expiry date that passes.
LEMMA ClockStep ==
  ASSUME IInv, Pay \/ Lapse
  PROVE  IInv'
<1>1. /\ UNCHANGED <<cred, token, ticket, work, claims, trials, lost>>
      /\ plan' \in Nat /\ plan <= plan' /\ plan \in Nat /\ CustomerOK'
  <2>1. plan \in 0..MaxPlans /\ over \in 0..plan /\ MaxPlans \in Nat
    BY DeviceAssumption DEF IInv, CustomerOK
  <2>2. CASE Pay
    BY <2>1, <2>2 DEF Pay, Logins, Trials, CustomerOK
  <2>3. CASE Lapse
    BY <2>1, <2>3 DEF Lapse, Logins, Trials, CustomerOK
  <2>4. QED
    BY <2>2, <2>3
<1>2. \A n : n \in 1..plan => n \in 1..plan'
  BY <1>1
<1>3. CredOK' /\ TokensOK'
  BY <1>1, <1>2 DEF IInv, CredOK, TokensOK
<1>4. WorkOK'
  BY <1>1, <1>2 DEF IInv, WorkOK
<1>5. SeenOK'
  BY <1>1 DEF IInv, SeenOK, InTx, Active, SeenActive
<1>6. TrialsOK'
  BY <1>1 DEF IInv, TrialsOK, Claimed, UnderWay, Keys, InTrial
<1>7. QED
  BY <1>1, <1>3, <1>4, <1>5, <1>6 DEF IInv

LEMMA CrashStep ==
  ASSUME IInv, Crash
  PROVE  IInv'
<1>1. /\ UNCHANGED <<plan, over, cred, token, ticket, claims, trials>> /\ changed' = TRUE
      /\ Forgo(Macs \cup Phones)
      /\ work' = [w \in Workers |-> Idle]
  BY DEF Crash, Logins
<1>2. WorkOK' /\ SeenOK'
  BY <1>1, IdleRow DEF WorkOK, SeenOK, InTx
<1>3. TrialsOK'
  <2>1. ASSUME NEW x \in Macs \cup Phones
        PROVE  trials'[x] <= 1 + lost'[x] /\ (Claimed(x)' \/ trials'[x] <= lost'[x])
    <3>1. /\ trials[x] \in Nat /\ lost[x] \in Nat /\ lost'[x] \in Nat /\ lost[x] <= lost'[x]
          /\ UnderWay(x) => lost'[x] = lost[x] + 1
          /\ trials[x] <= 1 + lost[x] /\ (Claimed(x) \/ UnderWay(x) \/ trials[x] <= lost[x])
      BY <1>1, ForgoAdds DEF IInv, TrialsOK
    <3>2. Claimed(x) => Claimed(x)'
      BY <1>1 DEF Claimed
    <3>3. QED
      BY <1>1, <3>1, <3>2
  <2>2. QED
    BY <1>1, <2>1, ForgoAdds DEF IInv, TrialsOK
<1>4. CustomerOK' /\ CredOK' /\ TokensOK'
  BY <1>1 DEF IInv, CustomerOK, CredOK, TokensOK
<1>5. QED
  BY <1>2, <1>3, <1>4 DEF IInv

-----------------------------------------------------------------------------
LEMMA InitInv == Init => IInv
<1> SUFFICES ASSUME Init PROVE IInv
  OBVIOUS
<1>1. CustomerOK /\ CredOK /\ TokensOK
  <2>1. CustomerOK
    <3>1. plan = 0 /\ over = 0 /\ changed = FALSE /\ MaxPlans \in Nat
      BY DeviceAssumption DEF Init
    <3>2. 0 \in 0..MaxPlans /\ 0 \in 0..0
      BY <3>1
    <3>3. plan \in 0..MaxPlans /\ over \in 0..plan
      BY <3>1, <3>2, Zenon
    <3>4. changed \in BOOLEAN
      BY <3>1
    <3>5. QED
      BY <3>3, <3>4 DEF CustomerOK
  <2>2. CredOK
    BY IdleRow DEF Init, CredOK
  <2>3. QED
    BY <2>1, <2>2 DEF Init, TokensOK
<1>2. WorkOK /\ SeenOK
  BY IdleRow DEF Init, WorkOK, SeenOK, InTx
<1>3. TrialsOK
  BY DEF Init, TrialsOK
<1>4. QED
  BY <1>1, <1>2, <1>3 DEF IInv

LEMMA RequestStep ==
  ASSUME IInv, NEW h \in Handlers, Request(h)
  PROVE  IInv'
<1>1. PICK m \in Macs : \/ Prove(h, m) \/ HotspotStatus(h, m) \/ CustomerRecoverByReceipt(h, m)
                        \/ \E k \in Macs \cup {None} :
                             \/ Reconnect(h, k, m) \/ Recognise(h, k, m)
                             \/ FetchByToken(h, k, m) \/ FetchByTicket(h, k, m)
  BY DEF Request
<1>2. CASE Prove(h, m) \/ HotspotStatus(h, m) \/ CustomerRecoverByReceipt(h, m)
  BY <1>2, GrantStep DEF Prove, HotspotStatus, CustomerRecoverByReceipt
<1>3. ASSUME NEW k \in Macs \cup {None},
             \/ Reconnect(h, k, m) \/ Recognise(h, k, m)
             \/ FetchByToken(h, k, m) \/ FetchByTicket(h, k, m)
      PROVE  IInv'
  BY <1>3, ReconnectStep, RecogniseStep, FetchByTokenStep, FetchByTicketStep
<1>4. QED
  BY <1>1, <1>2, <1>3

LEMMA NextInv == IInv /\ [Next]_vars => IInv'
<1> SUFFICES ASSUME IInv, [Next]_vars PROVE IInv'
  OBVIOUS
<1>1. CASE UNCHANGED vars
  <2>1. UNCHANGED <<plan, over, changed, cred, token, ticket, work, claims, trials, lost>>
    BY <1>1 DEF vars
  <2>2. TrialsOK'
    BY <2>1 DEF IInv, TrialsOK, Claimed, UnderWay, Keys, InTrial
  <2>3. QED
    BY <2>1, <2>2 DEF IInv, CustomerOK, CredOK, TokensOK, WorkOK, SeenOK,
       InTx, Active, SeenActive
<1>2. ASSUME NEW w \in Workers, Step(w) PROVE IInv'
  BY <1>2, BeginStep, WriteStep, IssueStep DEF Step
<1>3. CASE Round
  BY <1>2, <1>3, ExpireStep, ReadStep, FollowStep, CountStep DEF Round, Workers
<1>4. ASSUME NEW h \in Handlers,
             \/ Step(h) \/ ClaimTrial(h)
             \/ scene # "trials" /\ Request(h)
             \/ scene = "trials" /\ \E s \in Servers, m \in Macs, p \in Phones \cup {None} : TakeTrial(h, s, m, p)
      PROVE  IInv'
  BY <1>2, <1>4, ClaimTrialStep, RequestStep, TakeTrialStep DEF Workers
<1>5. QED
  BY <1>1, <1>3, <1>4, ClockStep, CrashStep DEF Next

LEMMA Inductive == Spec => []IInv
  BY InitInv, NextInv, PTL DEF Spec

\* The plan, the logins and the requests always have values the code writes,
\* and every token is a login's.
THEOREM TypesHold == Spec => []TypeOK
<1>1. IInv => TypeOK
  BY DEF IInv, CustomerOK, CredOK, TokensOK, WorkOK, WorkRow, WorkStages,
     TrialsOK, TypeOK
<1>2. QED
  BY <1>1, Inductive, PTL

\* Whatever requests and reconciler rounds overlap and whatever packages are
\* bought, a grant leaves as many logins as the package it read allows, besides
\* those granted meanwhile by requests it did not exclude (MoveCredential,
\* EnsureCredential).
THEOREM LimitHolds == Spec => AtMostLimit
<1> DEFINE Within == \A w \in Workers : Write(w) /\ ~Clash(w) =>
                       Cardinality(Active(cred') \ work[w].met) <= LimitOf[work[w].paid]
<1>1. IInv /\ [Next]_vars => [Within]_vars
  BY WriteWithinLimit
<1>2. QED
  BY <1>1, Inductive, PTL DEF Spec, AtMostLimit

\* One trial per device and per phone, however often it is asked for at once,
\* and another only for each claim that was not written, or not before another
\* server checked (CustomerClaimFreeTier).
THEOREM TrialsHold == Spec => []TrialOnce
<1>1. IInv => TrialOnce
  BY DEF IInv, TrialsOK, TrialOnce
<1>2. QED
  BY <1>1, Inductive, PTL
=============================================================================
