-------------------------- MODULE RouterHealthProofs --------------------------
(***************************************************************************)
(* Proofs that one silence of a router is compensated once, none is missed *)
(* and nobody is given more than was lost, for any customers, handlers,    *)
(* limits and bounds.  The inductive invariant orders the outages in time: *)
(* what was or is being compensated ended no later than last_seen_at,      *)
(* where the next outage can only begin.  So the time given back is counted *)
(* against stretches of time that do not overlap.  The last part proves of  *)
(* OpsAlerts, which watches the same routers, that its texts are apart.     *)
(***************************************************************************)
EXTENDS RouterHealth, FiniteSetTheorems, TLAPS

Gaps == [start : Nat \cup {Never}, end : Nat]
Outage(g) == g \in Gaps /\ g.start # Never /\ g.start < g.end
Loss == [who : Customers, expiry : Nat]

Busy(h) == handler[h].at \in {"resolve", "give"}

TablesOK ==
  /\ now \in Nat /\ now <= MaxTime
  /\ lastSeen \in Nat \cup {Never} /\ lastSeen <= now
  /\ lastStatus \in {"unknown", "online", "offline"} /\ open \in 0..1
  /\ until \in [Customers -> Nat] /\ given \in [Customers -> Nat]
  /\ status \in [Customers -> {"active", "expired", "suspended"}]
  /\ watch \in [at : {"asleep", "mark", "raise", "clear"}, seen : Nat \cup {Never},
                status : {"unknown", "online", "offline"}]

HandlersOK ==
  handler \in [Handlers -> [at : {"record", "resolve", "give"}, gap : Gaps, todo : SUBSET Loss]
                           \cup {Idle}]

\* A check-in is recorded in the unit of time it came in, with what the zone
\* showed then; one that gives time back gives each customer some.
CheckInsOK ==
  \A h \in Handlers :
    /\ handler[h].at = "record" => handler[h].gap.end = now /\ handler[h].gap.start <= now
    /\ Busy(h) => Outage(handler[h].gap) /\ handler[h].gap.end <= lastSeen
    /\ \A l \in handler[h].todo : /\ handler[h].at = "give" /\ l.expiry > handler[h].gap.start
                                 /\ \A k \in handler[h].todo : k.who = l.who => k = l

\* What has been compensated, or was when a crash came, is over.
OutagesOver ==
  \A g \in outages \cup torn : Outage(g) /\ g.end <= lastSeen

Before(a, b) == a.end <= b.start

\* No outage is in two places, and any two are apart.
InOrder ==
  /\ \A a, b \in outages \cup torn : a = b \/ Before(a, b) \/ Before(b, a)
  /\ \A h \in Handlers : Busy(h) =>
       \A a \in outages \cup torn : Before(a, handler[h].gap) \/ Before(handler[h].gap, a)
  /\ \A g, h \in Handlers : Busy(g) /\ Busy(h) /\ g # h =>
       Before(handler[g].gap, handler[h].gap) \/ Before(handler[h].gap, handler[g].gap)

\* The time of an outage that is given back, and of a set of them.
Span(g) == g.start..(LesserOf(g.end, g.start + Cap) - 1)
Spans(S) == UNION {Span(g) : g \in S}

\* The outages for which a customer has been served, or skipped.
Done(c) == outages \cup torn \cup
  {handler[h].gap : h \in {h \in Handlers : /\ handler[h].at = "give"
                                           /\ \A l \in handler[h].todo : l.who # c}}

GivenOK == \A c \in Customers : given[c] <= Cardinality(Spans(Done(c)))

IInv == TablesOK /\ HandlersOK /\ CheckInsOK /\ OutagesOver /\ InOrder /\ GivenOK

-----------------------------------------------------------------------------
\* The size of stretches of time.
LEMMA SpanSize ==
  ASSUME NEW g, Outage(g)
  PROVE  /\ Span(g) \subseteq 0..g.end /\ IsFiniteSet(Span(g))
         /\ Cardinality(Span(g)) = LesserOf(g.end, g.start + Cap) - g.start
<1> DEFINE last == LesserOf(g.end, g.start + Cap)
<1>1. /\ g.start \in Nat /\ g.end \in Nat /\ g.start < g.end /\ Cap \in Nat \ {0}
      /\ last \in Nat /\ g.start < last /\ last <= g.end
  BY HealthAssumption DEF Outage, Gaps, LesserOf
<1> HIDE DEF last
<1>2. IsFiniteSet(g.start..(last - 1)) /\ Cardinality(g.start..(last - 1)) = last - g.start
  <2>1. /\ g.start \in Int /\ last - 1 \in Int /\ ~(g.start > last - 1)
        /\ (last - 1) - g.start + 1 = last - g.start
    BY <1>1
  <2>2. QED
    BY <2>1, FS_Interval
<1>3. g.start..(last - 1) \subseteq 0..g.end
  BY <1>1
<1>4. QED
  BY <1>2, <1>3 DEF Span, last

LEMMA SpansFinite ==
  ASSUME NEW n \in Nat, NEW S, \A g \in S : Outage(g) /\ g.end <= n
  PROVE  IsFiniteSet(Spans(S)) /\ Cardinality(Spans(S)) \in Nat
<1>1. Spans(S) \subseteq 0..n
  <2>1. ASSUME NEW g \in S PROVE Span(g) \subseteq 0..n
    <3>1. Span(g) \subseteq 0..g.end /\ g.end \in Nat /\ g.end <= n
      BY SpanSize DEF Outage, Gaps
    <3>2. QED
      BY <3>1
  <2>2. QED
    BY <2>1 DEF Spans
<1>2. IsFiniteSet(0..n)
  BY FS_Interval
<1>3. QED
  BY <1>1, <1>2, FS_Subset, FS_CardinalityType

LEMMA SpansGrow ==
  ASSUME NEW n \in Nat, NEW T, \A g \in T : Outage(g) /\ g.end <= n, NEW S \in SUBSET T
  PROVE  /\ Cardinality(Spans(S)) \in Nat /\ Cardinality(Spans(T)) \in Nat
         /\ Cardinality(Spans(S)) <= Cardinality(Spans(T))
<1>1. Spans(S) \subseteq Spans(T)
  BY DEF Spans
<1>2. IsFiniteSet(Spans(T)) /\ Cardinality(Spans(T)) \in Nat
  BY SpansFinite
<1>3. Cardinality(Spans(S)) \in Nat
  BY SpansFinite
<1>4. QED
  BY <1>1, <1>2, <1>3, FS_Subset

\* An outage apart from the others adds all of its time.
LEMMA SpansAdd ==
  ASSUME NEW n \in Nat, NEW S, \A a \in S : Outage(a) /\ a.end <= n,
         NEW g, Outage(g), \A a \in S : Before(a, g) \/ Before(g, a)
  PROVE  Cardinality(Spans(S \cup {g})) = Cardinality(Spans(S)) + Cardinality(Span(g))
<1>1. Spans(S \cup {g}) = Spans(S) \cup Span(g)
  BY DEF Spans
<1>2. Spans(S) \cap Span(g) = {}
  <2>1. ASSUME NEW a \in S PROVE Span(a) \cap Span(g) = {}
    BY HealthAssumption DEF Span, Before, Outage, Gaps, LesserOf
  <2>2. QED
    BY <2>1 DEF Spans
<1>3. IsFiniteSet(Spans(S)) /\ Cardinality(Spans(S)) \in Nat
  BY SpansFinite
<1>4. IsFiniteSet(Span(g)) /\ Cardinality(Span(g)) \in Nat
  BY SpanSize, FS_CardinalityType
<1>5. Cardinality(Spans(S) \cup Span(g))
        = Cardinality(Spans(S)) + Cardinality(Span(g)) - Cardinality(Spans(S) \cap Span(g))
  BY <1>3, <1>4, FS_Union
<1>6. Cardinality(Spans(S) \cap Span(g)) = 0
  BY <1>2, FS_EmptySet, Zenon
<1>7. Cardinality(Spans(S) \cup Span(g)) = Cardinality(Spans(S)) + Cardinality(Span(g))
  BY <1>3, <1>4, <1>5, <1>6
<1>8. QED
  BY <1>1, <1>7, Zenon

-----------------------------------------------------------------------------
\* What a customer has been given stays covered while outages are only added.
LEMMA GivenKept ==
  ASSUME IInv, TablesOK', CheckInsOK', OutagesOver', given' = given,
         \A c \in Customers : Done(c) \subseteq Done(c)'
  PROVE  GivenOK'
<1> SUFFICES ASSUME NEW c \in Customers
             PROVE  given[c] <= Cardinality(Spans(Done(c)'))
  BY DEF GivenOK
<1>1. \A g \in Done(c)' : Outage(g) /\ g.end <= now'
  BY DEF Done, OutagesOver, CheckInsOK, TablesOK, Busy, Outage, Gaps, Never
<1>2. now' \in Nat /\ given[c] \in Nat /\ given[c] <= Cardinality(Spans(Done(c)))
  BY DEF TablesOK, IInv, GivenOK
<1>3. /\ Cardinality(Spans(Done(c))) <= Cardinality(Spans(Done(c)'))
      /\ Cardinality(Spans(Done(c))) \in Nat /\ Cardinality(Spans(Done(c)')) \in Nat
  BY <1>1, <1>2, SpansGrow
<1>4. QED
  BY <1>2, <1>3

\* What the handlers and the outages of a state say when a step leaves them.
LEMMA OutagesKept ==
  ASSUME CheckInsOK, OutagesOver, InOrder,
         UNCHANGED <<lastSeen, now, outages, handler, torn>>
  PROVE  CheckInsOK' /\ OutagesOver' /\ InOrder'
<1>1. CheckInsOK'
  BY DEF CheckInsOK, Busy
<1>2. OutagesOver'
  BY DEF OutagesOver
<1>3. InOrder'
  BY DEF InOrder, Busy
<1>5. QED
  BY <1>1, <1>2, <1>3

\* The watchdog, purchases and the expiry sweep.
LEMMA AsideStep ==
  ASSUME IInv, WatchLoad \/ WatchMark \/ WatchAlert \/ \E c \in Customers : Renew(c) \/ Expire(c)
  PROVE  IInv'
<1>1. UNCHANGED <<lastSeen, now, outages, handler, torn>>
  BY DEF WatchLoad, WatchMark, WatchAlert, Renew, Expire, Row, Rest
<1>2. TablesOK'
  <2>1. CASE WatchLoad
    BY <2>1 DEF WatchLoad, IInv, TablesOK, Row, People, Rest
  <2>2. CASE WatchMark
    BY <2>2 DEF WatchMark, IInv, TablesOK, People, Rest, Asleep, Never
  <2>3. CASE WatchAlert
    BY <2>3 DEF WatchAlert, IInv, TablesOK, Row, People, Rest, Asleep, AlertOnce, Never
  <2>4. ASSUME NEW c \in Customers, Renew(c) PROVE TablesOK'
    BY <2>4 DEF Renew, IInv, TablesOK, Row, GreaterOf
  <2>5. ASSUME NEW c \in Customers, Expire(c) PROVE TablesOK'
    BY <2>5 DEF Expire, IInv, TablesOK, Row, Rest
  <2>6. QED
    BY <2>1, <2>2, <2>3, <2>4, <2>5
<1>3. HandlersOK'
  BY <1>1 DEF IInv, HandlersOK
<1>4. CheckInsOK' /\ OutagesOver' /\ InOrder'
  BY <1>1, OutagesKept DEF IInv
<1>5. GivenOK'
  <2>1. given' = given /\ \A c \in Customers : Done(c)' = Done(c)
    BY <1>1 DEF Done, WatchLoad, WatchMark, WatchAlert, Renew, Expire, People
  <2>2. QED
    BY <1>2, <1>4, <2>1, GivenKept
<1>6. QED
  BY <1>2, <1>3, <1>4, <1>5 DEF IInv

LEMMA CheckInStep ==
  ASSUME IInv, NEW h \in Handlers, CheckIn(h)
  PROVE  IInv'
<1>1. /\ UNCHANGED <<lastSeen, now, outages, torn>> /\ TablesOK'
      /\ Gap(lastSeen, now) \in Gaps
  BY DEF CheckIn, Row, People, Rest, IInv, TablesOK, Gap, Gaps
<1>2. /\ handler' = [handler EXCEPT ![h] = [at |-> "record", gap |-> Gap(lastSeen, now), todo |-> {}]]
      /\ handler[h] = Idle
  BY DEF CheckIn
<1>3. HandlersOK'
  BY <1>1, <1>2 DEF IInv, HandlersOK
<1>4. /\ handler'[h].at = "record" /\ handler'[h].gap = Gap(lastSeen, now) /\ handler'[h].todo = {}
      /\ \A g \in Handlers \ {h} : handler'[g] = handler[g]
      /\ ~Busy(h) /\ ~Busy(h)'
  BY <1>2 DEF IInv, HandlersOK, Busy, Idle
<1>5. CheckInsOK'
  BY <1>1, <1>4 DEF IInv, CheckInsOK, TablesOK, Busy, Gap
<1>6. OutagesOver'
  BY <1>1 DEF IInv, OutagesOver
<1>7. InOrder'
  BY <1>1, <1>4 DEF IInv, InOrder, Busy
<1>9. GivenOK'
  <2>1. given' = given /\ \A c \in Customers : Done(c) \subseteq Done(c)'
    BY <1>1, <1>4 DEF Done, CheckIn, People, Busy
  <2>2. QED
    BY <1>1, <1>5, <1>6, <2>1, GivenKept
<1>10. QED
  BY <1>1, <1>3, <1>5, <1>6, <1>7, <1>9 DEF IInv

LEMMA RecordStep ==
  ASSUME IInv, NEW h \in Handlers, Record(h)
  PROVE  IInv'
<1> DEFINE gap == handler[h].gap
<1>1. /\ handler[h].at = "record" /\ gap \in Gaps /\ gap.end = now /\ gap.start <= now
      /\ handler[h] \in [at : {"record", "resolve", "give"}, gap : Gaps, todo : SUBSET Loss]
      /\ now \in Nat /\ lastSeen \in Nat \cup {Never} /\ lastSeen <= now
  BY DEF Record, IInv, HandlersOK, CheckInsOK, TablesOK, Idle
<1>2. /\ UNCHANGED <<now, outages, torn, People>>
      /\ lastSeen' = now \/ lastSeen' = lastSeen
      /\ lastSeen <= lastSeen'
  <2>1. UNCHANGED <<now, outages, torn, People>>
    BY DEF Record, Rest
  <2>2. lastSeen' = now \/ lastSeen' = lastSeen
    BY <1>1 DEF Record, Row
  <2>3. QED
    BY <1>1, <2>1, <2>2 DEF Never
<1>3. TablesOK'
  BY <1>1, <1>2 DEF Record, Rest, Row, People, IInv, TablesOK
<1>4. CASE /\ lastSeen' = now /\ First(gap) /\ Long(gap)
           /\ handler' = [handler EXCEPT ![h].at = "resolve"]
  <2>1. lastSeen = gap.start /\ gap.start # Never /\ gap.end - gap.start > OutageAfter
    BY <1>4 DEF First, Long
  <2>2. Outage(gap) /\ gap.end <= lastSeen'
    BY <1>1, <1>2, <1>4, <2>1, HealthAssumption DEF Outage, Gaps, Never
  <2>3. /\ HandlersOK'
        /\ handler'[h].at = "resolve" /\ handler'[h].gap = gap /\ handler'[h].todo = handler[h].todo
        /\ \A g \in Handlers \ {h} : handler'[g] = handler[g]
        /\ ~Busy(h) /\ Busy(h)'
    BY <1>1, <1>4 DEF IInv, HandlersOK, Busy
  <2>4. CheckInsOK'
    BY <1>1, <1>2, <2>2, <2>3 DEF IInv, CheckInsOK, Busy, Outage, Gaps, Never
  <2>5. OutagesOver'
    BY <1>1, <1>2, <2>2 DEF IInv, OutagesOver, Outage, Gaps, Never
  <2>6. InOrder'
    <3>1. \A a \in outages \cup torn : Before(a, gap)
      BY <2>1 DEF IInv, OutagesOver, Before
    <3>2. \A g \in Handlers \ {h} : Busy(g) => Before(handler[g].gap, gap)
      BY <2>1 DEF IInv, CheckInsOK, Before
    <3>3. QED
      BY <1>2, <2>3, <3>1, <3>2 DEF IInv, InOrder, Busy
  <2>8. GivenOK'
    <3>1. given' = given /\ \A c \in Customers : Done(c) \subseteq Done(c)'
      BY <1>1, <1>2, <2>3 DEF Record, People, Done, Busy
    <3>2. QED
      BY <1>3, <2>4, <2>5, <3>1, GivenKept
  <2>9. QED
    BY <1>3, <2>3, <2>4, <2>5, <2>6, <2>8 DEF IInv
<1>5. CASE handler' = [handler EXCEPT ![h] = Idle]
  <2>2. /\ HandlersOK' /\ handler'[h] = Idle
        /\ \A g \in Handlers \ {h} : handler'[g] = handler[g]
        /\ ~Busy(h) /\ ~Busy(h)'
    BY <1>1, <1>5 DEF IInv, HandlersOK, Busy, Idle
  <2>3. CheckInsOK'
    <3>1. handler'[h].at = "idle" /\ handler'[h].todo = {}
      BY <2>2 DEF Idle
    <3>2. \A g \in Handlers \ {h} :
            Busy(g) => Outage(handler[g].gap) /\ handler[g].gap.end <= lastSeen'
      BY <1>1, <1>2 DEF IInv, CheckInsOK, Outage, Gaps
    <3>3. QED
      BY <1>2, <2>2, <3>1, <3>2 DEF IInv, CheckInsOK, Busy
  <2>4. OutagesOver'
    BY <1>1, <1>2 DEF IInv, OutagesOver, Outage, Gaps
  <2>5. InOrder'
    BY <1>2, <2>2 DEF IInv, InOrder, Busy
  <2>7. GivenOK'
    <3>1. given' = given /\ \A c \in Customers : Done(c) \subseteq Done(c)'
      BY <1>1, <1>2, <2>2 DEF Record, People, Done, Busy
    <3>2. QED
      BY <1>3, <2>3, <2>4, <3>1, GivenKept
  <2>8. QED
    BY <1>3, <2>2, <2>3, <2>4, <2>5, <2>7 DEF IInv
<1>6. QED
  BY <1>1, <1>4, <1>5 DEF Record

\* A busy handler goes on with the same outage.
LEMMA BusyStays ==
  ASSUME IInv, NEW h \in Handlers, Busy(h), HandlersOK', Busy(h)',
         handler'[h].gap = handler[h].gap,
         \A l \in handler'[h].todo :
           /\ handler'[h].at = "give" /\ l.expiry > handler[h].gap.start
           /\ \A k \in handler'[h].todo : k.who = l.who => k = l,
         \A g \in Handlers \ {h} : handler'[g] = handler[g],
         UNCHANGED <<lastSeen, now, outages, torn>>
  PROVE  CheckInsOK' /\ OutagesOver' /\ InOrder'
<1>1. CheckInsOK'
  BY DEF IInv, CheckInsOK, Busy
<1>2. OutagesOver'
  BY DEF IInv, OutagesOver
<1>3. InOrder'
  BY DEF IInv, InOrder, Busy
<1>5. QED
  BY <1>1, <1>2, <1>3

LEMMA ResolveStep ==
  ASSUME IInv, NEW h \in Handlers, Resolve(h)
  PROVE  IInv'
<1> DEFINE losers == Losers(handler[h].gap)
<1>1. /\ handler[h].at = "resolve"
      /\ handler' = [handler EXCEPT ![h].at = "give", ![h].todo = losers]
      /\ UNCHANGED <<lastSeen, lastStatus, until, status, given, outages, watch, now, torn>>
      /\ open' = 0
  BY DEF Resolve, Row, People, Rest
<1>2. /\ losers \in SUBSET Loss
      /\ \A l \in losers : /\ l.expiry > handler[h].gap.start
                          /\ \A k \in losers : k.who = l.who => k = l
  BY HealthAssumption DEF Losers, Loss, IInv, TablesOK
<1> HIDE DEF losers
<1>3. handler[h] \in [at : {"record", "resolve", "give"}, gap : Gaps, todo : SUBSET Loss]
  BY <1>1 DEF IInv, HandlersOK, Idle
<1>4. HandlersOK'
  BY <1>1, <1>2, <1>3 DEF IInv, HandlersOK
<1>5. /\ Busy(h) /\ Busy(h)' /\ handler'[h].gap = handler[h].gap /\ handler'[h].todo = losers
      /\ handler'[h].at = "give"
      /\ \A g \in Handlers \ {h} : handler'[g] = handler[g]
  BY <1>1, <1>3 DEF IInv, HandlersOK, Busy
<1>6. TablesOK'
  BY <1>1 DEF IInv, TablesOK
<1>7. CheckInsOK' /\ OutagesOver' /\ InOrder'
  BY <1>1, <1>2, <1>4, <1>5, BusyStays
<1>8. GivenOK'
  <2>1. ASSUME NEW c \in Customers PROVE Done(c) \subseteq Done(c)'
    <3>1. \A g \in Handlers : handler[g].at = "give" => handler'[g] = handler[g]
      BY <1>1, <1>5
    <3>2. outages' = outages /\ torn' = torn
      BY <1>1
    <3>3. QED
      BY <3>1, <3>2 DEF Done
  <2>2. QED
    BY <1>1, <1>6, <1>7, <2>1, GivenKept
<1>9. QED
  BY <1>4, <1>6, <1>7, <1>8 DEF IInv

LEMMA GiveStep ==
  ASSUME IInv, NEW h \in Handlers, NEW l \in handler[h].todo, Give(h, l)
  PROVE  IInv'
<1> DEFINE gap == handler[h].gap
<1>1. handler[h] \in [at : {"record", "resolve", "give"}, gap : Gaps, todo : SUBSET Loss]
  BY DEF IInv, HandlersOK, Idle
<1>2. /\ l \in Loss /\ l.who \in Customers /\ l.expiry \in Nat /\ l.expiry > gap.start
      /\ handler[h].at = "give" /\ \A k \in handler[h].todo : k.who = l.who => k = l
  BY <1>1 DEF Loss, IInv, CheckInsOK
<1>3. /\ handler' = [handler EXCEPT ![h].todo = @ \ {l}]
      /\ UNCHANGED <<lastSeen, lastStatus, open, outages, watch, now, torn>>
  BY DEF Give, Row, Rest
<1>4. HandlersOK'
  BY <1>1, <1>3 DEF IInv, HandlersOK
<1>5. /\ handler'[h].at = handler[h].at /\ handler'[h].gap = gap
      /\ handler'[h].todo = handler[h].todo \ {l}
      /\ \A g \in Handlers \ {h} : handler'[g] = handler[g]
  BY <1>1, <1>3 DEF IInv, HandlersOK
<1>6. CheckInsOK' /\ OutagesOver' /\ InOrder'
  <2>1. CheckInsOK'
    BY <1>3, <1>5 DEF IInv, CheckInsOK, Busy
  <2>2. OutagesOver'
    BY <1>3 DEF IInv, OutagesOver
  <2>3. InOrder'
    BY <1>3, <1>5 DEF IInv, InOrder, Busy
  <2>5. QED
    BY <2>1, <2>2, <2>3
<1>7. TablesOK'
  <2>1. CASE ~Untouched(l.who, l.expiry)
    BY <1>3, <2>1 DEF Give, IInv, TablesOK, People
  <2>2. CASE Untouched(l.who, l.expiry)
    <3>1. gap.start \in Nat \cup {Never} /\ gap.end \in Nat /\ gap.start <= gap.end
      BY <1>1 DEF Gaps, IInv, CheckInsOK, Busy, Outage
    <3>2. Lost(l.expiry, gap) \in Nat /\ Extended(l.expiry, gap) \in Nat
      <4>1. LesserOf(gap.end - gap.start, Cap) \in Nat
        BY <3>1, HealthAssumption DEF LesserOf, Never
      <4>2. Lost(l.expiry, gap) \in Nat
        BY <1>2, <3>1, <4>1 DEF Lost, LesserOf, Never
      <4>3. QED
        BY <1>2, <3>1, <4>2 DEF Extended
    <3>3. /\ until' = [until EXCEPT ![l.who] = Extended(l.expiry, gap)]
          /\ status' = [status EXCEPT ![l.who] = "active"]
          /\ given' = [given EXCEPT ![l.who] = @ + Lost(l.expiry, gap)]
      BY <2>2 DEF Give
    <3>4. QED
      BY <1>2, <1>3, <3>2, <3>3 DEF IInv, TablesOK
  <2>3. QED
    BY <2>1, <2>2
<1>8. \A c \in Customers : Done(c) \subseteq Done(c)'
  BY <1>3, <1>5 DEF Done
<1>9. GivenOK'
  <2>1. CASE ~Untouched(l.who, l.expiry)
    <3>1. given' = given
      BY <2>1 DEF Give, People
    <3>2. QED
      BY <1>6, <1>7, <1>8, <3>1, GivenKept
  <2>2. CASE Untouched(l.who, l.expiry)
    <3>1. given' = [given EXCEPT ![l.who] = @ + Lost(l.expiry, gap)] /\ given \in [Customers -> Nat]
      BY <2>2 DEF Give, IInv, TablesOK
    <3>2. now \in Nat /\ Outage(gap) /\ gap.end <= now
      BY <1>2 DEF IInv, CheckInsOK, TablesOK, Busy, Outage, Gaps, Never
    <3>3. ASSUME NEW c \in Customers
          PROVE  /\ \A g \in Done(c) : Outage(g) /\ g.end <= now
                 /\ \A g \in Done(c)' : Outage(g) /\ g.end <= now
      <4>1. \A g \in Done(c) : Outage(g) /\ g.end <= now
        BY DEF Done, IInv, OutagesOver, CheckInsOK, TablesOK, Busy, Outage, Gaps, Never
      <4>2. \A g \in Done(c)' : g \in Done(c) \/ g = gap
        BY <1>3, <1>5 DEF Done
      <4>3. QED
        BY <3>2, <4>1, <4>2
    <3>4. ASSUME NEW c \in Customers PROVE given'[c] <= Cardinality(Spans(Done(c)'))
      <4>1. CASE c # l.who
        <5>1. given'[c] = given[c] /\ given[c] \in Nat /\ given[c] <= Cardinality(Spans(Done(c)))
          BY <3>1, <4>1 DEF IInv, GivenOK
        <5>2. /\ Cardinality(Spans(Done(c))) <= Cardinality(Spans(Done(c)'))
              /\ Cardinality(Spans(Done(c))) \in Nat /\ Cardinality(Spans(Done(c)')) \in Nat
          BY <1>8, <3>2, <3>3, SpansGrow
        <5>3. QED
          BY <5>1, <5>2
      <4>2. CASE c = l.who
        <5>1. given'[c] = given[c] + Lost(l.expiry, gap) /\ given[c] \in Nat
              /\ given[c] <= Cardinality(Spans(Done(c)))
          BY <3>1, <4>2 DEF IInv, GivenOK
        <5>2. Done(c)' = Done(c) \cup {gap}
          BY <1>2, <1>3, <1>5, <4>2 DEF Done
        <5>3. \A g \in Done(c) : Before(g, gap) \/ Before(gap, g)
          BY <1>2, <4>2 DEF Done, IInv, InOrder, Busy
        <5>4. Cardinality(Spans(Done(c) \cup {gap})) = Cardinality(Spans(Done(c))) + Cardinality(Span(gap))
          BY <3>2, <3>3, <5>3, SpansAdd
        <5>5. Cardinality(Spans(Done(c))) \in Nat
          BY <3>2, <3>3, SpansFinite
        <5>6. Cardinality(Span(gap)) = LesserOf(gap.end, gap.start + Cap) - gap.start
          BY <3>2, SpanSize
        <5>7. Lost(l.expiry, gap) <= LesserOf(gap.end, gap.start + Cap) - gap.start
              /\ Lost(l.expiry, gap) \in Int /\ LesserOf(gap.end, gap.start + Cap) - gap.start \in Int
          BY <1>2, <3>2, HealthAssumption DEF Lost, LesserOf, Outage, Gaps
        <5>8. QED
          BY <5>1, <5>2, <5>4, <5>5, <5>6, <5>7
      <4>3. QED
        BY <4>1, <4>2
    <3>5. QED
      BY <3>4 DEF GivenOK
  <2>3. QED
    BY <2>1, <2>2
<1>10. QED
  BY <1>4, <1>6, <1>7, <1>9 DEF IInv

LEMMA SettleStep ==
  ASSUME IInv, NEW h \in Handlers, Settle(h)
  PROVE  IInv'
<1> DEFINE gap == handler[h].gap
<1>1. /\ Busy(h) /\ handler' = [handler EXCEPT ![h] = Idle] /\ outages' = outages \cup {gap}
      /\ UNCHANGED <<lastSeen, lastStatus, open, until, status, given, watch, now, torn>>
  BY DEF Settle, Row, People, Rest, Busy
<1>2. HandlersOK' /\ TablesOK'
  BY <1>1 DEF IInv, HandlersOK, TablesOK
<1>3. /\ handler'[h] = Idle /\ ~Busy(h)' /\ \A g \in Handlers \ {h} : handler'[g] = handler[g]
  BY <1>1 DEF IInv, HandlersOK, Busy, Idle
<1>4. CheckInsOK'
  BY <1>1, <1>3 DEF IInv, CheckInsOK, Busy, Idle
<1>5. OutagesOver'
  BY <1>1 DEF IInv, OutagesOver, CheckInsOK
<1>6. InOrder'
  BY <1>1, <1>3 DEF IInv, InOrder, Busy
<1>8. GivenOK'
  <2>1. \A c \in Customers : Done(c) \subseteq Done(c)'
    BY <1>1, <1>3 DEF Done
  <2>2. QED
    BY <1>1, <1>2, <1>4, <1>5, <2>1, GivenKept
<1>9. QED
  BY <1>2, <1>4, <1>5, <1>6, <1>8 DEF IInv

LEMMA CrashStep ==
  ASSUME IInv, Crash
  PROVE  IInv'
<1>1. /\ handler' = [h \in Handlers |-> Idle] /\ watch' = Asleep
      /\ torn' = torn \cup {handler[h].gap : h \in {g \in Handlers : Busy(g)}}
      /\ UNCHANGED <<lastSeen, lastStatus, open, until, status, given, outages, now>>
  BY DEF Crash, Row, People, Busy
<1>2. HandlersOK' /\ TablesOK'
  BY <1>1 DEF IInv, HandlersOK, TablesOK, Asleep, Never
<1>3. \A h \in Handlers : handler'[h] = Idle /\ ~Busy(h)'
  BY <1>1 DEF Busy, Idle
<1>4. CheckInsOK'
  BY <1>3 DEF CheckInsOK, Idle
<1>5. OutagesOver'
  BY <1>1 DEF IInv, OutagesOver, CheckInsOK
<1>6. InOrder'
  BY <1>1, <1>3 DEF IInv, InOrder
<1>8. GivenOK'
  <2>1. \A c \in Customers : Done(c) \subseteq Done(c)'
    BY <1>1 DEF Done, Busy
  <2>2. QED
    BY <1>1, <1>2, <1>4, <1>5, <2>1, GivenKept
<1>9. QED
  BY <1>2, <1>4, <1>5, <1>6, <1>8 DEF IInv

LEMMA TickStep ==
  ASSUME IInv, Tick
  PROVE  IInv'
<1>1. /\ now' = now + 1 /\ now < MaxTime /\ \A h \in Handlers : handler[h].at # "record"
      /\ UNCHANGED <<lastSeen, lastStatus, open, until, status, given, outages, handler, watch, torn>>
  BY DEF Tick, Row, People
<1>2. HandlersOK' /\ TablesOK'
  BY <1>1, HealthAssumption DEF IInv, HandlersOK, TablesOK, Never
<1>3. CheckInsOK'
  BY <1>1 DEF IInv, CheckInsOK, Busy
<1>4. OutagesOver'
  BY <1>1 DEF IInv, OutagesOver
<1>5. InOrder'
  BY <1>1 DEF IInv, InOrder, Busy
<1>7. GivenOK'
  <2>1. \A c \in Customers : Done(c)' = Done(c)
    BY <1>1 DEF Done
  <2>2. QED
    BY <1>1, <1>2, <1>3, <1>4, <2>1, GivenKept
<1>8. QED
  BY <1>2, <1>3, <1>4, <1>5, <1>7 DEF IInv

-----------------------------------------------------------------------------
LEMMA InitInv == Init => IInv
<1> SUFFICES ASSUME Init PROVE IInv
  OBVIOUS
<1>1. TablesOK
  BY HealthAssumption DEF Init, TablesOK, Asleep, Never
<1>2. \A h \in Handlers : handler[h] = Idle /\ ~Busy(h)
  BY DEF Init, Busy, Idle
<1>3. HandlersOK /\ CheckInsOK
  BY <1>2 DEF Init, HandlersOK, CheckInsOK, Idle
<1>4. OutagesOver /\ InOrder
  BY <1>2 DEF Init, OutagesOver, InOrder
<1>5. GivenOK
  <2>1. \A c \in Customers : Done(c) = {}
    BY <1>2 DEF Init, Done, Idle
  <2>2. Spans({}) = {} /\ Cardinality({}) = 0
    BY FS_EmptySet DEF Spans
  <2>3. QED
    BY <2>1, <2>2 DEF Init, GivenOK
<1>6. QED
  BY <1>1, <1>3, <1>4, <1>5 DEF IInv

LEMMA NextInv == IInv /\ [Next]_vars => IInv'
<1> SUFFICES ASSUME IInv, [Next]_vars PROVE IInv'
  OBVIOUS
<1>1. CASE UNCHANGED vars
  <2>1. TablesOK' /\ HandlersOK'
    BY <1>1 DEF vars, IInv, TablesOK, HandlersOK
  <2>2. CheckInsOK' /\ OutagesOver' /\ InOrder'
    BY <1>1, OutagesKept DEF vars, IInv
  <2>3. given' = given /\ \A c \in Customers : Done(c)' = Done(c)
    BY <1>1 DEF vars, Done
  <2>4. QED
    BY <2>1, <2>2, <2>3, GivenKept DEF IInv
<1>2. ASSUME NEW h \in Handlers, CheckIn(h) \/ Work(h) PROVE IInv'
  BY <1>2, CheckInStep, RecordStep, ResolveStep, GiveStep, SettleStep DEF Work
<1>3. QED
  BY <1>1, <1>2, AsideStep, CrashStep, TickStep DEF Next

LEMMA Inductive == Spec => []IInv
  BY InitInv, NextInv, PTL DEF Spec

\* The zone's row, the customers and the check-ins always have values the
\* code writes.
THEOREM TypesHold == Spec => []TypeOK
<1>1. IInv => TypeOK
  <2> SUFFICES ASSUME IInv PROVE TypeOK
    OBVIOUS
  <2>1. \A g \in outages \cup torn : g.start \in 0..MaxTime /\ g.end \in 0..MaxTime
    BY HealthAssumption DEF IInv, OutagesOver, Outage, Gaps, TablesOK, Never
  <2>2. \A h \in Handlers : handler[h].at \in {"idle", "record", "resolve", "give"}
    BY DEF IInv, HandlersOK, Idle
  <2>3. QED
    BY <2>1, <2>2, HealthAssumption DEF IInv, TablesOK, TypeOK, Never
<1>2. QED
  BY <1>1, Inductive, PTL

\* However many check-ins arrive at once, one silence is compensated by one
\* of them (RecordRouterCheckIn).
THEOREM OutagesOnce == Spec => []OutagesApart
<1>1. IInv => OutagesApart
  <2> SUFFICES ASSUME IInv PROVE OutagesApart
    OBVIOUS
  <2>1. \A a \in outages \cup Compensating : Outage(a)
    BY DEF IInv, OutagesOver, CheckInsOK, Compensating, Busy
  <2>2. \A a, b : Outage(a) /\ Outage(b) /\ (Before(a, b) \/ Before(b, a)) => a # b
    BY DEF Outage, Before, Gaps, Never
  <2>3. \A a, b \in outages \cup Compensating : a = b \/ a.end <= b.start \/ b.end <= a.start
    BY DEF IInv, InOrder, Compensating, Busy, Before
  <2>4. \A g, h \in Handlers : g # h /\ Busy(g) /\ Busy(h) => handler[g].gap # handler[h].gap
    BY <2>2 DEF IInv, InOrder, CheckInsOK
  <2>5. outages \cap Compensating = {}
    BY <2>1, <2>2 DEF IInv, InOrder, Compensating, Busy
  <2>6. QED
    BY <2>3, <2>4, <2>5 DEF OutagesApart, Busy
<1>2. QED
  BY <1>1, Inductive, PTL

\* However check-ins, renewals and crashes overlap, a customer is given back at
\* most the time the outages took, the cap counted for each (CompensateOutage).
THEOREM NotOverpaid == Spec => []NeverMoreThanLost
<1>1. IInv => NeverMoreThanLost
  <2> SUFFICES ASSUME IInv, NEW c \in Customers
               PROVE  given[c] <= Cardinality(Spans(outages \cup Compensating \cup torn))
    BY DEF NeverMoreThanLost, Spans, Span
  <2> DEFINE All == outages \cup Compensating \cup torn
  <2>1. Done(c) \subseteq All
    BY DEF Done, Compensating
  <2>2. now \in Nat /\ \A g \in All : Outage(g) /\ g.end <= now
    BY DEF IInv, OutagesOver, CheckInsOK, TablesOK, Compensating, Busy, Outage, Gaps, Never
  <2> HIDE DEF All
  <2>3. /\ Cardinality(Spans(Done(c))) <= Cardinality(Spans(All))
        /\ Cardinality(Spans(Done(c))) \in Nat /\ Cardinality(Spans(All)) \in Nat
    BY <2>1, <2>2, SpansGrow
  <2>4. given[c] \in Nat /\ given[c] <= Cardinality(Spans(Done(c)))
    BY DEF IInv, TablesOK, GivenOK
  <2>5. QED
    BY <2>3, <2>4 DEF All
<1>2. QED
  BY <1>1, Inductive, PTL
-----------------------------------------------------------------------------
(* OpsAlerts: that two texts about a router that is down are apart.  What the *)
(* summary tells was held in the night, and a night is long enough for the    *)
(* last text of the day before to be old.  Clocks, crashes and the zones a    *)
(* crash left half told are named apart from those of RouterHealth.           *)
CONSTANTS Zones, Day, NightStart, NightEnd, FlapWindow, SummaryAge, StaleOutage, MaxRestarts
VARIABLES hour, router, enabled, state, held, sweep, restarts, told, textAge, halfTold

Alerts == INSTANCE OpsAlerts WITH MaxCrashes <- MaxRestarts, crashes <- restarts, torn <- halfTold

Known == {"none", "online", "offline"}
Sight == [is : {"up", "down", "gone"}, age : Nat]
ZoneState == [status : Known, sms : Known, since : Nat, lastText : 0..FlapWindow]
SweepRow == [at : {"idle", "changes", "note", "summary", "mark", "texts", "remember"},
             todo : SUBSET Zones, order : SUBSET Zones, on : BOOLEAN, quiet : BOOLEAN,
             seen : [Zones -> Sight]]

AlertTypes ==
  /\ hour \in 0..(Day - 1) /\ enabled \in BOOLEAN
  /\ router \in [Zones -> Sight] /\ state \in [Zones -> ZoneState]
  /\ held \in [Zones -> SUBSET Nat] /\ sweep \in SweepRow
  /\ textAge \in [Zones -> 0..FlapWindow] /\ halfTold \in [Zones -> BOOLEAN]

\* A sweep sends only by day, and the summary only while texts are on.
SweepOK ==
  /\ sweep.at # "idle" => sweep.quiet = Alerts!Quiet
  /\ sweep.at \in {"summary", "mark", "texts", "remember"} => ~sweep.quiet
  /\ sweep.at \in {"summary", "mark", "remember"} => sweep.on
  /\ sweep.at = "note" => \A z \in sweep.order : state[z].status # "none"

\* How long the night has lasted.
IntoNight == IF hour >= NightStart THEN hour - NightStart + 1 ELSE Day - NightStart + hour + 1

\* Nothing is texted in the night.
NightOK == Alerts!Quiet => \A z \in Zones : textAge[z] >= FlapWindow \/ textAge[z] >= IntoNight

\* By day, what was held has nothing younger sent after it, and it is forgotten
\* before the sweep texts on.
HeldOK == \A z \in Zones :
  /\ ~Alerts!Quiet /\ held[z] # {} =>
       textAge[z] >= FlapWindow \/ halfTold[z] \/ (sweep.at = "mark" /\ z \in sweep.order)
  /\ sweep.at = "mark" /\ z \notin sweep.order => held[z] = {}
  /\ sweep.at = "remember" \/ (sweep.at = "texts" /\ sweep.on) => held[z] = {}

Sending(z) == sweep.at \in {"mark", "remember"} /\ z \in sweep.order

\* The date the state keeps of the last text is no older than the text, but for
\* a text that has just gone out.
DatesOK == \A z \in Zones :
  /\ state[z].status = "none" => textAge[z] = FlapWindow
  /\ \/ state[z].lastText <= textAge[z]
     \/ halfTold[z]
     \/ Sending(z) /\ state[z].status = "offline"

AlertsInv == Alerts!AlertsAssumption /\ AlertTypes /\ SweepOK /\ NightOK /\ HeldOK /\ DatesOK

\* What a sweep does but for its texts: it goes to a stage that is not a text's,
\* and holds nothing more by day.
LEMMA StageStep ==
  ASSUME AlertsInv, sweep' \in SweepRow, held' \in [Zones -> SUBSET Nat],
         sweep'.at # "idle" => sweep'.on = sweep.on /\ sweep'.quiet = sweep.quiet /\ sweep.at # "idle",
         UNCHANGED <<hour, router, enabled, state, textAge, halfTold>>,
         \A z \in Zones : ~Alerts!Quiet => held'[z] \subseteq held[z],
         sweep'.at \in {"idle", "changes", "note", "summary", "texts"},
         sweep'.at \in {"summary", "texts"} => ~sweep.quiet,
         sweep'.at = "summary" => sweep.on,
         sweep'.at = "note" => \A z \in sweep'.order : state[z].status # "none",
         \A z \in Zones : ~Sending(z),
         sweep'.at = "texts" /\ sweep.on => \A z \in Zones : held'[z] = {}
  PROVE  AlertsInv'
<1>1. AlertTypes' /\ Alerts!AlertsAssumption'
  BY DEF AlertsInv, AlertTypes
<1>2. SweepOK'
  BY DEF AlertsInv, SweepOK, Alerts!Quiet
<1>3. NightOK'
  BY DEF AlertsInv, NightOK, Alerts!Quiet, IntoNight
<1>4. HeldOK'
  BY DEF AlertsInv, HeldOK, Alerts!Quiet, Sending
<1>5. DatesOK'
  BY DEF AlertsInv, DatesOK, Sending
<1>6. QED
  BY <1>1, <1>2, <1>3, <1>4, <1>5 DEF AlertsInv

LEMMA AlertsValues ==
  ASSUME AlertsInv
  PROVE  /\ Alerts!Resting \in SweepRow /\ Alerts!Resting.at = "idle"
         /\ Alerts!Unknown \in ZoneState /\ Alerts!Unknown.lastText = FlapWindow
         /\ FlapWindow \in Nat \ {0} /\ Day \in Nat \ {0}
         /\ NightStart \in 0..(Day - 1) /\ NightEnd \in 0..NightStart
         /\ FlapWindow <= Day - NightStart + NightEnd
<1>1. FlapWindow \in 0..FlapWindow /\ 0 \in Nat
  BY DEF AlertsInv, Alerts!AlertsAssumption
<1>2. [z \in Zones |-> [is |-> "gone", age |-> 0]] \in [Zones -> Sight]
  BY <1>1 DEF Sight
<1>3. QED
  BY <1>1, <1>2 DEF AlertsInv, Alerts!AlertsAssumption, Alerts!Resting, Alerts!Unknown, SweepRow,
                    ZoneState, Known

\* The sweep begins, ends, or takes its next step, and writes no state.
LEMMA PlainSweepStep ==
  ASSUME AlertsInv,
         \/ Alerts!Load \/ Alerts!EndChanges \/ Alerts!EndTexts
         \/ \E z \in Zones : Alerts!NoChange(z) \/ Alerts!Note(z)
  PROVE  AlertsInv'
<1>0. sweep \in SweepRow /\ held \in [Zones -> SUBSET Nat] /\ router \in [Zones -> Sight]
      /\ enabled \in BOOLEAN
  BY DEF AlertsInv, AlertTypes
<1>1. CASE Alerts!Load
  <2>1. /\ sweep' = [at |-> "changes", todo |-> {z \in Zones : router[z].is # "gone"}, order |-> {},
                     on |-> enabled, quiet |-> Alerts!Quiet, seen |-> router]
        /\ UNCHANGED <<hour, router, enabled, restarts, state, held, told, textAge, halfTold>>
        /\ sweep.at = "idle"
    BY <1>1 DEF Alerts!Load, Alerts!World
  <2>2. Alerts!Quiet \in BOOLEAN
    BY DEF Alerts!Quiet
  <2>3. sweep' \in SweepRow /\ sweep'.at = "changes" /\ sweep'.quiet = Alerts!Quiet
    BY <1>0, <2>1, <2>2 DEF SweepRow
  <2>4. AlertTypes' /\ Alerts!AlertsAssumption'
    BY <2>1, <2>3 DEF AlertsInv, AlertTypes
  <2>5. SweepOK' /\ NightOK'
    BY <2>1, <2>3 DEF AlertsInv, SweepOK, NightOK, IntoNight, Alerts!Quiet
  <2>6. HeldOK' /\ DatesOK'
    BY <2>1, <2>3 DEF AlertsInv, HeldOK, DatesOK, Sending, Alerts!Quiet
  <2>7. QED
    BY <2>4, <2>5, <2>6 DEF AlertsInv
<1>2. CASE Alerts!EndChanges
  <2>1. /\ UNCHANGED <<hour, router, enabled, restarts, state, held, told, textAge, halfTold>>
        /\ sweep.at = "changes"
        /\ \/ sweep.quiet /\ sweep' = Alerts!Resting
           \/ ~sweep.quiet /\ sweep.on /\ sweep' = [sweep EXCEPT !.at = "summary", !.todo = Alerts!Live]
           \/ ~sweep.quiet /\ ~sweep.on /\ sweep' = [sweep EXCEPT !.at = "texts", !.todo = Alerts!Live]
    BY <1>2 DEF Alerts!EndChanges, Alerts!World
  <2>2. Alerts!Live \in SUBSET Zones
    BY DEF Alerts!Live
  <2>3. /\ sweep' \in SweepRow
        /\ \/ sweep'.at = "idle"
           \/ /\ sweep'.at = "summary" /\ sweep.on /\ ~sweep.quiet
              /\ sweep'.on = sweep.on /\ sweep'.quiet = sweep.quiet
           \/ /\ sweep'.at = "texts" /\ ~sweep.on /\ ~sweep.quiet
              /\ sweep'.on = sweep.on /\ sweep'.quiet = sweep.quiet
    BY <1>0, <2>1, <2>2, AlertsValues DEF SweepRow
  <2>4. \A z \in Zones : ~Sending(z)
    BY <2>1 DEF Sending
  <2>5. QED
    BY <1>0, <2>1, <2>3, <2>4, StageStep
<1>3. CASE Alerts!EndTexts
  <2>1. /\ UNCHANGED <<hour, router, enabled, restarts, state, held, told, textAge, halfTold>>
        /\ sweep.at = "texts" /\ sweep' = Alerts!Resting
    BY <1>3 DEF Alerts!EndTexts, Alerts!World
  <2>2. sweep' \in SweepRow /\ sweep'.at = "idle" /\ \A z \in Zones : ~Sending(z)
    BY <2>1, AlertsValues DEF Sending
  <2>3. QED
    BY <1>0, <2>1, <2>2, StageStep
<1>4. ASSUME NEW z \in Zones, Alerts!NoChange(z) PROVE AlertsInv'
  <2>1. /\ UNCHANGED <<hour, router, enabled, restarts, state, held, told, textAge, halfTold>>
        /\ sweep.at = "changes" /\ sweep' = [sweep EXCEPT !.todo = sweep.todo \ {z}]
    BY <1>4 DEF Alerts!NoChange, Alerts!World
  <2>2. /\ sweep' \in SweepRow /\ sweep'.at = "changes" /\ sweep'.on = sweep.on
        /\ sweep'.quiet = sweep.quiet
    BY <1>0, <2>1 DEF SweepRow
  <2>3. \A y \in Zones : ~Sending(y)
    BY <2>1 DEF Sending
  <2>4. QED
    BY <1>0, <2>1, <2>2, <2>3, StageStep
<1>5. ASSUME NEW z \in Zones, Alerts!Note(z) PROVE AlertsInv'
  <2>1. /\ UNCHANGED <<hour, router, enabled, restarts, state, told, textAge, halfTold>>
        /\ sweep.at = "note"
        /\ sweep' = [sweep EXCEPT !.at = "changes", !.todo = sweep.todo \ {z}, !.order = {}]
        /\ held' = [held EXCEPT ![z] = IF sweep.on /\ sweep.quiet THEN held[z] \cup {0} ELSE held[z]]
    BY <1>5 DEF Alerts!Note, Alerts!World
  <2>2. /\ sweep' \in SweepRow /\ sweep'.at = "changes" /\ sweep'.on = sweep.on
        /\ sweep'.quiet = sweep.quiet
    BY <1>0, <2>1 DEF SweepRow
  <2>3. held' \in [Zones -> SUBSET Nat]
    BY <1>0, <2>1
  <2>4. sweep.quiet = Alerts!Quiet
    BY <2>1 DEF AlertsInv, SweepOK
  <2>5. \A y \in Zones : ~Alerts!Quiet => held'[y] \subseteq held[y]
    BY <1>0, <2>1, <2>4
  <2>6. \A y \in Zones : ~Sending(y)
    BY <2>1 DEF Sending
  <2>7. QED
    BY <1>0, <2>1, <2>2, <2>3, <2>5, <2>6, StageStep
<1>6. QED
  BY <1>1, <1>2, <1>3, <1>4, <1>5

\* A zone's state is remembered or changed: its dates stay.
LEMMA ChangeStep ==
  ASSUME AlertsInv, NEW z \in Zones, Alerts!FirstSight(z) \/ Alerts!Claim(z)
  PROVE  AlertsInv'
<1>0. sweep \in SweepRow /\ sweep.seen[z] \in Sight /\ state[z] \in ZoneState
      /\ state \in [Zones -> ZoneState]
  BY DEF AlertsInv, AlertTypes, SweepRow
<1>1. /\ UNCHANGED <<hour, router, enabled, held, textAge, halfTold>>
      /\ sweep.at = "changes"
      /\ \/ state[z].status = "none" /\ state' = [state EXCEPT ![z] = Alerts!Met(z)]
            /\ sweep' = [sweep EXCEPT !.todo = sweep.todo \ {z}]
         \/ state[z].status # "none" /\ state' = [state EXCEPT ![z] = Alerts!Claimed(z)]
            /\ sweep' = [sweep EXCEPT !.at = "note", !.order = {z}]
  BY DEF Alerts!FirstSight, Alerts!Claim, Alerts!World
<1>2. /\ Alerts!Cur(z) \in Known /\ Alerts!Cur(z) # "none"
      /\ sweep.seen[z].age \in Nat
  BY <1>0 DEF Alerts!Cur, Known, Sight
<1>3. /\ Alerts!Met(z) \in ZoneState /\ Alerts!Met(z).status # "none"
      /\ Alerts!Met(z).lastText = FlapWindow
  BY <1>2, AlertsValues DEF Alerts!Met, ZoneState
<1>4. /\ Alerts!Claimed(z) \in ZoneState /\ Alerts!Claimed(z).status # "none"
      /\ Alerts!Claimed(z).lastText = state[z].lastText
  BY <1>0, <1>2 DEF Alerts!Claimed, ZoneState
<1>5. /\ state' \in [Zones -> ZoneState] /\ state'[z].status # "none"
      /\ \A y \in Zones \ {z} : state'[y] = state[y]
      /\ \/ state[z].status = "none" /\ state'[z].lastText = FlapWindow
         \/ state'[z].lastText = state[z].lastText
  BY <1>0, <1>1, <1>3, <1>4
<1>6. /\ sweep' \in SweepRow /\ sweep'.at \in {"changes", "note"} /\ sweep'.on = sweep.on
      /\ sweep'.quiet = sweep.quiet /\ (sweep'.at = "note" => sweep'.order = {z})
  <2>1. CASE sweep' = [sweep EXCEPT !.todo = sweep.todo \ {z}]
    BY <1>0, <1>1, <2>1 DEF SweepRow
  <2>2. CASE sweep' = [sweep EXCEPT !.at = "note", !.order = {z}]
    <3>1. {z} \in SUBSET Zones
      OBVIOUS
    <3>2. QED
      BY <1>0, <2>2, <3>1 DEF SweepRow
  <2>3. QED
    BY <1>1, <2>1, <2>2
<1>7. AlertTypes' /\ Alerts!AlertsAssumption'
  BY <1>1, <1>5, <1>6 DEF AlertsInv, AlertTypes
<1>8. SweepOK' /\ NightOK'
  BY <1>1, <1>5, <1>6 DEF AlertsInv, SweepOK, NightOK, IntoNight, Alerts!Quiet
<1>9. HeldOK'
  BY <1>1, <1>6 DEF AlertsInv, HeldOK, Alerts!Quiet
<1>10. DatesOK'
  <2> SUFFICES ASSUME NEW y \in Zones
               PROVE  /\ state'[y].status = "none" => textAge[y] = FlapWindow
                      /\ state'[y].lastText <= textAge[y] \/ halfTold[y]
    BY <1>1 DEF DatesOK
  <2>1. /\ state[y].status = "none" => textAge[y] = FlapWindow
        /\ state[y].lastText <= textAge[y] \/ halfTold[y]
        /\ FlapWindow \in Nat
    BY <1>1, AlertsValues DEF AlertsInv, DatesOK, Sending
  <2>2. QED
    BY <1>5, <2>1
<1>11. QED
  BY <1>7, <1>8, <1>9, <1>10 DEF AlertsInv

\* Passing over a zone changes what the state says the owner knows, no date.
LEMMA PassStep ==
  ASSUME AlertsInv, NEW z \in Zones, Alerts!Pass(z)
  PROVE  AlertsInv'
<1>0. sweep \in SweepRow /\ state \in [Zones -> ZoneState] /\ state[z] \in ZoneState
  BY DEF AlertsInv, AlertTypes
<1>1. /\ UNCHANGED <<hour, router, enabled, held, textAge, halfTold>> /\ sweep.at = "texts"
      /\ sweep' = [sweep EXCEPT !.todo = sweep.todo \ {z}]
      /\ state' = state \/ state' = [state EXCEPT ![z].sms = state[z].status]
  BY DEF Alerts!Pass, Alerts!World
<1>2. /\ sweep' \in SweepRow /\ sweep'.at = "texts" /\ sweep'.on = sweep.on /\ sweep'.quiet = sweep.quiet
  BY <1>0, <1>1 DEF SweepRow
<1>3. /\ state' \in [Zones -> ZoneState]
      /\ \A y \in Zones : state'[y].status = state[y].status /\ state'[y].lastText = state[y].lastText
  BY <1>0, <1>1 DEF ZoneState
<1>4. AlertTypes' /\ Alerts!AlertsAssumption'
  BY <1>1, <1>2, <1>3 DEF AlertsInv, AlertTypes
<1>5. SweepOK' /\ NightOK'
  BY <1>1, <1>2 DEF AlertsInv, SweepOK, NightOK, IntoNight, Alerts!Quiet
<1>6. HeldOK' /\ DatesOK'
  BY <1>1, <1>2, <1>3 DEF AlertsInv, HeldOK, DatesOK, Sending, Alerts!Quiet
<1>7. QED
  BY <1>4, <1>5, <1>6 DEF AlertsInv

\* What a message does to the age of the last "down" text.
LEMMA Sends ==
  ASSUME AlertsInv, NEW ws \in SUBSET Zones, Alerts!Send(ws)
  PROVE  /\ textAge' \in [Zones -> 0..FlapWindow]
         /\ \A z \in Zones : \/ textAge'[z] = textAge[z]
                             \/ z \in ws /\ state[z].status = "offline" /\ textAge'[z] = 0
         /\ \A z \in ws : told'[z] = "offline" => state[z].status = "offline"
<1>1. PICK sent \in BOOLEAN :
        /\ told' = [z \in Zones |-> IF z \notin ws THEN told[z]
                                    ELSE IF sent THEN state[z].status ELSE "failed"]
        /\ textAge' = [z \in Zones |->
             IF z \in ws /\ sent /\ state[z].status = "offline" THEN 0 ELSE textAge[z]]
  BY DEF Alerts!Send
<1>2. textAge \in [Zones -> 0..FlapWindow] /\ 0 \in 0..FlapWindow
  BY AlertsValues DEF AlertsInv, AlertTypes
<1>3. textAge' \in [Zones -> 0..FlapWindow]
  BY <1>1, <1>2
<1>4. \A z \in ws : z \in Zones
  OBVIOUS
<1>5. QED
  BY <1>1, <1>3, <1>4

LEMMA SummaryStep ==
  ASSUME AlertsInv, Alerts!Summary
  PROVE  AlertsInv'
<1> DEFINE order == {z \in Alerts!Live : held[z] # {}}
<1>0. sweep \in SweepRow /\ held \in [Zones -> SUBSET Nat] /\ Alerts!Live \subseteq Zones
  BY DEF AlertsInv, AlertTypes, Alerts!Live
<1>1. /\ UNCHANGED <<hour, router, enabled, state, halfTold>> /\ sweep.at = "summary"
      /\ held' = [z \in Zones |-> IF z \in Alerts!Live THEN held[z] ELSE {}]
      /\ sweep' = [sweep EXCEPT !.at = IF order = {} THEN "texts" ELSE "mark", !.order = order]
      /\ IF order = {} THEN UNCHANGED <<told, textAge>> ELSE Alerts!Send(order)
  BY DEF Alerts!Summary, Alerts!World
<1>2. order \in SUBSET Zones
  BY <1>0
<1>3. \A z \in Zones : z \notin order => held'[z] = {}
  BY <1>0, <1>1
<1>4. held' \in [Zones -> SUBSET Nat] /\ \A z \in Zones : held'[z] \subseteq held[z]
  BY <1>0, <1>1
<1>5. /\ sweep' \in SweepRow /\ sweep'.on = sweep.on /\ sweep'.quiet = sweep.quiet
      /\ sweep'.order = order
      /\ \/ sweep'.at = "texts" /\ order = {}
         \/ sweep'.at = "mark" /\ order # {}
  <2> HIDE DEF order
  <2>1. QED
    BY <1>0, <1>1, <1>2 DEF SweepRow
<1>6. /\ sweep.on /\ ~sweep.quiet /\ sweep.quiet = Alerts!Quiet
  BY <1>1 DEF AlertsInv, SweepOK
<1>7. /\ textAge' \in [Zones -> 0..FlapWindow]
      /\ \A z \in Zones : \/ textAge'[z] = textAge[z]
                          \/ z \in order /\ state[z].status = "offline"
  <2> HIDE DEF order
  <2>1. CASE order = {}
    BY <1>1, <2>1 DEF AlertsInv, AlertTypes
  <2>2. CASE order # {}
    BY <1>1, <1>2, <2>2, Sends
  <2>3. QED
    BY <2>1, <2>2
<1> HIDE DEF order
<1>8. AlertTypes' /\ Alerts!AlertsAssumption'
  BY <1>1, <1>4, <1>5, <1>7 DEF AlertsInv, AlertTypes
<1>9. SweepOK' /\ NightOK'
  BY <1>1, <1>5, <1>6 DEF AlertsInv, SweepOK, NightOK, Alerts!Quiet
<1>10. HeldOK'
  BY <1>1, <1>3, <1>5 DEF HeldOK
<1>11. DatesOK'
  BY <1>1, <1>5, <1>7 DEF AlertsInv, DatesOK, Sending
<1>12. QED
  BY <1>8, <1>9, <1>10, <1>11 DEF AlertsInv

LEMMA MarkStep ==
  ASSUME AlertsInv, Alerts!MarkSummed
  PROVE  AlertsInv'
<1>0. sweep \in SweepRow /\ held \in [Zones -> SUBSET Nat]
  BY DEF AlertsInv, AlertTypes
<1>1. /\ UNCHANGED <<hour, router, enabled, state, textAge, halfTold>> /\ sweep.at = "mark"
      /\ held' = [z \in Zones |-> IF z \in sweep.order THEN {} ELSE held[z]]
      /\ sweep' = [sweep EXCEPT !.at = "remember"]
  BY DEF Alerts!MarkSummed, Alerts!World
<1>2. /\ sweep' \in SweepRow /\ sweep'.at = "remember" /\ sweep'.on = sweep.on
      /\ sweep'.quiet = sweep.quiet /\ sweep'.order = sweep.order
  BY <1>0, <1>1 DEF SweepRow
<1>3. held' \in [Zones -> SUBSET Nat] /\ \A z \in Zones : held'[z] = {}
  BY <1>0, <1>1 DEF AlertsInv, HeldOK
<1>4. AlertTypes' /\ Alerts!AlertsAssumption'
  BY <1>1, <1>2, <1>3 DEF AlertsInv, AlertTypes
<1>5. SweepOK' /\ NightOK'
  BY <1>1, <1>2 DEF AlertsInv, SweepOK, NightOK, IntoNight, Alerts!Quiet
<1>6. HeldOK' /\ DatesOK'
  BY <1>1, <1>2, <1>3 DEF AlertsInv, HeldOK, DatesOK, Sending
<1>7. QED
  BY <1>4, <1>5, <1>6 DEF AlertsInv

LEMMA TextStep ==
  ASSUME AlertsInv, NEW z \in Zones, Alerts!Text(z)
  PROVE  AlertsInv'
<1>0. sweep \in SweepRow
  BY DEF AlertsInv, AlertTypes
<1>1. /\ UNCHANGED <<hour, router, enabled, state, held, halfTold>> /\ sweep.at = "texts"
      /\ Alerts!Send({z}) /\ sweep.on
      /\ sweep' = [sweep EXCEPT !.at = "remember", !.order = {z}, !.todo = sweep.todo \ {z}]
  BY DEF Alerts!Text, Alerts!World, Alerts!TextDue, Alerts!DownDue, Alerts!BackDue
<1>2. /\ textAge' \in [Zones -> 0..FlapWindow]
      /\ \A y \in Zones : \/ textAge'[y] = textAge[y]
                          \/ y = z /\ state[y].status = "offline"
  <2>1. {z} \in SUBSET Zones
    OBVIOUS
  <2>2. QED
    BY <1>1, <2>1, Sends
<1>3. /\ sweep' \in SweepRow /\ sweep'.at = "remember" /\ sweep'.order = {z}
      /\ sweep'.on = sweep.on /\ sweep'.quiet = sweep.quiet
  <2>1. {z} \in SUBSET Zones /\ sweep.todo \ {z} \in SUBSET Zones
    BY <1>0 DEF SweepRow
  <2>2. QED
    BY <1>0, <1>1, <2>1 DEF SweepRow
<1>4. ~sweep.quiet /\ sweep.quiet = Alerts!Quiet /\ \A y \in Zones : held[y] = {}
  BY <1>1 DEF AlertsInv, SweepOK, HeldOK
<1>5. AlertTypes' /\ Alerts!AlertsAssumption'
  BY <1>1, <1>2, <1>3 DEF AlertsInv, AlertTypes
<1>6. SweepOK' /\ NightOK' /\ HeldOK'
  BY <1>1, <1>3, <1>4 DEF AlertsInv, SweepOK, NightOK, HeldOK, Alerts!Quiet
<1>7. DatesOK'
  BY <1>1, <1>2, <1>3 DEF AlertsInv, DatesOK, Sending
<1>8. QED
  BY <1>5, <1>6, <1>7 DEF AlertsInv

LEMMA RememberStep ==
  ASSUME AlertsInv, NEW z \in Zones, Alerts!Remember(z)
  PROVE  AlertsInv'
<1>0. sweep \in SweepRow /\ state \in [Zones -> ZoneState] /\ state[z] \in ZoneState
      /\ halfTold \in [Zones -> BOOLEAN]
  BY DEF AlertsInv, AlertTypes
<1>1. /\ UNCHANGED <<hour, router, enabled, held, textAge>>
      /\ sweep.at = "remember" /\ z \in sweep.order
      /\ state' = [state EXCEPT ![z] = Alerts!Informed(z)]
      /\ halfTold' = [halfTold EXCEPT ![z] = halfTold[z] /\ state[z].status = "online"]
      /\ sweep' = [sweep EXCEPT !.order = sweep.order \ {z},
                                !.at = IF sweep.order = {z} THEN "texts" ELSE sweep.at]
  BY DEF Alerts!Remember, Alerts!World
<1>2. /\ Alerts!Informed(z) \in ZoneState /\ Alerts!Informed(z).status = state[z].status
      /\ IF state[z].status = "offline" THEN Alerts!Informed(z).lastText = 0
                                        ELSE Alerts!Informed(z).lastText = state[z].lastText
  <2> DEFINE last == IF state[z].status = "offline" THEN 0 ELSE state[z].lastText
  <2>1. Alerts!Informed(z) = [state[z] EXCEPT !.sms = state[z].status, !.lastText = last]
    BY DEF Alerts!Informed
  <2>2. last \in 0..FlapWindow
    BY <1>0, AlertsValues DEF ZoneState
  <2>3. /\ Alerts!Informed(z) \in ZoneState /\ Alerts!Informed(z).status = state[z].status
        /\ Alerts!Informed(z).lastText = last
    <3> HIDE DEF last
    <3>1. QED
      BY <1>0, <2>1, <2>2 DEF ZoneState
  <2>4. QED
    BY <2>3
<1>3. /\ state' \in [Zones -> ZoneState] /\ \A y \in Zones : state'[y].status = state[y].status
      /\ \A y \in Zones \ {z} : state'[y] = state[y]
      /\ IF state[z].status = "offline" THEN state'[z].lastText = 0
                                        ELSE state'[z].lastText = state[z].lastText
  <2>1. state'[z] = Alerts!Informed(z) /\ \A y \in Zones \ {z} : state'[y] = state[y]
    BY <1>0, <1>1
  <2>2. state' \in [Zones -> ZoneState]
    BY <1>0, <1>1, <1>2
  <2>3. state'[z].status = state[z].status
    BY <1>2, <2>1
  <2>4. \A y \in Zones : state'[y].status = state[y].status
    BY <2>1, <2>3
  <2>5. CASE state[z].status = "offline"
    BY <1>2, <2>1, <2>2, <2>4, <2>5
  <2>6. CASE state[z].status # "offline"
    BY <1>2, <2>1, <2>2, <2>4, <2>6
  <2>7. QED
    BY <2>5, <2>6
<1>4. /\ sweep' \in SweepRow /\ sweep'.on = sweep.on /\ sweep'.quiet = sweep.quiet
      /\ sweep'.order = sweep.order \ {z}
      /\ \/ sweep'.at = "remember"
         \/ sweep'.at = "texts" /\ sweep.order = {z}
  BY <1>0, <1>1 DEF SweepRow
<1>5. /\ halfTold' \in [Zones -> BOOLEAN] /\ \A y \in Zones \ {z} : halfTold'[y] = halfTold[y]
      /\ state[z].status = "online" => halfTold'[z] = halfTold[z]
  BY <1>0, <1>1
<1>6. sweep.on /\ ~sweep.quiet /\ \A y \in Zones : held[y] = {}
  BY <1>1 DEF AlertsInv, SweepOK, HeldOK
<1>7. AlertTypes' /\ Alerts!AlertsAssumption'
  BY <1>1, <1>3, <1>4, <1>5 DEF AlertsInv, AlertTypes
<1>8. SweepOK' /\ NightOK'
  BY <1>1, <1>4, <1>6 DEF AlertsInv, SweepOK, NightOK, IntoNight, Alerts!Quiet
<1>9. HeldOK'
  BY <1>1, <1>4, <1>6 DEF HeldOK
<1>10. DatesOK'
  <2> SUFFICES ASSUME NEW y \in Zones
               PROVE  /\ state'[y].status = "none" => textAge[y] = FlapWindow
                      /\ \/ state'[y].lastText <= textAge[y]
                         \/ halfTold'[y]
                         \/ Sending(y)' /\ state'[y].status = "offline"
    BY <1>1 DEF DatesOK
  <2>1. /\ state[y].status = "none" => textAge[y] = FlapWindow
        /\ \/ state[y].lastText <= textAge[y]
           \/ halfTold[y]
           \/ Sending(y) /\ state[y].status = "offline"
        /\ FlapWindow \in Nat /\ textAge[y] \in 0..FlapWindow /\ state[y] \in ZoneState
    BY AlertsValues DEF AlertsInv, AlertTypes, DatesOK
  <2>2. CASE y = z /\ state[z].status = "offline"
    BY <1>3, <2>1, <2>2
  <2>3. CASE y = z /\ state[z].status # "offline"
    <3>1. state[z].status = "none" \/ state[z].status = "online"
      BY <2>1, <2>3 DEF ZoneState, Known
    <3>2. state[z].status = "none" => state[z].lastText <= textAge[z]
      BY <2>1, <2>3 DEF ZoneState
    <3>3. QED
      BY <1>3, <1>5, <2>1, <2>3, <3>1, <3>2
  <2>4. CASE y # z
    BY <1>1, <1>3, <1>4, <1>5, <2>1, <2>4 DEF Sending
  <2>5. QED
    BY <2>2, <2>3, <2>4
<1>11. QED
  BY <1>7, <1>8, <1>9, <1>10 DEF AlertsInv

\* A crash leaves the zones half told that a text had just gone out for.
LEMMA SweepDies ==
  ASSUME AlertsInv, Alerts!Crash
  PROVE  AlertsInv'
<1>1. /\ UNCHANGED <<hour, router, enabled, state, held, textAge>>
      /\ sweep' = Alerts!Resting
      /\ halfTold' = [z \in Zones |-> halfTold[z] \/ Sending(z)]
  BY DEF Alerts!Crash, Sending
<1>2. sweep' \in SweepRow /\ sweep'.at = "idle"
  BY <1>1, AlertsValues
<1>3. halfTold' \in [Zones -> BOOLEAN] /\ \A z \in Zones : halfTold'[z] = (halfTold[z] \/ Sending(z))
  <2>1. \A z \in Zones : (halfTold[z] \/ Sending(z)) \in BOOLEAN
    OBVIOUS
  <2>2. QED
    BY <1>1, <2>1
<1>4. AlertTypes' /\ Alerts!AlertsAssumption'
  BY <1>1, <1>2, <1>3 DEF AlertsInv, AlertTypes
<1>5. SweepOK' /\ NightOK'
  BY <1>1, <1>2 DEF AlertsInv, SweepOK, NightOK, IntoNight, Alerts!Quiet
<1>6. HeldOK'
  BY <1>1, <1>2, <1>3 DEF AlertsInv, HeldOK, Sending, Alerts!Quiet
<1>7. DatesOK'
  BY <1>1, <1>2, <1>3 DEF AlertsInv, DatesOK
<1>8. QED
  BY <1>4, <1>5, <1>6, <1>7 DEF AlertsInv

\* An hour into the night is an hour of silence; when it ends, it was long enough.
LEMMA ClockMoves ==
  ASSUME AlertsInv, NEW z \in Zones,
         hour' = IF hour + 1 = Day THEN 0 ELSE hour + 1,
         textAge'[z] = Alerts!Older(textAge[z], FlapWindow)
  PROVE  /\ hour' \in 0..(Day - 1) /\ textAge'[z] \in 0..FlapWindow /\ textAge[z] <= textAge'[z]
         /\ Alerts!Quiet' => textAge'[z] >= FlapWindow \/ textAge'[z] >= IntoNight'
         /\ Alerts!Quiet /\ ~Alerts!Quiet' => textAge'[z] >= FlapWindow
<1>1. /\ FlapWindow \in Nat \ {0} /\ Day \in Nat \ {0} /\ NightStart \in 0..(Day - 1)
      /\ NightEnd \in 0..NightStart /\ FlapWindow <= Day - NightStart + NightEnd
  BY AlertsValues
<1>2. hour \in 0..(Day - 1) /\ textAge[z] \in 0..FlapWindow
  BY DEF AlertsInv, AlertTypes
<1>3. /\ textAge'[z] \in 0..FlapWindow
      /\ textAge'[z] = FlapWindow \/ textAge'[z] = textAge[z] + 1
  BY <1>1, <1>2 DEF Alerts!Older
<1>4. hour' \in 0..(Day - 1) /\ (hour' = hour + 1 \/ (hour' = 0 /\ hour = Day - 1))
  BY <1>1, <1>2
<1>5. Alerts!Quiet => textAge[z] >= FlapWindow \/ textAge[z] >= IntoNight
  BY DEF AlertsInv, NightOK
<1>6. Alerts!Quiet /\ Alerts!Quiet' => IntoNight' <= IntoNight + 1
  BY <1>1, <1>2, <1>4 DEF Alerts!Quiet, IntoNight
<1>7. ~Alerts!Quiet /\ Alerts!Quiet' => IntoNight' <= 1
  BY <1>1, <1>2, <1>4 DEF Alerts!Quiet, IntoNight
<1>8. Alerts!Quiet /\ ~Alerts!Quiet' => FlapWindow <= IntoNight
  BY <1>1, <1>2, <1>4 DEF Alerts!Quiet, IntoNight
<1>9. IntoNight \in Int /\ IntoNight' \in Int
  BY <1>1, <1>2, <1>4 DEF IntoNight
<1>10. CASE textAge'[z] = FlapWindow
  BY <1>1, <1>2, <1>3, <1>4, <1>10
<1>11. CASE textAge'[z] # FlapWindow /\ textAge'[z] = textAge[z] + 1
  <2>1. textAge'[z] < FlapWindow /\ textAge[z] < FlapWindow
    BY <1>1, <1>2, <1>3, <1>11
  <2>2. Alerts!Quiet => textAge[z] >= IntoNight
    BY <1>1, <1>2, <1>5, <2>1
  <2>3. ~(Alerts!Quiet /\ ~Alerts!Quiet')
    BY <1>1, <1>2, <1>8, <1>9, <2>1, <2>2
  <2>4. Alerts!Quiet' => textAge'[z] >= IntoNight'
    BY <1>2, <1>6, <1>7, <1>9, <1>11, <2>2
  <2>5. QED
    BY <1>2, <1>3, <1>4, <1>11, <2>3, <2>4
<1>12. QED
  BY <1>3, <1>10, <1>11

LEMMA HourPasses ==
  ASSUME AlertsInv, Alerts!Tick
  PROVE  AlertsInv'
<1>0. /\ state \in [Zones -> ZoneState] /\ held \in [Zones -> SUBSET Nat]
      /\ router \in [Zones -> Sight] /\ StaleOutage \in Nat /\ FlapWindow \in Nat
  BY DEF AlertsInv, AlertTypes, Alerts!AlertsAssumption
<1>1. /\ sweep.at = "idle" /\ UNCHANGED <<enabled, sweep, halfTold>>
      /\ hour' = IF hour + 1 = Day THEN 0 ELSE hour + 1
      /\ router' = [z \in Zones |->
           IF router[z].is = "down"
             THEN [router[z] EXCEPT !.age = Alerts!Older(router[z].age, StaleOutage + 1)]
             ELSE router[z]]
      /\ state' = [z \in Zones |->
           [state[z] EXCEPT !.lastText = Alerts!Older(state[z].lastText, FlapWindow),
                            !.since = IF state[z].status = "offline"
                                        THEN Alerts!Older(state[z].since, StaleOutage + 1)
                                        ELSE state[z].since]]
      /\ held' = [z \in Zones |-> {a \in {b + 1 : b \in held[z]} : a <= SummaryAge}]
      /\ textAge' = [z \in Zones |-> Alerts!Older(textAge[z], FlapWindow)]
  BY DEF Alerts!Tick
<1>2. /\ hour' \in 0..(Day - 1)
      /\ \A z \in Zones : /\ textAge'[z] \in 0..FlapWindow /\ textAge[z] <= textAge'[z]
                          /\ Alerts!Quiet' => textAge'[z] >= FlapWindow \/ textAge'[z] >= IntoNight'
                          /\ Alerts!Quiet /\ ~Alerts!Quiet' => textAge'[z] >= FlapWindow
  <2>0. hour' = IF hour + 1 = Day THEN 0 ELSE hour + 1
    BY <1>1
  <2>1. hour' \in 0..(Day - 1)
    BY <2>0, AlertsValues DEF AlertsInv, AlertTypes
  <2>2. \A z \in Zones : textAge'[z] = Alerts!Older(textAge[z], FlapWindow)
    BY <1>1
  <2>3. QED
    BY <2>0, <2>1, <2>2, ClockMoves
<1>3. textAge' \in [Zones -> 0..FlapWindow]
  BY <1>1, <1>2
<1>4. \A n \in Nat, m \in Nat : Alerts!Older(n, m) \in Nat
  BY DEF Alerts!Older
<1>5. router' \in [Zones -> Sight]
  <2>1. \A z \in Zones : (IF router[z].is = "down"
          THEN [router[z] EXCEPT !.age = Alerts!Older(router[z].age, StaleOutage + 1)]
          ELSE router[z]) \in Sight
    <3> SUFFICES ASSUME NEW z \in Zones
                 PROVE  [router[z] EXCEPT !.age = Alerts!Older(router[z].age, StaleOutage + 1)] \in Sight
      BY <1>0
    <3>1. router[z] \in Sight /\ StaleOutage + 1 \in Nat
      BY <1>0
    <3>2. Alerts!Older(router[z].age, StaleOutage + 1) \in Nat
      BY <1>4, <3>1 DEF Sight
    <3>3. QED
      BY <3>1, <3>2 DEF Sight
  <2>2. QED
    BY <1>1, <2>1
<1>6. \A z \in Zones : /\ state'[z] \in ZoneState /\ state'[z].status = state[z].status
                       /\ state'[z].lastText = Alerts!Older(state[z].lastText, FlapWindow)
  <2> SUFFICES ASSUME NEW z \in Zones
               PROVE  /\ state'[z] \in ZoneState /\ state'[z].status = state[z].status
                      /\ state'[z].lastText = Alerts!Older(state[z].lastText, FlapWindow)
    OBVIOUS
  <2> DEFINE since == IF state[z].status = "offline"
                        THEN Alerts!Older(state[z].since, StaleOutage + 1) ELSE state[z].since
             last == Alerts!Older(state[z].lastText, FlapWindow)
  <2>1. state'[z] = [state[z] EXCEPT !.lastText = last, !.since = since]
    BY <1>1
  <2>2. state[z] \in ZoneState /\ StaleOutage + 1 \in Nat
    BY <1>0
  <2>3. since \in Nat
    BY <1>4, <2>2 DEF ZoneState
  <2>4. last \in 0..FlapWindow
    BY <1>0, <2>2 DEF ZoneState, Alerts!Older
  <2> HIDE DEF since, last
  <2>5. state'[z] \in ZoneState /\ state'[z].status = state[z].status /\ state'[z].lastText = last
    BY <2>1, <2>2, <2>3, <2>4 DEF ZoneState
  <2>6. QED
    BY <2>5 DEF last
<1>7. state' \in [Zones -> ZoneState]
  BY <1>1, <1>6
<1>8. held' \in [Zones -> SUBSET Nat] /\ \A z \in Zones : held'[z] # {} => held[z] # {}
  <2>1. \A z \in Zones : {a \in {b + 1 : b \in held[z]} : a <= SummaryAge} \in SUBSET Nat
    BY <1>0
  <2>2. QED
    BY <1>1, <2>1
<1>9. AlertTypes' /\ Alerts!AlertsAssumption'
  BY <1>1, <1>2, <1>3, <1>5, <1>7, <1>8 DEF AlertsInv, AlertTypes
<1>10. SweepOK' /\ NightOK'
  BY <1>1, <1>2 DEF AlertsInv, SweepOK, NightOK
<1>11. HeldOK'
  <2> SUFFICES ASSUME NEW z \in Zones, ~Alerts!Quiet', held'[z] # {}
               PROVE  textAge'[z] >= FlapWindow \/ halfTold'[z]
    BY <1>1 DEF HeldOK
  <2>1. CASE Alerts!Quiet
    BY <1>2, <2>1
  <2>2. CASE ~Alerts!Quiet
    <3>1. textAge[z] >= FlapWindow \/ halfTold[z]
      BY <1>1, <1>8, <2>2 DEF AlertsInv, HeldOK
    <3>2. textAge[z] \in Nat /\ textAge'[z] \in Nat /\ textAge[z] <= textAge'[z]
      BY <1>0, <1>2 DEF AlertsInv, AlertTypes
    <3>3. halfTold' = halfTold /\ FlapWindow \in Nat
      BY <1>0, <1>1
    <3>4. QED
      BY <3>1, <3>2, <3>3
  <2>3. QED
    BY <2>1, <2>2
<1>12. DatesOK'
  <2> SUFFICES ASSUME NEW z \in Zones
               PROVE  /\ state'[z].status = "none" => textAge'[z] = FlapWindow
                      /\ state'[z].lastText <= textAge'[z] \/ halfTold'[z]
    BY DEF DatesOK
  <2>1. /\ state[z].status = "none" => textAge[z] = FlapWindow
        /\ state[z].lastText <= textAge[z] \/ halfTold[z]
    BY <1>1 DEF AlertsInv, DatesOK, Sending
  <2>2. /\ state[z].lastText \in 0..FlapWindow /\ textAge[z] \in 0..FlapWindow
        /\ textAge'[z] = Alerts!Older(textAge[z], FlapWindow)
    BY <1>0, <1>1 DEF AlertsInv, AlertTypes, ZoneState
  <2>3. /\ halfTold' = halfTold /\ FlapWindow \in Nat /\ state'[z].status = state[z].status
        /\ state'[z].lastText = Alerts!Older(state[z].lastText, FlapWindow)
    BY <1>0, <1>1, <1>6
  <2>4. QED
    BY <2>1, <2>2, <2>3 DEF Alerts!Older
<1>13. QED
  BY <1>9, <1>10, <1>11, <1>12 DEF AlertsInv

\* The world outside: routers and the owner's switch.
LEMMA WorldStep ==
  ASSUME AlertsInv,
         \/ Alerts!Switch
         \/ \E z \in Zones, i \in {"up", "down", "gone"} : Alerts!Becomes(z, i)
  PROVE  AlertsInv'
<1>1. UNCHANGED <<hour, state, held, sweep, textAge, halfTold>>
  BY DEF Alerts!Switch, Alerts!Becomes
<1>2. enabled' \in BOOLEAN /\ router' \in [Zones -> Sight]
  <2>1. CASE Alerts!Switch
    BY <2>1 DEF Alerts!Switch, AlertsInv, AlertTypes
  <2>2. ASSUME NEW z \in Zones, NEW i \in {"up", "down", "gone"}, Alerts!Becomes(z, i)
        PROVE  enabled' \in BOOLEAN /\ router' \in [Zones -> Sight]
    <3>1. enabled' = enabled /\ router' = [router EXCEPT ![z] = [is |-> i, age |-> 0]]
      BY <2>2 DEF Alerts!Becomes
    <3>2. [is |-> i, age |-> 0] \in Sight
      BY DEF Sight
    <3>3. QED
      BY <3>1, <3>2 DEF AlertsInv, AlertTypes
  <2>3. QED
    BY <2>1, <2>2
<1>3. AlertTypes' /\ Alerts!AlertsAssumption'
  BY <1>1, <1>2 DEF AlertsInv, AlertTypes
<1>4. SweepOK' /\ NightOK'
  BY <1>1 DEF AlertsInv, SweepOK, NightOK, IntoNight, Alerts!Quiet
<1>5. HeldOK' /\ DatesOK'
  BY <1>1 DEF AlertsInv, HeldOK, DatesOK, Sending, Alerts!Quiet
<1>6. QED
  BY <1>3, <1>4, <1>5 DEF AlertsInv

LEMMA AlertsInit ==
  ASSUME Alerts!AlertsAssumption, Alerts!Init
  PROVE  AlertsInv
<1>1. /\ FlapWindow \in Nat \ {0} /\ 0 \in 0..FlapWindow /\ FlapWindow \in 0..FlapWindow
  BY DEF Alerts!AlertsAssumption
<1>2. /\ hour \in 0..(Day - 1) /\ enabled \in BOOLEAN
      /\ router \in [Zones -> {[is |-> i, age |-> 0] : i \in {"up", "down", "gone"}}]
      /\ state = [z \in Zones |-> Alerts!Unknown] /\ held = [z \in Zones |-> {}]
      /\ sweep = Alerts!Resting /\ textAge = [z \in Zones |-> FlapWindow]
      /\ halfTold = [z \in Zones |-> FALSE]
  BY DEF Alerts!Init
<1>3. Alerts!Unknown \in ZoneState /\ Alerts!Unknown.lastText = FlapWindow
  BY <1>1 DEF Alerts!Unknown, ZoneState, Known
<1>4. sweep \in SweepRow /\ sweep.at = "idle"
  <2>1. [z \in Zones |-> [is |-> "gone", age |-> 0]] \in [Zones -> Sight]
    BY DEF Sight
  <2>2. QED
    BY <1>2, <2>1 DEF Alerts!Resting, SweepRow
<1>5. {[is |-> i, age |-> 0] : i \in {"up", "down", "gone"}} \subseteq Sight
  BY DEF Sight
<1>6. router \in [Zones -> Sight] /\ held \in [Zones -> SUBSET Nat]
      /\ textAge \in [Zones -> 0..FlapWindow] /\ halfTold \in [Zones -> BOOLEAN]
  BY <1>1, <1>2, <1>5
<1>7. AlertTypes
  BY <1>2, <1>3, <1>4, <1>6 DEF AlertTypes
<1>8. SweepOK /\ NightOK /\ HeldOK
  BY <1>1, <1>2, <1>4 DEF SweepOK, NightOK, HeldOK
<1>9. DatesOK
  BY <1>1, <1>2, <1>3 DEF DatesOK
<1>10. QED
  BY <1>7, <1>8, <1>9 DEF AlertsInv

LEMMA AlertsNext ==
  ASSUME AlertsInv, [Alerts!Next]_Alerts!vars
  PROVE  AlertsInv'
<1>1. CASE Alerts!Next
  <2>1. CASE Alerts!Load
    BY <2>1, PlainSweepStep
  <2>2. CASE Alerts!Sweep
    <3>1. CASE Alerts!EndChanges \/ Alerts!EndTexts
      BY <3>1, PlainSweepStep
    <3>2. CASE Alerts!Summary \/ Alerts!MarkSummed
      BY <3>2, SummaryStep, MarkStep
    <3>3. ASSUME NEW z \in Zones, Alerts!Step(z) PROVE AlertsInv'
      BY <3>3, PlainSweepStep, ChangeStep, TextStep, RememberStep, PassStep DEF Alerts!Step
    <3>4. QED
      BY <2>2, <3>1, <3>2, <3>3 DEF Alerts!Sweep
  <2>3. CASE Alerts!Crash
    BY <2>3, SweepDies
  <2>4. CASE Alerts!Tick
    BY <2>4, HourPasses
  <2>5. CASE \/ Alerts!Switch
             \/ \E z \in Zones, i \in {"up", "down", "gone"} : Alerts!Becomes(z, i)
    BY <2>5, WorldStep
  <2>6. QED
    BY <1>1, <2>1, <2>2, <2>3, <2>4, <2>5 DEF Alerts!Next
<1>2. CASE UNCHANGED Alerts!vars
  <2>1. UNCHANGED <<hour, router, enabled, state, held, sweep, textAge, halfTold>>
    BY <1>2 DEF Alerts!vars
  <2>2. AlertTypes' /\ Alerts!AlertsAssumption'
    BY <2>1 DEF AlertsInv, AlertTypes
  <2>3. SweepOK' /\ NightOK'
    BY <2>1 DEF AlertsInv, SweepOK, NightOK, IntoNight, Alerts!Quiet
  <2>4. HeldOK' /\ DatesOK'
    BY <2>1 DEF AlertsInv, HeldOK, DatesOK, Sending, Alerts!Quiet
  <2>5. QED
    BY <2>2, <2>3, <2>4 DEF AlertsInv
<1>3. QED
  BY <1>1, <1>2

\* A "down" text is the summary's, of a zone held since the night, or one that
\* the dates of the state say is due.
LEMMA TextsApartStep ==
  ASSUME AlertsInv, [Alerts!Next]_Alerts!vars, NEW z \in Zones,
         Alerts!Texted(z), told'[z] = "offline"
  PROVE  textAge[z] >= FlapWindow \/ halfTold[z]
<1>0. /\ sweep \in SweepRow /\ textAge \in [Zones -> 0..FlapWindow] /\ FlapWindow \in Nat
      /\ state \in [Zones -> ZoneState]
  BY AlertsValues DEF AlertsInv, AlertTypes
<1>1. /\ sweep.at \in {"summary", "texts"} /\ sweep'.at \in {"mark", "remember"}
      /\ z \in sweep'.order /\ sweep' # sweep
  BY DEF Alerts!Texted
<1>2. Alerts!Next
  BY <1>1 DEF Alerts!vars
<1>3. Alerts!Summary \/ \E y \in Zones : Alerts!Text(y)
  <2>1. ~(Alerts!Load \/ Alerts!Switch \/ Alerts!Tick \/ Alerts!EndChanges \/ Alerts!MarkSummed)
    BY <1>1 DEF Alerts!Load, Alerts!Switch, Alerts!Tick, Alerts!EndChanges, Alerts!MarkSummed
  <2>2. ~(Alerts!Crash \/ Alerts!EndTexts)
    BY <1>1, AlertsValues DEF Alerts!Crash, Alerts!EndTexts
  <2>3. ASSUME NEW y \in Zones, NEW i \in {"up", "down", "gone"}, Alerts!Becomes(y, i)
        PROVE  FALSE
    BY <1>1, <2>3 DEF Alerts!Becomes
  <2>4. ASSUME NEW y \in Zones
        PROVE  ~(Alerts!FirstSight(y) \/ Alerts!NoChange(y) \/ Alerts!Claim(y) \/ Alerts!Note(y)
                 \/ Alerts!Remember(y))
    BY <1>1 DEF Alerts!FirstSight, Alerts!NoChange, Alerts!Claim, Alerts!Note, Alerts!Remember
  <2>5. ASSUME NEW y \in Zones, Alerts!Pass(y) PROVE FALSE
    <3>1. sweep.at = "texts" /\ sweep' = [sweep EXCEPT !.todo = sweep.todo \ {y}]
      BY <2>5 DEF Alerts!Pass
    <3>2. sweep'.at = "texts"
      BY <1>0, <3>1 DEF SweepRow
    <3>3. QED
      BY <1>1, <3>2
  <2>6. QED
    BY <1>2, <2>1, <2>2, <2>3, <2>4, <2>5 DEF Alerts!Next, Alerts!Sweep, Alerts!Step
<1>4. CASE Alerts!Summary
  <2> DEFINE order == {y \in Alerts!Live : held[y] # {}}
  <2>1. /\ sweep.at = "summary"
        /\ sweep' = [sweep EXCEPT !.at = IF order = {} THEN "texts" ELSE "mark", !.order = order]
    BY <1>4 DEF Alerts!Summary
  <2>2. sweep'.order = order
    <3> HIDE DEF order
    <3>1. QED
      BY <1>0, <2>1 DEF SweepRow
  <2>3. held[z] # {}
    BY <1>1, <2>2
  <2>4. ~Alerts!Quiet
    BY <2>1 DEF AlertsInv, SweepOK
  <2>5. QED
    BY <2>1, <2>3, <2>4 DEF AlertsInv, HeldOK
<1>5. ASSUME NEW y \in Zones, Alerts!Text(y)
      PROVE  textAge[z] >= FlapWindow \/ halfTold[z]
  <2>1. /\ sweep.at = "texts" /\ Alerts!TextDue(y) /\ Alerts!Send({y})
        /\ sweep' = [sweep EXCEPT !.at = "remember", !.order = {y}, !.todo = sweep.todo \ {y}]
    BY <1>5 DEF Alerts!Text
  <2>2. z = y
    BY <1>0, <1>1, <2>1 DEF SweepRow
  <2>3. state[z].status = "offline"
    <3>1. {y} \in SUBSET Zones
      OBVIOUS
    <3>2. QED
      BY <2>1, <2>2, <3>1, Sends
  <2>4. ~Alerts!Flapping(z)
    BY <2>1, <2>2, <2>3 DEF Alerts!TextDue, Alerts!DownDue, Alerts!BackDue
  <2>5. state[z].lastText <= textAge[z] \/ halfTold[z]
    BY <2>1 DEF AlertsInv, DatesOK, Sending
  <2>6. QED
    BY <1>0, <2>4, <2>5 DEF Alerts!Flapping, ZoneState
<1>6. QED
  BY <1>3, <1>4, <1>5

\* Two texts that a router is down are a flap window apart, the summary counted,
\* unless the server died after the first (ops_alerts.go:23), for any number of
\* zones and any hours of the night.
THEOREM DownTextsHeldApart ==
  ASSUME Alerts!AlertsAssumption
  PROVE  Alerts!Spec => Alerts!DownTextsApart
<1>1. Alerts!Init => AlertsInv
  BY AlertsInit
<1>2. AlertsInv /\ [Alerts!Next]_Alerts!vars => AlertsInv'
  BY AlertsNext
<1>3. AlertsInv /\ [Alerts!Next]_Alerts!vars =>
        [\A z \in Zones : Alerts!Texted(z) /\ told'[z] = "offline"
                            => textAge[z] >= FlapWindow \/ halfTold[z]]_Alerts!vars
  BY TextsApartStep
<1>4. QED
  BY <1>1, <1>2, <1>3, PTL DEF Alerts!Spec, Alerts!DownTextsApart
=============================================================================
