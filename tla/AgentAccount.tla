---------------------------- MODULE AgentAccount ----------------------------
(***************************************************************************)
(* What the agent ledger promises: an account per agent whose operations   *)
(* happen one at a time.  No transactions, no entries, no locks: a balance *)
(* and the stock each agent holds.  AgentLedger implements it.             *)
(***************************************************************************)
EXTENDS Integers, FiniteSets, Functions

CONSTANTS Agents, Vouchers, Keys, None

VARIABLES
  limit,    \* how much each agent may owe for vouchers taken on credit
  balance,  \* what each agent owes; negative is float
  stock,    \* who holds each voucher, its net price and what became of it
  spent     \* request keys that have had their effect

vars == <<limit, balance, stock, spent>>

Held(a, status) ==
  {v \in Vouchers : stock[v] # None /\ stock[v].agent = a
                                    /\ stock[v].status = status}

Init ==
  /\ limit \in [Agents -> Nat]
  /\ balance = [a \in Agents |-> 0]
  /\ stock = [v \in Vouchers |-> None]
  /\ spent = {}

Spend(k) == k \notin spent /\ spent' = spent \cup {k}

\* New vouchers are charged within the credit limit, within the float, or
\* are paid for at once.
Take(a, k, vs, net) ==
  LET due == Cardinality(vs) * net IN
  /\ Spend(k)
  /\ vs # {} /\ \A v \in vs : stock[v] = None
  /\ stock' = [v \in Vouchers |->
                 IF v \in vs
                   THEN [agent |-> a, net |-> net, status |-> "issued"]
                   ELSE stock[v]]
  /\ \/ /\ balance[a] + due <= limit[a]
        /\ balance' = [balance EXCEPT ![a] = @ + due]
     \/ UNCHANGED balance
  /\ UNCHANGED limit

GiveBack(a, k, vs) ==
  /\ Spend(k)
  /\ vs # {} /\ vs \subseteq Held(a, "issued")
  /\ balance' = [balance EXCEPT ![a] = @ - SumFunction([v \in vs |-> stock[v].net])]
  /\ stock' = [v \in Vouchers |-> IF v \in vs
                                    THEN [stock[v] EXCEPT !.status = "returned"]
                                    ELSE stock[v]]
  /\ UNCHANGED limit

Sell(v) ==
  /\ \E a \in Agents : v \in Held(a, "issued")
  /\ stock' = [stock EXCEPT ![v].status = "sold"]
  /\ UNCHANGED <<limit, balance, spent>>

\* Money received, a correction or its reversal: one agent's balance only.
Settle(a, k) ==
  /\ Spend(k)
  /\ \A b \in Agents \ {a} : balance'[b] = balance[b]
  /\ UNCHANGED <<limit, stock>>

SetLimits == UNCHANGED <<balance, stock, spent>>

Next ==
  \/ \E a \in Agents, k \in Keys :
       \/ \E vs \in SUBSET Vouchers :
            \/ GiveBack(a, k, vs)
            \/ \E v \in vs : stock'[v] # None /\ Take(a, k, vs, stock'[v].net)
       \/ Settle(a, k)
  \/ \E v \in Vouchers : Sell(v)
  \/ SetLimits

Spec == Init /\ [][Next]_vars
=============================================================================
