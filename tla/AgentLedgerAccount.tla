------------------------- MODULE AgentLedgerAccount -------------------------
(***************************************************************************)
(* AgentLedger implements AgentAccount.                                    *)
(***************************************************************************)
EXTENDS AgentLedger

\* What the account sees of the tables.
Limits   == [a \in Agents |-> agent[a].limit]
Balances == [a \in Agents |-> Balance(a)]
Stock    == [v \in Vouchers |->
               IF holding[v] = None THEN None
               ELSE [agent |-> holding[v].agent,
                     net |-> holding[v].face - holding[v].comm,
                     status |-> holding[v].status]]
Spent    == {k \in Keys : idem[k] # None}

\* None is not a row of it either.
StockRows == [agent : Agents, net : Int,
              status : {"issued", "sold", "returned"}]

ASSUME NoneIsNoStock == None \notin StockRows

\* The account every transaction must look like one atomic step of.
Account ==
  INSTANCE AgentAccount WITH
    limit <- Limits, balance <- Balances, stock <- Stock, spent <- Spent

\* The ledger implements the serial account: each issue fits the credit limit
\* or the float at the instant it commits, each return gives back exactly what
\* the vouchers cost, and a sale moves no money, although every transaction
\* reads before it commits and others run in between.
AccountSpec == Account!Spec
=============================================================================
