--------------------------- MODULE MCAgentLedger ---------------------------
(***************************************************************************)
(* Small instances of AgentLedger for TLC.                                 *)
(***************************************************************************)
EXTENDS AgentLedgerAccount, TLC

\* Profiles AgentUpdate sets: half commission with a little credit, a fixed
\* rate above the lower price, and an agent that was switched off.
Percent  == [status |-> "active", limit |-> 4, ctype |-> "percent", value |-> 5000]
Fixed    == [status |-> "active", limit |-> 3, ctype |-> "fixed", value |-> 3]
Inactive == [Fixed EXCEPT !.status = "inactive"]

StockProfiles == {Percent, Fixed}
MoneyProfiles == {Percent, Inactive}
OneProfile    == {Percent}
UpAndDown     == {-2, 2}
Empty         == {}

\* Keys and requests are interchangeable; agents and vouchers are not
\* permuted (voucher ids are ordered).
Symmetry == Permutations(Keys) \cup Permutations(Requests)
=============================================================================
