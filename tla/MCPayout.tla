------------------------------ MODULE MCPayout ------------------------------
(***************************************************************************)
(* Small instances of Payout for TLC.                                      *)
(***************************************************************************)
EXTENDS PayoutSettlement, TLC

\* Two payments, the second below one shilling after commission.
OneIsp   == [i \in 1..2 |-> "a"]
TwoCents == [i \in 1..2 |-> IF i = 2 THEN 105 ELSE 250]

\* Seven and a half, in halves of a percent.
SevenAndAHalf == {15}

Symmetry == Permutations(Requests) \cup Permutations(Staff)
                                   \cup Permutations(Transfers)
=============================================================================
