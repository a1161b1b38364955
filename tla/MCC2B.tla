------------------------------- MODULE MCC2B --------------------------------
(* Constants of the TLC runs of C2B: amina and asha of ISP "a" and ben of     *)
(* ISP "b" have the same phone number.  "own" was paid to a's shortcode;      *)
(* "wrong" is a confirmation for the shared one that Safaricom does not bear  *)
(* out.                                                                       *)
EXTENDS C2BReceipts

MCSound == {"own"}
MCAnswers == [r \in Receipts |-> IF r \in Sound THEN {{}, {"noreceipt", "nopayer"}, {"code"}}
                                 ELSE {{"amount"}, {"nopayer", "status"}}]
MCCustomers == {"amina", "asha", "ben"}
MCRegistries == {{"ben"}, {"amina", "asha"}}
MCIspOf == [c \in Customers |-> IF c = "ben" THEN "b" ELSE "a"]
MCPaidTo == [r \in Receipts |-> IF r = "wrong" THEN Shared ELSE "a"]
MCFinds == [r \in Receipts |-> <<{}, Customers>>]
MCPayer == [r \in Receipts |-> {"amina", "asha"}]
MCBefore == [r \in Receipts |-> IF r = "own" THEN {"new", "queued", "settled", "prompt"}
                                             ELSE {"new"}]
MCOneZone == {"a"}
=============================================================================
