-------------------------- MODULE MCCustomerAccount --------------------------
(* Constants of the TLC runs of CustomerAccount: two accounts with one phone    *)
(* number, in two zones, a guest's, a trial's, and three payments of the first. *)
EXTENDS CustomerAccount

MCPhoneOf == [c \in Customers |-> IF c = "ben" THEN "ann" ELSE c]
MCPayerOf == [p \in Payments |-> "ann"]
MCBuys    == [p \in Payments |-> p]

\* Requests that meet at one account.
Pairs == {{"signin", "credit"}, {"signin", "pay"}, {"signin", "manual"}, {"buy", "credit"},
          {"buy", "c2b"}, {"buy", "pay"}, {"pay", "profile"}, {"pay", "c2b"},
          {"manual", "credit"}, {"manual", "pay"}, {"voucher", "suspend"}, {"update", "pay"},
          {"update", "profile"}, {"register", "signin"}, {"register", "c2b"},
          {"delete", "pay"}, {"delete", "c2b"}, {"delete", "signin"}, {"update", "signin"},
          {"outage", "profile"}}

MCScenes == [doors : Pairs, who : {{"ann"}}]
            \cup [doors : {{"register", "purge"}, {"purge", "voucher"}, {"purge", "manual"},
                       {"purge", "profile"}, {"purge", "update"}}, who : {{"guest"}}]
            \cup [doors : {{"trial", "suspend"}, {"trial", "update"}}, who : {{"trial"}}]
            \cup [doors : {{"signin", "migrate", "voucher"}, {"signin", "migrate", "purge"}},
                  who : {{"ann", "guest"}}]
            \cup [doors : {{"signin", "migrate"}}, who : {{"ann", "ben", "guest"}}]
=============================================================================
