CONSTANTS
  None = None
  Isps = {"a"}
  Payments = {1, 2}
  IspOf <- OneIsp
  Amount <- TwoCents
  Payouts = {1, 2}
  Transfers = {t1, t2}
  Requests = {r1, r2}
  Staff = {s1, s2}
  Percents <- SevenAndAHalf
  Scale = 2
  MinPayout = 1
  SecondApprover = TRUE
  StaffWait = TRUE
SPECIFICATION FairSpec
INVARIANTS ClaimsExact NeverSentTwice
PROPERTIES SettlesSpec AcceptedSettles
CHECK_DEADLOCK FALSE
