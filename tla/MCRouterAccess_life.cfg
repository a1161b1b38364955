CONSTANTS
  Logins = {l1}
  Ways = {"script", "radius"}
  Window = 3
  MaxLost = 1
  Rec = rec
  Admins = {admin1, admin2}
  Payers = {payer}
  MaxDates = 2
  MaxPushes = 2
  MaxSwitches = 2
  MaxCrashes = 1
SPECIFICATION FairSpec
INVARIANTS LeftIsEmpty
PROPERTIES AccessFollows
CHECK_DEADLOCK FALSE
