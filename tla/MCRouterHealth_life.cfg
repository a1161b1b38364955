CONSTANTS
  Customers = {"paid"}
  Free = {}
  Handlers = {h1, h2}
  OutageAfter = 2
  Cap = 3
  MaxTime = 6
  MaxRenewals = 2
  MaxCrashes = 1
SPECIFICATION FairSpec
INVARIANTS NeverMoreThanLost
PROPERTIES StatusSettles
CHECK_DEADLOCK FALSE
