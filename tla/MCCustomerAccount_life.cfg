CONSTANTS
  Customers = {"ann", "ben", "guest", "trial"}
  Guests = {"guest", "trial"}
  Trials = {"trial"}
  PhoneOf <- MCPhoneOf
  Payments = {"plan", "topup", "short"}
  PayerOf <- MCPayerOf
  Buys <- MCBuys
  Price = 2
  Amounts = {1, 2}
  Balances = {0, 3}
  Expiries = {0, 3}
  Handlers = {h1, h2}
  Scenes <- MCScenes
  MaxTime = 4
  MaxRequests = 3
  Nobody = "nobody"
SPECIFICATION FairSpec
INVARIANTS BalanceReconciles PaidTimeKept CompletedIsServed
PROPERTIES NothingShortens MovedNotCopied ExpiryComes
CHECK_DEADLOCK FALSE
