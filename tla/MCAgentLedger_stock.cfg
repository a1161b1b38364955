CONSTANTS
  None = None
  Agents = {a1}
  Vouchers = {1, 2}
  Keys = {k1, k2, k3}
  Requests = {p1, p2}
  Terms <- StockProfiles
  Faces = {2, 4}
  HandoverAmounts = {}
  AdjustmentAmounts <- Empty
  Refs = {}
  MaxAgentBatch = 2
SPECIFICATION FairSpec
INVARIANTS VoucherBooks CashDueReconciles WaitsAreShort
PROPERTIES EveryRequestEnds
CHECK_DEADLOCK FALSE
