CONSTANTS
  None = None
  Agents = {a1, a2}
  Vouchers = {1}
  Keys = {k1, k2, k3, k4}
  Requests = {p1, p2}
  Terms <- OneProfile
  Faces = {4}
  HandoverAmounts = {2}
  AdjustmentAmounts <- UpAndDown
  Refs = {r1}
  MaxAgentBatch = 1
SPECIFICATION Spec
INVARIANTS ReversalsExact KeysSpentOnce
PROPERTIES AccountSpec
SYMMETRY Symmetry
CHECK_DEADLOCK FALSE
