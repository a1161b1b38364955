CONSTANTS
  Receipts = {"own", "wrong"}
  Sound <- MCSound
  Answers <- MCAnswers
  Customers <- MCCustomers
  Registries <- MCRegistries
  IspOf <- MCIspOf
  PaidTo <- MCPaidTo
  Finds <- MCFinds
  Payer <- MCPayer
  Before <- MCBefore
  OneZone <- MCOneZone
  Handlers = {h1, h2}
  Shared = Shared
  Nobody = Nobody
SPECIFICATION FairSpec
INVARIANTS CreditedOnce BooksAgree ResolvedGivenOut
PROPERTIES C2BReceiptSpec Decided
CHECK_DEADLOCK FALSE
