CONSTANTS
  None = None
  Payments = {1, 2, 3, 4}
  PhoneOf <- Phone
  DeviceOf <- Device
  EntryOf <- Entry
  Askers = {"poll", "job"}
  Scenarios <- Worst
SPECIFICATION FairSpec
INVARIANTS GrantedOncePaid PatientWithPrompt OneOpenPrompt
PROPERTIES StkReceiptSpec PaidCompletes PendingEnds
CHECK_DEADLOCK FALSE
