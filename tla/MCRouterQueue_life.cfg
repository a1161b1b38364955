CONSTANTS
  Actions = {1, 2}
  Retries = 2
  Batch = 1
  MaxCrashes = 2
  Job = Job
  Nobody = Nobody
SPECIFICATION FairSpec
INVARIANTS HonestRows
PROPERTIES EndedStays EveryActionEnds
CHECK_DEADLOCK FALSE
