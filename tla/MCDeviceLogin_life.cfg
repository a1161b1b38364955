CONSTANTS
  Macs = {m1, m2}
  AccountMac = m1
  LimitOf <- Limits
  Phones = {p1}
  Handlers = {h1, h2}
  Servers = {s1, s2}
  Job = job
  None = None
  Scenes = {"rivals", "rounds", "trials"}
  MaxPlans = 2
  MaxTrials = 3
  MaxCrashes = 1
SPECIFICATION FairSpec
INVARIANTS TrialOnce
PROPERTIES AtMostLimit FollowsPlan
CHECK_DEADLOCK FALSE
