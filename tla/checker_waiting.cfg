SPECIFICATION FairSpec
CONSTANTS
  None = None
  Session = {s1}
  MaxConcurrent = 1
  MaxAttempts = 1
  CheckRetries = 1
  MergeRetries = 1
  Automation = "plan"
  CardId = {c1}
  WaitingTimeout = 2
  MaxSkips = 0
  MaxPrChanges = 1
  MaxActs = 0
  MaxRelaunches = 0
  MaxCrashes = 0
PROPERTIES
  WaitingIsFinite
CHECK_DEADLOCK FALSE
