SPECIFICATION MCSpec
CONSTANTS
  None = None
  Session = {s1, s2}
  MaxConcurrent = 1
  MaxAttempts = 1
  CheckRetries = 1
  MergeRetries = 1
  Automation = "plan"
  CardId = {c1}
  WaitingTimeout = 1
  MaxSkips = 1
  MaxPrChanges = 1
  MaxActs = 1
  MaxRelaunches = 1
  MaxCrashes = 1
INVARIANTS
  TypeOK
  NudgesBounded
PROPERTIES
  NudgingEnds
  AdvancesOnlyWork
  PassNeedsPr
  FirstLaunchIsReviewed
CHECK_DEADLOCK FALSE
