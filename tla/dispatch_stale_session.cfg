SPECIFICATION Spec
CONSTANTS
  None = None
  Session = {s1, s2}
  MaxConcurrent = 1
  MaxAttempts = 1
  CheckRetries = 1
  MergeRetries = 1
  Automation = "plan"
  CardId = {c1}
  Pass = {p1}
  MaxActs = 0
  MaxExpiries = 0
  MaxCrashes = 0
PROPERTY
  CheckedWhenOwnWorkerStops
CHECK_DEADLOCK FALSE
