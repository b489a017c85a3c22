SPECIFICATION Spec
CONSTANTS
  None = None
  Session = {s1}
  MaxConcurrent = 1
  MaxAttempts = 1
  CheckRetries = 1
  MergeRetries = 1
  Automation = "plan"
  CardId = {c1}
  Pass = {p1}
  MaxActs = 0
  MaxExpiries = 2
  MaxCrashes = 0
PROPERTY
  HeartbeatResetsBudget
CHECK_DEADLOCK FALSE
