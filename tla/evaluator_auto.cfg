SPECIFICATION Spec
CONSTANTS
  None = None
  Session = {}
  MaxConcurrent = 1
  MaxAttempts = 1
  CheckRetries = 1
  MergeRetries = 1
  Automation = "auto"
  CardId = {c1}
  Call = {i1, i2, i3}
  MaxEdits = 2
  MaxActs = 4
  MaxCrashes = 1
INVARIANTS
  OnlyCrashStrands
PROPERTIES
  PlanStands
  QueuedByPlan
  EvaluationSettles
  RetriesDryUp
CHECK_DEADLOCK FALSE
