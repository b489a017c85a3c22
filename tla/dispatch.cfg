SPECIFICATION MCSpec
CONSTANTS
  None = None
  Session = {s1, s2}
  MaxConcurrent = 1
  MaxAttempts = 1
  CheckRetries = 1
  MergeRetries = 1
  Automation = "plan"
  CardId = {c1, c2, c3}
  Pass = {p1, p2}
  MaxActs = 2
  MaxExpiries = 1
  MaxCrashes = 1
INVARIANTS
  CapacityBound
  NoTwinSpawn
  NoOrphanWorker
  FreshBranch
  ResumesWithinBudget
PROPERTIES
  ImplementsColumns
  RequeuesWithinBudget
  QueueDrains
  ClaimsSettle
CHECK_DEADLOCK FALSE
