SPECIFICATION MCSpec
CONSTANTS
  None = None
  Session = {s1}
  MaxConcurrent = 1
  MaxAttempts = 1
  CheckRetries = 1
  MergeRetries = 1
  Automation = "plan"
  CardId = {c1, c2}
  MaxPrChanges = 1
  MaxRefusals = 1
  MaxActs = 2
  MaxCrashes = 1
PROPERTIES
  LandsOnlyMerged
  ImplementsColumns
  QueueMoves
CHECK_DEADLOCK FALSE
