SPECIFICATION FairSpec
CONSTANTS
  None = None
  Session = {s1}
  Tick = {t1}
  QueueLimit = 1
  SessionLimit = 1
  MaxItems = 1
  MaxActs = 1
  MaxLost = 0
  MaxReruns = 0
  MaxGaps = 0
  MaxCrashes = 0
PROPERTIES
  HoldsExpire
CHECK_DEADLOCK FALSE
