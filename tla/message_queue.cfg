SPECIFICATION MCSpec
CONSTANTS
  None = None
  Session = {s1, s2}
  Tick = {t1, t2}
  Situations = {"disturbed", "restart", "full", "two"}
  QueueLimit = 2
  SessionLimit = 1
  MaxItems = 3
  MaxActs = 1
  MaxLost = 1
  MaxReruns = 1
  MaxGaps = 1
  MaxCrashes = 1
INVARIANTS
  SentOnce
  TakenBackStaysBack
  ToldTheTruth
  Watched
PROPERTIES
  InOrder
  NotIntoATurn
CHECK_DEADLOCK FALSE
