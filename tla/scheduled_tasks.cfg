SPECIFICATION MCSpec
CONSTANTS
  None = None
  Server = {A, B}
  Task = {t1, t2}
  Situations = {"servers", "tasks", "both"}
  Kinds = {"cron", "daily", "once"}
  Limit = 1
  MaxClock = 4
  MaxLists = 1
  MaxActs = 1
  MaxManual = 1
  MaxFaults = 2
  MaxCrashes = 1
INVARIANTS
  ClaimedOnce
  Armed
  Served
  ShownRunning
CHECK_DEADLOCK FALSE
