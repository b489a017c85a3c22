SPECIFICATION FairSpec
CONSTANTS
  None = None
  Limit = 2
  MaxPrompts = 1
  MaxActs = 2
  MaxUnheard = 3
  MaxFaults = 2
  MaxCrashes = 1
INVARIANTS
  Capped
  NeverBlind
  Watched
PROPERTIES
  NotIntoATurn
  OwnGoal
  StopHolds
  GoalEnds
CHECK_DEADLOCK FALSE
