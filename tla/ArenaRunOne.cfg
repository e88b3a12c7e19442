CONSTANTS
  c1 = c1
  c2 = c2
  Order <- One
  Limit = 2
  StopAfter = 0
  MaxCall = 2
  MaxCrash = 1
  Trouble <- AnyTrouble
SPECIFICATION FairSpec
CHECK_DEADLOCK FALSE
INVARIANTS TypeOK ApprovalSound
PROPERTIES CheckpointsAdvance FinishedUsageStays ConcludedStays RunSettles
