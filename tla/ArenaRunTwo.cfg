CONSTANTS
  c1 = c1
  c2 = c2
  Order <- Two
  Limit = 0
  StopAfter = 1
  MaxCall = 0
  MaxCrash = 1
  Trouble = {"user"}
SPECIFICATION Spec
CHECK_DEADLOCK FALSE
INVARIANTS CompletedIsOver
PROPERTIES StoppedStayStopped
