CONSTANTS
  c1 = c1
  c2 = c2
  Order <- One
  Limit = 2
  StopAfter = 0
  MaxCall = 2
  MaxCrash = 1
  Trouble <- AnyTrouble
SPECIFICATION Spec
CHECK_DEADLOCK FALSE
PROPERTIES TerminalIsFinal
