CONSTANTS
  Candidates = {c1}
  MaxStarts = 2
  MaxStops = 2
  None = None
SPECIFICATION FairSpec
CHECK_DEADLOCK FALSE
INVARIANTS TypeOK SettledIsReclaimed LiveIsReachable DisposeMissesOnlyUnspawned
PROPERTIES CallsReturn ExitIsNoticed
