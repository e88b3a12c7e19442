SPECIFICATION FairSpec
CONSTANTS
  Update = {u1, u2, u3}
  LiveFault <- CleanFaults
INVARIANTS
  TypeOK
  RestartSeesCurrent
  AckedReadable
  ProjectionBehindLog
PROPERTIES
  UpdatesSettle
  ImplementsDurableRun
