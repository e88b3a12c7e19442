CONSTANTS
  r1 = r1
  r2 = r2
  Run = {r1, r2}
  User = User
  Edits = {r1, r2}
  Adds = {r1, r2}
  MaxRuns = 1
  MaxCalls = 2
  MaxTrouble = 2
SPECIFICATION MCSpec
CHECK_DEADLOCK FALSE
INVARIANTS TypeOK LimitKept OneWriter CleanedIsGone CommitsApart ActiveIsOwned
PROPERTIES RunsSettle ServiceSettles
