CONSTANTS
  p1 = p1
  p2 = p2
  f1 = f1
  f2 = f2
  k1 = k1
  k2 = k2
  Patched = {p1, p2}
  Fresh = {f1, f2}
  Token = {k1, k2}
  MaxEdit = 2
  MaxCrash = 1
  MaxFault = 1
  QuietPc <- NeverQuiet
SPECIFICATION Spec
CHECK_DEADLOCK FALSE
INVARIANTS TypeOK WriteAheadCovers CommittedWhole
PROPERTIES TransactionsResolve
