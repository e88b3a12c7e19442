CONSTANTS
  p1 = p1
  p2 = p2
  f1 = f1
  f2 = f2
  k1 = k1
  k2 = k2
  Patched = {p1, p2}
  Fresh = {f1, f2}
  Token = {k1}
  MaxEdit = 3
  MaxCrash = 2
  MaxFault = 1
  QuietPc <- WriteWindows
SPECIFICATION Spec
CHECK_DEADLOCK FALSE
SYMMETRY Paths
PROPERTIES UserBytesKept
