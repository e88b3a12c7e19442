CONSTANTS
  w1 = w1
  w2 = w2
  r1 = r1
  r2 = r2
  plain = plain
  strict = strict
  Workspace = {w1, w2}
  Run = {r1, r2}
  Doc = {plain, strict}
  Template = plain
  Untrusted = {}
  Unmet = {strict}
  Required = FALSE
  Found = {plain}
  Earlier = {r1}
  Recent = w1
  Absent = Absent
  Broken = Broken
  None = None
  MaxInput = 3
  MaxFault = 1
SPECIFICATION MCSpec
CHECK_DEADLOCK FALSE
INVARIANTS TypeOK AdmittedUnderBase EditorIsOfTarget StartedStaysSelected
PROPERTIES OverwritesOnlyReported ShownSettles
