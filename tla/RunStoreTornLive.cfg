SPECIFICATION Spec
CONSTANTS
  Update = {u1, u2}
  LiveFault <- ShortWrites
INVARIANT AckedReadable
