SPECIFICATION Spec
CONSTANTS
  Update = {u1, u2, u3}
  LiveFault <- AllFaults
INVARIANT NoSilentLoss
