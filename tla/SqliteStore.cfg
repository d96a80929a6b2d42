CONSTANTS
  Instance = {s1, s2}
  Run = {r1, r2}
  MaxEpoch = 2
SPECIFICATION Spec
INVARIANTS
  ToldIsDurable
  EarlierOwnersLeaveNothing
CHECK_DEADLOCK FALSE
