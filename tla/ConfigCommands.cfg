CONSTANTS
  Identity = {k1, k2}
  MaxUpdates = 1
  MaxMessages = 2
  Faults = {"throws", "deferred", "unavailable"}
SPECIFICATION Spec
INVARIANTS
  TokensAreKept
  NewRunsSeeUpdates
PROPERTIES
  UpdatesAreNotUndone
  TurnKeepsItsConfiguration
CHECK_DEADLOCK FALSE
