CONSTANTS
  MaxRuns = 1
  Interactions = {i1}
  MaxEvents = 3
  Consumer = {c1}
  Reporter = {}
  MaxRestarts = 0
  Observed = 1
  MaxBuffered = 1
SPECIFICATION Spec
INVARIANTS
  ReplaysEveryEvent
CHECK_DEADLOCK FALSE
