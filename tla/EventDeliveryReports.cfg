CONSTANTS
  MaxRuns = 2
  Interactions = {i1, i2}
  MaxEvents = 5
  Consumer = {reports}
  Reporter = {reports}
  MaxRestarts = 0
  Observed = 1
  MaxBuffered = 1
SPECIFICATION Spec
INVARIANTS
  ReportFindsItsRun
CHECK_DEADLOCK FALSE
