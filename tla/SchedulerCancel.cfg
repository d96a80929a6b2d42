CONSTANTS
  Agent = {a1, a2}
  MaxRuns = 1
  Concurrency = 1
  MaxEpochs = 0
  MaxRevision = 3
  Suspendable = {1}
  Deferrable = {1}
  Cancellable = {1}
SPECIFICATION Spec
PROPERTIES
  CancelTerminates
CHECK_DEADLOCK FALSE
