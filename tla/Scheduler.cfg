CONSTANTS
  Agent = {a1, a2}
  MaxRuns = 2
  Concurrency = 1
  MaxEpochs = 1
  MaxRevision = 3
  Suspendable = {1}
  Deferrable = {1}
  Cancellable = {1}
SPECIFICATION Spec
INVARIANTS
  NoStrandedRun
  AttemptHasExecutor
  OneExecutionPerAgent
PROPERTIES
  ClaimedCancelEnds
  FirstInLineServed
CHECK_DEADLOCK FALSE
