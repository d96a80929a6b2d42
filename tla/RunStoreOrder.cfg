CONSTANTS
  Agent = {a1}
  ToolCallId = {}
  InteractionId = {i1, i2}
  MaxRuns = 3
  MaxAttempts = 2
  MaxEpoch = 2
SPECIFICATION Spec
INVARIANTS
  FenceNamesNewestAttempt
  OneAttemptPerAgent
  StartedInOrder
  RetriedOnlyFromCheckpoint
PROPERTIES
  TakeoverEndsAttempts
  ImplementsAgentQueue
SYMMETRY Symmetry
CHECK_DEADLOCK FALSE
