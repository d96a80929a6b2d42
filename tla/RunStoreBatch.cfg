CONSTANTS
  Agent = {a1}
  ToolCallId = {t1, t2, t3}
  InteractionId = {i1, i2}
  MaxRuns = 1
  MaxAttempts = 2
  MaxEpoch = 2
SPECIFICATION Spec
INVARIANTS
  InputRequiredIffOpen
  InProgressOwned
  SuspendedToolsResumable
PROPERTIES
  EndedRunsStay
  SettledToolCallsStay
  UnknownEffectsReported
SYMMETRY Symmetry
CHECK_DEADLOCK FALSE
