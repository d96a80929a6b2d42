CONSTANTS
  Phase = {"plan", "work"}
  First = "plan"
  Configuration = {{"plan", "work"}, {"work", "stop"}, {"plan", "compact"}, {"work", "compact"}}
  MaxAttempts = 2
SPECIFICATION Spec
INVARIANTS
  PhaseSeesItsInput
  ResumedRunsDoNotRedispatch
PROPERTIES
  CirclesReachTheHuman
CHECK_DEADLOCK FALSE
