CONSTANTS
  Caller = {"phase", "provider"}
  Bridged = {"provider"}
  BatchSize = 2
  MaxReports = 1
SPECIFICATION Spec
INVARIANTS
  EffectsAreLogged
  AttemptLeavesNoOrphan
  AttemptEndsQuiet
  WaitersCanBeAnswered
PROPERTIES
  EffectsAreNotRepeated
  StopsOnlyForQuestions
  CancelledAttemptEnds
CHECK_DEADLOCK FALSE
