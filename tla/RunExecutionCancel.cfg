CONSTANTS
  Caller = {"phase", "provider"}
  Bridged = {"provider"}
  BatchSize = 2
  MaxReports = 1
SPECIFICATION Spec
INVARIANTS
  CancelLeavesNoOrphan
CHECK_DEADLOCK FALSE
