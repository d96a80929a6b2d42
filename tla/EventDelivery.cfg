CONSTANTS
  MaxRuns = 2
  Interactions = {i1}
  MaxEvents = 3
  Consumer = {c1}
  Reporter = {}
  MaxRestarts = 1
  Observed = 1
  MaxBuffered = 1
SPECIFICATION Spec
INVARIANTS
  NothingSkipped
  CaughtUpMeansHandled
  CursorsSurvive
  ObserverSeesTheLog
PROPERTIES
  RedeliversOnlyLast
  EveryEventHandled
  ObservationEnds
CHECK_DEADLOCK FALSE
