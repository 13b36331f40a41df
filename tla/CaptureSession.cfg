SPECIFICATION FairSpec
CONSTANTS
  MaxSession = 3
  MaxWorker = 9
  MaxRevision = 30
  MaxStops = 1
  Scenarios <- MCScenarios
INVARIANTS
  ReleasedMeansQuiet
  StartupHoldsTheSession
PROPERTIES
  EndingSessionIsReleased
  StartReturns
CHECK_DEADLOCK FALSE
