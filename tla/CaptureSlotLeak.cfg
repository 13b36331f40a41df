SPECIFICATION Spec
CONSTANTS
  MaxSession = 2
  MaxWorker = 6
  MaxRevision = 30
  MaxStops = 0
  Scenarios <- RecognizerFails
INVARIANTS
  SlotBelongsToActive
CHECK_DEADLOCK FALSE
