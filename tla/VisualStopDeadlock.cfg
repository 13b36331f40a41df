SPECIFICATION FairSpec
CONSTANTS
  MaxSession = 2
  MaxWorker = 6
  MaxRevision = 24
  Scenarios <- LinuxAtRest
PROPERTY StopIsAcknowledged
CHECK_DEADLOCK FALSE
