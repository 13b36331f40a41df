SPECIFICATION FairSpec
CONSTANTS
  Artifacts <- TwoFiles
  MaxStamp = 5
  MaxFaults = 2
INVARIANTS
  MarkerVouchesForGoodFiles
  SessionsLoadVerifiedFiles
  ReadyIsInstalled
PROPERTY RetriesSucceed
CHECK_DEADLOCK FALSE
