SPECIFICATION FairResourcesSpec
CONSTANTS
  Models <- OneModel
  MaxSession = 2
  MaxOwner = 2
  MaxOutbox = 1
  MaxToken = 3
INVARIANTS
  NoGhostTranslation
PROPERTY
  DeadRecordsGo
CHECK_DEADLOCK FALSE
