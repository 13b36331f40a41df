SPECIFICATION FairSpec
CONSTANTS
  MaxSession = 2
  MaxWorker = 6
  MaxRevision = 24
  Scenarios <- MCScenarios
INVARIANTS
  TextBelongsToTheActive
  VisualReleasedIsQuiet
  LinuxOverlayIsHidden
PROPERTIES
  EndingVisualSessionIsReleased
  
CHECK_DEADLOCK FALSE
