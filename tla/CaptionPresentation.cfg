SPECIFICATION FairCaptionsSpec
CONSTANTS
  MaxSession = 2
  MaxPresentation = 2
  MaxInbox = 1
  Occasions <- MCOccasions
INVARIANTS
  HostAndOverlayAgree
PROPERTIES
  ClearedForGood
  LatestIsShown
CHECK_DEADLOCK FALSE
