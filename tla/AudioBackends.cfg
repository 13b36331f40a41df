SPECIFICATION FairSpec
CONSTANTS
  Capacity = 2
  Limits <- MCLimits
  Targets = {"application", "default"}
  Ids = {1, 2}
INVARIANTS SplicesAreVisible
PROPERTIES BackendPromise CallsReturn SourceIsCaptured
CHECK_DEADLOCK FALSE
