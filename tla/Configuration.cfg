SPECIFICATION MCSpec
CONSTANTS
  Configs <- MCConfigs
  Default = "default"
  Migrated = "migrated"
  NoConfig = "none"
  Launches <- MCLaunches
  MaxRevision = 5
  MaxFaults = 2
  WebViews = {main, appearance}
  Changes = {c1, c2}
  Native = {m1}
  MayFail = TRUE
INVARIANTS
  ViewsAgree
PROPERTIES
  ImplementsStore
  LaunchSucceeds
  NothingIsOverwritten
CHECK_DEADLOCK FALSE
