SPECIFICATION MCSpec
CONSTANTS
  a = "a"
  b = "b"
  Setups <- MCSetups
  Source <- MCSource
  Size <- MCSize
  Places = {1, 2}
  Screens <- MCScreens
  Moving = {}
  Focused = FALSE
  RefreshAge = 2
  MaxSlow = 1
  EventCap = 3
  SinkCap = 1
  Patience = 1
INVARIANTS CacheIsCurrent StoppedIsUnshared RegionIsAsDrawn
PROPERTIES NothingIsReadAfterCancel ReadScreenIsFollowed EndsAreNoticed StillImageArrives
CHECK_DEADLOCK FALSE
