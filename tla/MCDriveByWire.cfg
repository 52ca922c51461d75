SPECIFICATION Spec
CONSTANTS
  JoyTimeout = 2
  Period = 1
  Latency = 1
  ModuleTimeout = 3
  Depth = 2
  MaxTime = 9
INVARIANTS
  FollowedIsRecent
  ReleaseStops
  NoNuisanceTimeout
  SilenceStops
  WireInvariant
