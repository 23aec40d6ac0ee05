SPECIFICATION Spec
CONSTANTS
  hidraw0 = hidraw0
  hidraw1 = hidraw1
  hidraw2 = hidraw2
  NoPath = NoPath
  Paths <- ThreePaths
  KeepAliveDelta = 1
  KeepAliveTimeout = 3
  MaxPlugs = 6
INVARIANTS TypeOK HandleFollowsTracker
PROPERTIES KeptAlive Reopens
