SPECIFICATION Spec
CONSTANTS
  Cases <- MCHandshake
  Attempts = 3
  Timeout = 7
  Now <- MCNow
  RivalTimes = {}
  MaxDrops = 3
  MaxPause = 3
INVARIANT HandshakeLossTolerated
CHECK_DEADLOCK FALSE
