SPECIFICATION Spec
CONSTANTS
  PingTimeout = 50
  QuoteRecvTimeout = 1
  PingInterval = 20
  NetDelay = 4
  Lag = 1
  MaxLost = 1
  QuoteGap = 4
INVARIANTS Survives Silent
PROPERTIES CutAfterGone
