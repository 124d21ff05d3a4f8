SPECIFICATION PanelsSpec
CONSTANTS
  MaxOps = 4
  MaxAtOnce = 1
  MaxWorkers = 3
  Loops = {l1, l2}
  None = None
  MaxMessages = 3
  MaxDisconnects = 2
CHECK_DEADLOCK FALSE
INVARIANTS LighthouseGivesBack
PROPERTIES LighthouseCancelReturns CoveragePolls WhatWaitsIsSeenTo SocketIsChannel
