CONSTANTS
  Worker = {w1, w2}
  Message = {m1, m2}
  MaxTime = 10
  Horizon = 4
  MaxDelay = 3
  Grace = 1
  MaxInt = 3
  Early = 0
  Late = 1
  SlowUntil = 3
  Batch = 1
  MayFail = FALSE
SPECIFICATION FairSpec
PROPERTIES
  EveryMessageIsSent
CHECK_DEADLOCK FALSE
