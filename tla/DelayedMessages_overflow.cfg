CONSTANTS
  Worker = {w1, w2}
  Message = {m1, m2}
  MaxTime = 10
  Horizon = 4
  MaxDelay = 3
  Grace = 1
  MaxInt = 2
  Early = 0
  Late = 1
  SlowUntil = 0
  Batch = 1
  MayFail = FALSE
SPECIFICATION FairSpec
PROPERTIES
  EveryMessageIsSent
CHECK_DEADLOCK FALSE
