CONSTANTS
  Worker = {w1, w2, w3}
  Message = {m1, m2}
  MaxTime = 8
  Horizon = 3
  MaxDelay = 3
  Grace = 1
  MaxInt = 3
  Early = 0
  Late = 1
  SlowUntil = 2
  Batch = 1
  MayFail = TRUE
SPECIFICATION FairSpec
INVARIANTS
  IInv
  PublishedAtMostOnce
  NotBeforeItsTime
  NoneDropped
  PendingHasWakeUp
PROPERTIES
  SentUnlessIgnored
  ImplementsDelivery
CHECK_DEADLOCK FALSE
