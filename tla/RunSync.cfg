CONSTANTS
  Call = {c1, c2}
  Branch = {b1, b2}
  NoContext = NoContext
  MaxAwaits = 2
  MayFail = TRUE
  AwaitsDirty = FALSE
SPECIFICATION FairSpec
INVARIANTS
  IInv
  ReturnsWhenDone
  NothingStranded
PROPERTIES
  EveryCallReturns
