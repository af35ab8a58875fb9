CONSTANTS
  Thread = {t1, t2}
  Flow = {f1, f2}
  Away = away
  NoStack = none
  MaxUnits = 4
SPECIFICATION Spec
SYMMETRY Symmetry
CHECK_DEADLOCK FALSE
INVARIANTS
  IInv
  OpenUnitHasLiveContext
  ContextsAreNotShared
  InOrderUseIsNeverRefused
  NoContextIsLeftBehind
