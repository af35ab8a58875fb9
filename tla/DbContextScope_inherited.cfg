CONSTANTS
  Flow = {f1, f2}
  MainFlow = f1
  Scope = {s1, s2}
  CtxType = {t1}
  NoFlow = NoFlow
  NoScope = NoScope
  MaxHeld = 2
  SuppressBeforeFork = FALSE
  UsingBlocks = TRUE
SPECIFICATION FairSpec
INVARIANTS
  InOrderDisposeNeverThrows
PROPERTIES
  EveryScopeCloses
