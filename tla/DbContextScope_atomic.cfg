CONSTANTS
  Flow = {f1}
  MainFlow = f1
  Scope = {s1, s2}
  CtxType = {t1, t2}
  NoFlow = NoFlow
  NoScope = NoScope
  MaxHeld = 2
  SuppressBeforeFork = TRUE
  UsingBlocks = TRUE
SPECIFICATION Spec
PROPERTIES
  CommittedAtomically
