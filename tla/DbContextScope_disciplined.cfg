CONSTANTS
  Flow = {f1, f2}
  MainFlow = f1
  Scope = {s1, s2}
  CtxType = {t1, t2}
  NoFlow = NoFlow
  NoScope = NoScope
  MaxHeld = 3
  SuppressBeforeFork = TRUE
  UsingBlocks = TRUE
SPECIFICATION Spec
SYMMETRY Symmetry
INVARIANTS
  TypeOK
  AmbientIsInnermost
  ContextsStayInTheirFlow
  OpenScopeHasContexts
  TrackedIsNotDisposed
PROPERTIES
  ImplementsTransaction
