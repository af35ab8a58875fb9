CONSTANTS
  Flow = {f1, f2}
  MainFlow = f1
  Scope = {s1, s2}
  CtxType = {t1, t2}
  NoFlow = NoFlow
  NoScope = NoScope
  MaxHeld = 2
  SuppressBeforeFork = FALSE
  UsingBlocks = FALSE
SPECIFICATION Spec
SYMMETRY Symmetry
INVARIANTS
  NoWriterOnReadOnlyContexts
  ReadOnlyNeverSaves
  IInv
PROPERTIES
  FinishedIsFinal
