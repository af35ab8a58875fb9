CONSTANTS
  Request = {r1, r2, r3}
  Seed = seed
  Truncated = truncated
  FirstId = 49
  LastId = 51
  Now = {1, 2}
SPECIFICATION Spec
SYMMETRY Symmetry
CHECK_DEADLOCK FALSE
INVARIANTS
  IInv
  VersionsHaveNoGap
  RecordedFileIsTheOneUploaded
  GarbageIsExplained
  NoAnsweredVersionIsLost
  StateIsTheOneAskedFor
