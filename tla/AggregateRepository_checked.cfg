CONSTANTS
  Client = {c1, c2, c3}
  MaxMade = 4
  MaxBatch = 2
  Interval = 2
  Expect = TRUE
  UseSnapshots = TRUE
  StorePublishes = FALSE
  RepoPublishes = TRUE
  MayFail = TRUE
SPECIFICATION Spec
SYMMETRY Symmetry
INVARIANTS
  IInv
  HistoryIsContiguous
  NoLostUpdate
  SnapshotAgrees
  ToldOnceAndStored
PROPERTIES
  ImplementsLog
