CONSTANTS
  Client = {c1, c2}
  MaxMade = 4
  MaxBatch = 2
  Interval = 2
  Expect = TRUE
  UseSnapshots = FALSE
  StorePublishes = TRUE
  RepoPublishes = FALSE
  MayFail = FALSE
SPECIFICATION Spec
SYMMETRY Symmetry
INVARIANTS
  HistoryIsContiguous
