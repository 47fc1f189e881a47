SPECIFICATION Spec
CONSTANTS
  Members = {m1, m2}
  FolderIds = {1, 2, 3, 4, 5}
  TempIds = {9}
  Root = 7
  None = None
  Names <- NewNames
  Batches <- SmallBatches
  InitialTree <- SmallTree
  Cached = {1, 2}
  FirstId = 4
  OtherRows <- FileAndCall
  MaxRequests = 2
  MaxFaults = 1
SYMMETRY Symmetry
CHECK_DEADLOCK FALSE
INVARIANT TypeOK
INVARIANT AtMostOneFather
INVARIANT TreeSurvives
INVARIANT CacheAgrees
PROPERTY ImplementsAtomicBatches
