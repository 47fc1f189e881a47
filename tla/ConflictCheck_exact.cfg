SPECIFICATION Spec
CONSTANTS
  Members = {m1, m2}
  FolderIds = {1, 2}
  TempIds = {3}
  Batches <- SmallBatches
  MaxWaiting = 3
SYMMETRY Symmetry
INVARIANT WaitingAreCompatible
INVARIANT ReplyIsExact
