SPECIFICATION Spec
CONSTANTS
  Folders = {f1}
  Handlers = {h1, h2}
  None = None
  RootID = 1
  ComparesDurability = FALSE
  MaxCalls = 3
  MaxFaults = 1
SYMMETRY Alike
CHECK_DEADLOCK FALSE
INVARIANT EditsAreCounted
INVARIANT CopyIsCurrent
INVARIANT EntryIsCurrent
