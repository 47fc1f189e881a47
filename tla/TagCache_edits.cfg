SPECIFICATION TagSpec
CONSTANTS
  Tags = {t1}
  Folders = {f1}
  Handlers = {h1, h2, h3}
  None = None
  MaxCalls = 5
  MaxFaults = 1
CHECK_DEADLOCK FALSE
INVARIANT EntriesAreCurrent
PROPERTY StaleEntriesEnd
