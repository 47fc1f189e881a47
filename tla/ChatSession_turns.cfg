SPECIFICATION Spec
CONSTANTS
  Requests = {r1, r2, r3}
  Sessions = {s1}
  None = None
  MaxAtOnce = 2
  MaxHistory = 4
  MaxFaults = 1
  MaxRestarts = 1
SYMMETRY Symmetry
CHECK_DEADLOCK FALSE
INVARIANT StoredOnce
INVARIANT AnsweredIsStored
INVARIANT PromptIsComplete
PROPERTY ImplementsConversations
