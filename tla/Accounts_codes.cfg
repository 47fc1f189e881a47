SPECIFICATION Spec
CONSTANTS
  Emails = {e1}
  Handlers = {h1, h2}
  None = None
  MaxSeconds = 2
  MaxMails = 3
  MaxSessions = 2
  MaxCalls = 4
  MaxFaults = 1
SYMMETRY Alike
INVARIANT NewestCodeStands
INVARIANT CodeUsedOnce
INVARIANT OneMailPerWindow
INVARIANT LogoutIsItsOwn
CHECK_DEADLOCK FALSE
