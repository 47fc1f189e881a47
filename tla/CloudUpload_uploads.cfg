SPECIFICATION Spec
CONSTANTS
  Users = {u1, u2}
  Admins = {a1, a2}
  Files = {f1}
  Handlers = {h1, h2}
  None = None
  Days = {1, 2}
  MaxApprovals = 2
  MaxPuts = 2
  MaxCalls = 6
  MaxFaults = 1
SYMMETRY Symmetry
CHECK_DEADLOCK FALSE
INVARIANT OneApprovalWaits
INVARIANT SecondRowIsContested
INVARIANT CompletedUploadsAreServed
PROPERTY DecisionsStand
