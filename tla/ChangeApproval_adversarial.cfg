SPECIFICATION Spec
CONSTANTS
  u1 = u1
  u2 = u2
  p1 = p1
  p2 = p2
  a1 = a1
  a2 = a2
  b1 = b1
  b2 = b2
  None = None
  Users = {u1}
  Projects = {p1}
  Requests = {a1}
  OwnerOf <- OwnerHere
  ProjectOf <- TargetHere
  Conflicts <- ClashesHere
  ChanCap = 1
  MaxApprovals = 2
  MaxFaults = 1
  MaxCrashes = 1
  Discipline = {}
  World = {"keyspaceEvents", "refusals", "ttl"}
CHECK_DEADLOCK FALSE
INVARIANT TypeOK
INVARIANT OneExecutionPerApproval
INVARIANT ExecutionsAreApproved
PROPERTY ImplementsLedger
