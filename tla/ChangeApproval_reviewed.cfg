SPECIFICATION FairSpec
CONSTANTS
  u1 = u1
  u2 = u2
  p1 = p1
  p2 = p2
  a1 = a1
  a2 = a2
  b1 = b1
  b2 = b2
  None = None
  Users = {u1, u2}
  Projects = {p1, p2}
  Requests = {a1, a2, b1, b2}
  OwnerOf <- OwnerHere
  ProjectOf <- TargetHere
  Conflicts <- ClashesHere
  ChanCap = 4
  MaxApprovals = 4
  MaxFaults = 0
  MaxCrashes = 0
  Discipline = {"oneOpenRequest", "serialSubmit", "listedOnly", "oneVerdict"}
  World = {}
CHECK_DEADLOCK FALSE
INVARIANT NoConflictingPairWaits
INVARIANT ExecutesWhatWasReviewed
PROPERTY ApprovedIsExecuted
