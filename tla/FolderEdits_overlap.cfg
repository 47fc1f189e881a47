SPECIFICATION Spec
CONSTANTS
  u1 = u1
  u2 = u2
  p1 = p1
  p2 = p2
  h1 = h1
  h2 = h2
  Users = {u1, u2}
  Projects = {p1, p2}
  Handlers = {h1, h2}
  None = None
  Menu <- Everything
  MaxCalls = 4
  MaxFaults = 1
  FolderIds = {1, 2, 3, 4}
  FileIds = {2, 3}
  InitialHome <- Homes
  InitialFiles <- Registered
  InitialMounts <- Tree
  InitialOwner <- Owners
  InitialMembers <- Members
SYMMETRY Symmetry
CHECK_DEADLOCK FALSE
INVARIANT FoldersKeepAPlace
 
INVARIANT RevivedWereContested
INVARIANT OwnerKeepsRole
