SPECIFICATION Spec
CONSTANTS
  Workspace = {root, a, b}
  Root = root
  Path = {p, q}
  Key = {k}
  Plays <- All
  MaxRev = 6
  MaxEdit = 3
INVARIANT ProposalsAreOpen
INVARIANT WorkspaceIsAtTip
PROPERTY OneAttemptPerPass
PROPERTY SerialTrunk
PROPERTY LandedIsImmutable
PROPERTY RevertKeepsTheRest
CHECK_DEADLOCK FALSE
