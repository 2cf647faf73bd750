SPECIFICATION Spec
CONSTANTS
  Workspace = {root, a, b}
  Root = root
  Path = {p, q}
  Key = {}
  Plays <- PairPasses
  MaxRev = 6
  MaxEdit = 3
PROPERTY TrunkNeverGoesBack
CHECK_DEADLOCK FALSE
