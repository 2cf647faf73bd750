SPECIFICATION Spec
CONSTANTS
  Path = {p, q}
  Main = main
  Branch = {main, side}
  Plays <- Shared
  MaxTrunk = 3
  MaxCommit = 4
  MaxEdit = 3
PROPERTY ImportMerges
CHECK_DEADLOCK FALSE
