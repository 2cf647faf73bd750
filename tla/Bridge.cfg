SPECIFICATION Spec
CONSTANTS
  Path = {p, q}
  Main = main
  Branch = {main, side}
  Plays <- All
  MaxTrunk = 3
  MaxCommit = 4
  MaxEdit = 3
PROPERTY ExportIsExact
PROPERTY FollowsFiles
INVARIANT LandsOnce
 
CHECK_DEADLOCK FALSE
