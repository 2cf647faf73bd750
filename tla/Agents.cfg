SPECIFICATION Spec
CONSTANTS
  planner = planner
  worker = worker
  Agent = {planner, worker}
  Owner = Owner
  None = None
  Planner = planner
  Worker = worker
  Paths = {"a", "t"}
  Test = "t"
  Assigned <- MCAssigned
  Casts <- MCCasts
  ThrottleAt = 2
  RevokeAt = 4
  Cooldown = 2
  Life = 1
  MaxRevs = 2
  MaxSpaces = 1
CHECK_DEADLOCK FALSE
PROPERTY NoWordAfterRevoke
PROPERTY LandsNothingOfRevoked
PROPERTY DelegatedDiesWithPlanner
INVARIANT ChargedOnce
PROPERTY ThrottleEnds
