SPECIFICATION Spec
CONSTANTS
  Caller = {"a", "b"}
  Torn = Torn
  MaxTry = 4
  MaxCrash = 2
  MaxFail = 1
CHECK_DEADLOCK FALSE
INVARIANT NothingDangles
