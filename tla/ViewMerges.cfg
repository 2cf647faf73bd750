SPECIFICATION Spec
CONSTANTS
  Sides = 3
  Id = {1, 2, 3}
  Entity = {"change"}
  Line = {"trunk", "release"}
  InitLine = "trunk"
  Principal = {1, 2}
  Target = {"prod"}
  Scope = {"all"}
  Campaign <- AllParts
INVARIANT OneSideYields
INVARIANT ConcurrentMovesKept
 
CHECK_DEADLOCK FALSE
