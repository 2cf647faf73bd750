SPECIFICATION Spec
CONSTANTS
  Key <- MCKey
  Version = {1, 2}
  Member = Member
  Writes <- MCWrites
  MaxJoin = 2
INVARIANT CanonicalForm
PROPERTY IsAMap
CHECK_DEADLOCK FALSE
