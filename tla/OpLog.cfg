SPECIFICATION Spec
CONSTANTS
  Replica = {"r1", "r2", "r3"}
  Principal = {1, 2, 3}
  Owner = 1
  Host <- HostThree
  Key = {"k1", "k2"}
  Id <- OpIds
  Entity = {"e"}
  Change = {}
  Line = {"trunk"}
  Target = {}
  Scope = {"all"}
  Repertoire <- Kinds
  MaxOp = 4
INVARIANT NewVersionsAccounted
INVARIANT NewestLandingKept
INVARIANT HeadsAreFrontier
INVARIANT Converged
INVARIANT ReopenRestores
INVARIANT OneOpPerKey
PROPERTY RevocationHolds
CHECK_DEADLOCK FALSE
