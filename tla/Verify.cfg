SPECIFICATION Spec
CONSTANTS
  Caller = {c1, c2}
  c1 = c1
  c2 = c2
  s1 = s1  s2 = s2  s3 = s3  human = human  owner = owner  a1 = a1  a2 = a2
  Nobody = Nobody
  Human = human
  Owner = owner
  Author = s1
  Def <- MCDef
  KindOf <- MCKindOf
  ParentOf <- MCParentOf
  ModelOf <- MCModelOf
  Order <- MCOrder
  Tools <- MCTools
  Standards <- MCStandards
  Start <- MCStart
  Edits <- MCEdits
  Base <- MCBase
  HandMade <- MCHandMade
  MaxRevs = 4
  Full <- MCFull
  Contents <- MCContents
  MaxByHand = 1
  MaxEdits = 1
INVARIANT RecordedIsSo
 
INVARIANT ApprovedIsThisContent
PROPERTY LandedUnitsWereTested
 
 
CHECK_DEADLOCK FALSE
