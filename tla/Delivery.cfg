SPECIFICATION Spec
CONSTANTS
  Target = {t1}
  Owner = Owner
  Session = Session
  Gap = 500
  Walk = 200
  MaxTrunk = 2
  Limits <- MCLimits
INVARIANT RunsWhatIsNamed
INVARIANT ChangelogsCover
