SPECIFICATION FairSpec
CONSTANTS
  p1 = p1
  p2 = p2
  Parents <- MCOnlyParent
  Kids <- MCOnlyKid
  StepBudget = 1
  MaxChanges = 1
  MaxFaults = 0
  MaxNotices = 0
PROPERTIES
  StalenessIsBounded
CHECK_DEADLOCK FALSE
