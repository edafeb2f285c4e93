SPECIFICATION FairSpec
CONSTANTS
  p1 = p1
  p2 = p2
  Parents <- MCParents
  Kids <- MCKids
  StepBudget = 1
  MaxChanges = 2
  MaxFaults = 1
  MaxNotices = 1
INVARIANTS
  WalkedIsWhole
PROPERTIES
  CatchesUp
CHECK_DEADLOCK FALSE
