SPECIFICATION Spec
CONSTANTS
  Recs = {1, 2, 3}
  Kinds = {"keyset"}
  PageSize = 2
  Start = 1
  MaxTime = 2
  MaxChanges = 0
  MaxFaults = 1
INVARIANTS
  SecondsReadWhole
CHECK_DEADLOCK FALSE
