SPECIFICATION FairSpec
CONSTANTS
  Members = {m1, m2}
  Household = hh
  MaxSyncPeers = 1
  DrainLimit = 1
  MaxWrites = 1
  MaxFaults = 0
PROPERTIES
  HalvesAgree
CHECK_DEADLOCK FALSE
