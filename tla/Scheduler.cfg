SPECIFICATION FairSpec
CONSTANTS
  a = a
  b = b
  w = w
  Registry <- MCRegistry
  Walked <- MCWalked
  Audited <- MCAudited
  Broken <- MCBroken
  Pages = 1
  Interval = 3
  Nightly = 3
  Cooldown = 3
  Backoff = 2
  MaxClicks = 1
  MaxFaults = 1
PROPERTIES
  NoUnitStarves
  OperatorHeard
  OperatorStands
  SweepsGoOn
CHECK_DEADLOCK FALSE
