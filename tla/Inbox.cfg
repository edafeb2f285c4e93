SPECIFICATION FairSpec
CONSTANTS
  thin = thin
  merge = merge
  other = other
  poison = poison
  d1 = d1
  d2 = d2
  Events <- MCEvents
  Unmirrored = {other}
  Thin = {thin}
  Mergers = {merge}
  Refreshed = {thin}
  Poison = {poison}
  Deliveries <- MCDeliveries
  Batch <- MCBatch
  Handlers = {h1}
  MaxAttempts = 2
  MaxFaults = 2
  MaxCrashes = 1
  MaxReplays = 1
  NoEvent = NoEvent
  NoDelivery = NoDelivery
INVARIANTS
  AckedIsCaptured
  DoneIsWhole
PROPERTIES
  Promised
  EverythingSettles
CHECK_DEADLOCK FALSE
