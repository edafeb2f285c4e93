SPECIFICATION MCSpec
CONSTANTS
  Owners = {o1, o2}
  Children = {c1}
  Untimed = {}
  Rels = {r1}
  Nobody = Nobody
  MaxTime = 2
  RelSets = {{}}
  Backfilled = {o1, o2, c1}
  Mergeable = {o1}
  Answers = {}
  Confirmed = {}
  BareDestroys = TRUE
  ChildEvents = TRUE
  Restores = FALSE
  Members = {m1, m2}
  Household = hh
  MaxSyncPeers = 1
  DrainLimit = 1
  MaxWrites = 2
  MaxFaults = 1
INVARIANTS
  TypeOK
  Agreement
PROPERTIES
  MonotonicRows
  TombstonesStick
  DugUpOnlyByNews
  HalvesMeet
  NobodyNamesTheDead
CHECK_DEADLOCK FALSE
