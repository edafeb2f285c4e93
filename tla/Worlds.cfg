SPECIFICATION Spec
CONSTANTS
  o1 = o1
  u1 = u1
  r1 = r1
  r2 = r2
  r3 = r3
  Nobody = Nobody
  BareDestroys = TRUE
  Restored = {o1}
  Rels = {r1, r2, r3}
  RestoreSets <- MCRestoreSets
  RestoreTime = 2
  Heads = {o1}
  Kin = {u1}
  MemberTime = 3
  Recs = {1, 2, 3}
  Kinds = {"keyset", "descending"}
  SweepPage = 2
  SweepStart = 2
  SweepTime = 3
  SweepChanges = 2
  SweepFaults = 1
  Audited = {1, 2, 3}
  AuditPage = 2
  RestoreLimit = 1
  AuditTime = 3
  AuditChanges = 1
  AuditFaults = 1
INVARIANTS
  NothingLost
  OrphansTrackOwner
  NoGap
  AbsentIsGone
PROPERTIES
  NeverPoorer
  CatchesUp
  RoundSettles
  Converges
CHECK_DEADLOCK FALSE
