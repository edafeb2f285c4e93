SPECIFICATION Spec
CONSTANTS
  Owners = {o1}
  Children = {c1}
  Untimed = {}
  Rels = {}
  Nobody = Nobody
  MaxTime = 2
  RelSets = {{}}
  Backfilled = {o1, c1}
  Mergeable = {}
  Answers = {}
  Confirmed = {}
  BareDestroys = TRUE
  ChildEvents = FALSE
  Restores = FALSE
INVARIANTS
  NoChildOutlivesOwner
CHECK_DEADLOCK FALSE
