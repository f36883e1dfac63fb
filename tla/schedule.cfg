SPECIFICATION MCSpec
CONSTANTS
  c1 = c1  c2 = c2  u1 = u1  u2 = u2  k1 = k1  k2 = k2  t1 = t1  t2 = t2  t3 = t3
  Coordinator = {c1, c2}
  Caller = {u1, u2}
  MaxCalls = 3
  MaxStarts = 3
  MaxRefusals = 1
  Process = {c1, c2}
  Key = {k1, k2}
  Tick = {t1, t2, t3}
  Explicit = {"postgres"}
  MaxOpen = 2
  MaxIdle = 1
  MaxFailures = 1
  MaxDeaths = 1
CHECK_DEADLOCK FALSE
INVARIANTS
  PeriodicTypeOK
  AtRestMatches
  HoldersExclude
  PoolWithinLimit
PROPERTIES
  DeletedForGood
  Settles
  KeysComeBack
