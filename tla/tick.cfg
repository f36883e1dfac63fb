SPECIFICATION TriggerSpec
CONSTANTS
  Process = {c1}
  Key = {k1}
  Tick = {t1, t2, t3}
  Explicit = {}
  MaxOpen = 1
  MaxIdle = 1
  MaxFailures = 0
  MaxDeaths = 0
CHECK_DEADLOCK FALSE
INVARIANTS
  TicksMakeJobs
