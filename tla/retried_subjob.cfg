SPECIFICATION Spec
CONSTANTS
  a = a  b = b  c = c  s = s  fan = fan  sub = sub
  Step <- MCStep
  Kind <- MCKind
  Children <- MCChildren
  Skipped <- MCSkipped
  RetryLimit <- RetrySub
  Workflows <- OneSubjob
  CancelFrom = {}
  MaxTasks = 8
  MaxJobs = 4
  MaxCopies = 2
  MaxCalls = 0
  MaxCrashes = 0
CHECK_DEADLOCK FALSE
INVARIANTS
  RetryBudget
