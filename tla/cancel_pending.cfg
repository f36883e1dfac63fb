SPECIFICATION Spec
CONSTANTS
  a = a  b = b  c = c  s = s  fan = fan  sub = sub
  Step <- MCStep
  Kind <- MCKind
  Children <- MCChildren
  Skipped <- MCSkipped
  RetryLimit <- RetryNone
  Workflows <- OneStep
  CancelFrom = {"Pending"}
  MaxTasks = 8
  MaxJobs = 1
  MaxCopies = 2
  MaxCalls = 1
  MaxCrashes = 0
CHECK_DEADLOCK FALSE
PROPERTIES
  CancelledStays
