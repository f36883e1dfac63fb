SPECIFICATION FairSpec
CONSTANTS
  a = a  b = b  c = c  s = s  fan = fan  sub = sub
  Step <- MCStep
  Kind <- MCKind
  Children <- MCChildren
  Skipped <- MCSkipped
  RetryLimit <- RetryA
  Workflows <- UserWorkflows
  CancelFrom = {"Scheduled", "Running", "Restart"}
  MaxTasks = 8
  MaxJobs = 3
  MaxCopies = 2
  MaxCalls = 3
  MaxCrashes = 1
ACTION_CONSTRAINT Bounds
CHECK_DEADLOCK FALSE
INVARIANTS
  StepsInOrder
  NoneStranded
PROPERTIES
  Quiesces
