SPECIFICATION FairSpec
CONSTANTS
  a = a  b = b  c = c  s = s  fan = fan  sub = sub
  Step <- MCStep
  Kind <- MCKind
  Children <- MCChildren
  Skipped <- MCSkipped
  RetryLimit <- RetryA
  Workflows <- AllKinds
  CancelFrom = {}
  MaxTasks = 8
  MaxJobs = 2
  MaxCopies = 1
  MaxCalls = 0
  MaxCrashes = 1
CHECK_DEADLOCK FALSE
INVARIANTS
  TypeOK
  NoDanglingReference
  TasksMatchDefinitions
  OneStepAtATime
  CompletedMeansAllDone
  FanInExact
  RetryBudget
  ParentAwaitsSubjob
PROPERTIES
  KeepsPromise
  OutcomeIsFinal
  JobTerminates
