SPECIFICATION StoresSpec
CONSTANTS
  x = x  y = y  z = z  t1 = t1  t2 = t2  t3 = t3
  Subtask <- MCSubtask
  Stores = {"postgres", "inmemory"}
  MaxFaults = 2
  MaxCrashes = 1
  Timer = {t1, t2, t3}
  Cron = {t3}
  Cap = 1
  MaxStarts = 2
  MaxFailures = 1
CHECK_DEADLOCK FALSE
INVARIANTS
  StoresTypeOK
  BarrierHolds
  OneOutcome
  NothingUncounted
  RowUntilSent
  OncePerLife
PROPERTIES
  LockedFanInEnds
  CancelledStaysQuiet
  FiresInTheEnd
  StartReturns
