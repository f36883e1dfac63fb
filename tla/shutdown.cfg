SPECIFICATION EngineSpec
CONSTANTS
  u1 = u1  u2 = u2
  Caller = {u1, u2}
  Modes = {"Standalone"}
  MaxFailed = 0
  MaxSubmits = 1
CHECK_DEADLOCK FALSE
PROPERTIES
  AwaitReturns
