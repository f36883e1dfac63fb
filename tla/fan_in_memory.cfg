SPECIFICATION FairSpec
CONSTANTS
  x = x  y = y  z = z
  Subtask <- MCSubtask
  Stores = {"inmemory"}
  MaxFaults = 0
  MaxCrashes = 0
CHECK_DEADLOCK FALSE
PROPERTIES
  FanInEnds
