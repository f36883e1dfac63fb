SPECIFICATION WorkerSpec
CONSTANTS
  w1 = w1  w2 = w2  t1 = t1  t2 = t2
  Task = {t1}
  Worker = {w1}
  Slot <- TwoSlots
  Brokers = {"memory"}
  Runtimes = {"shell"}
  MaxRefused = 0
  MaxCancels = 0
  MaxEnds = 0
CHECK_DEADLOCK FALSE
INVARIANTS
  RunsOnce
