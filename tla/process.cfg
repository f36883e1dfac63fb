SPECIFICATION ProcessSpec
CONSTANTS
  w1 = w1  w2 = w2  t1 = t1  t2 = t2  u1 = u1  u2 = u2
  Task = {t1, t2}
  Worker = {w1, w2}
  Slot <- TwoAndOne
  Brokers = {"memory", "rabbitmq"}
  Runtimes = {"shell", "docker", "podman"}
  MaxRefused = 1
  MaxCancels = 1
  MaxEnds = 1
  Caller = {u1, u2}
  Modes = {"Coordinator", "Worker", "Standalone"}
  MaxFailed = 2
  MaxSubmits = 2
  Width = 3
  MaxLetters = 2
  StackMax = 2
  MaxOps = 5
CHECK_DEADLOCK FALSE
INVARIANTS
  ProcessTypeOK
  NothingLost
  RunsBounded
  StopSeesRuns
  DirectoryKept
  MachinesAgree
PROPERTIES
  EveryTaskReported
  PartsStop
  NothingTwice
