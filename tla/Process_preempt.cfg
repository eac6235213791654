SPECIFICATION Spec
CONSTANTS
  MAX_PROCESSES = 3
  SCHED_DEFAULT_QUANTUM = 5
  Frames = {1, 2}
  KernelPml4 = 9
  Killable = {"READY", "RUNNING", "ZOMBIE"}
  TickPoints = {"user"}
  MaxPid = 4
INVARIANT DispatchesSaved
CHECK_DEADLOCK FALSE
