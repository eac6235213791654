\* Enough frames, no kill of zombies, no tick before the new table is set.
SPECIFICATION Spec
CONSTANTS
  MAX_PROCESSES = 4
  SCHED_DEFAULT_QUANTUM = 1
  Frames = {1, 2, 3, 4, 5}
  KernelPml4 = 9
  Killable = {"READY", "RUNNING"}
  TickPoints = {"shell", "created", "loading", "user"}
  MaxPid = 5
INVARIANTS PidUnique 
CHECK_DEADLOCK FALSE
