\* Every tick point, and a timer that keeps ticking.
SPECIFICATION FairSpec
CONSTANTS
  MAX_PROCESSES = 3
  SCHED_DEFAULT_QUANTUM = 2
  Frames = {1, 2}
  KernelPml4 = 9
  Killable = {"READY", "RUNNING", "ZOMBIE"}
  TickPoints = {"shell", "found", "listed", "created", "loading", "user"}
  MaxPid = 4
INVARIANTS TypeOK 
PROPERTIES Terminated 
CHECK_DEADLOCK FALSE
