\* Everything scaled down until its limits are met: mounts, instances and digits;
\* frames and heap; segments and the user stack; the compiler's buffers; descriptors
\* and sockets.
SPECIFICATION MCSpec
CONSTANTS
  MAX_MOUNTS = 6
  MAX_PARTITIONS = 4
  Instances = 3
  Digits = 3
  Characters <- MCCharacters
  GivenLetters = {"none", "D"}
  MaxCwd = 2
  DriveLetters <- MCDriveLetters
  MountPaths <- MCMountPaths
  Disk <- MCDisk
  BaseLen = 2
  ExtLen = 1
  FileNames <- MCFileNames
  TOTAL_FRAMES = 6
  FirstFree = 1
  MaxRun = 3
  Align = 2
  Overhead = 4
  HEAP_INIT_SIZE = 32
  FirstOffset = 2
  FirstBytes = 1
  FirstBlocks = 1
  Sizes = {0, 1, 3, 4, 9}
  MaxBlocks = 4
  PAGE_SIZE = 2
  Lengths = {1, 2, 5, 7}
  FirstBrk = 4
  MaxCalls = 5
  Images <- MCImages
  Addr <- MCAddr
  UserStack <- MCUserStack
  MAX_BINARY_SEGMENTS = 2
  HeaderSize = 1
  Exports <- MCExports
  MaxDepth = 3
  StackTop = 65536
  Word = 8
  Env <- MCEnv
  ArgLists <- MCArgLists
  Programs <- MCSources
  Edits <- MCEdits
  MaxPrints = 2
  BufCapacity = 128
  LineRoom = 16
  MaxBin = 250
  Makefiles <- MCMakefiles
  MAX_FDS = 5
  FD_SOCKET_OFFSET = 7
  MAX_SOCKETS = 2
  PSEUDO_STDIN_HANDLE = 3
  PSEUDO_STDOUT_HANDLE = 4
  PSEUDO_STDERR_HANDLE = 5
  MaxObjects = 2
INVARIANTS PathsLead  ProgramsWhole NumbersLead
PROPERTIES MountsKept  
CHECK_DEADLOCK FALSE
