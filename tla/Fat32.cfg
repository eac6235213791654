\* A volume of four clusters that fills up; a file without clusters; a file in a
\* directory that two descriptors have open; power failures except while a directory
\* grows and while something is removed.
SPECIFICATION Spec
CONSTANTS
  Name = {"a", "b"}
  Paths <- MCPaths
  DirPaths <- MCDirPaths
  LastCluster = 5
  PerCluster = 2
  MAX_OPEN = 2
  MaxSize = 3
  MaxWrite = 2
  Foreign = {"a"}
  Shared = {"b"}
  CrashIn = {"open", "mkdir", "write"}
  RemoveOpen = FALSE
INVARIANTS ChainsApart SizeBacked DirectoriesClean
