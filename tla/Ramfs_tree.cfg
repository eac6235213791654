\* Names, descriptors and bytes that change files.
SPECIFICATION Spec
CONSTANTS
  Name = {"a", "b"}
  Paths <- TreePaths
  MaxNodes = 4
  RAMFS_MAX_CHILDREN = 2
  MIN_CAPACITY = 1
  MAX_OPEN_FILES = 2
  Byte = {0, 1}
  Payloads <- OnePayload
  OpenFlags <- TreeFlags
  Deltas <- NoDeltas
  MaxRead = 1
  MaxSize = 1
INVARIANT TreeSound
PROPERTIES OpenNodesStay ImplementsFiles
CHECK_DEADLOCK FALSE
