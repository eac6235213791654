\* One file, two descriptors, a buffer that moves.
SPECIFICATION Spec
CONSTANTS
  Name = {"a"}
  Paths <- OnePath
  MaxNodes = 2
  RAMFS_MAX_CHILDREN = 2
  MIN_CAPACITY = 1
  MAX_OPEN_FILES = 2
  Byte = {0, 1}
  Payloads <- DataPayloads
  OpenFlags <- DataFlags
  Deltas <- DataDeltas
  MaxRead = 2
  MaxSize = 3
INVARIANTS TypeOK SizesAgree
PROPERTY ImplementsFiles
CHECK_DEADLOCK FALSE
