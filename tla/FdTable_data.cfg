\* Bytes through the ring, with ends duplicated and closed in between.
SPECIFICATION Spec
CONSTANTS
  MAX_OPEN_FILES = 4
  FirstFd = 1
  MAX_PIPES = 1
  PIPE_CAPACITY = 2
  f1 = f1
  NoNode = NoNode
  Files <- MCFiles
  Byte <- MCByte
  Payloads <- MCPayloads
  MaxRead = 2
  OpenFlags <- NoFlags
  PipeFlags <- NoFlags
  SetfdArgs <- NoCloexec
  SetflArgs <- NoFlags
INVARIANTS TypeOK
 
