\* Who holds which end: all flags, no data.
SPECIFICATION Spec
CONSTANTS
  MAX_OPEN_FILES = 4
  FirstFd = 1
  MAX_PIPES = 2
  PIPE_CAPACITY = 1
  f1 = f1
  NoNode = NoNode
  Files <- MCFiles
  Byte = {0}
  Payloads <- NoPayloads
  MaxRead = 1
  OpenFlags <- MCOpenFlags
  PipeFlags <- MCPipeFlags
  SetfdArgs <- MCSetfdArgs
  SetflArgs <- MCSetflArgs
   
PROPERTIES CloexecExact
