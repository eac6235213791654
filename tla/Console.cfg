\* Window manager, shell, terminal screen and input devices.
SPECIFICATION MCSpec
CONSTANTS
  MAX_WINDOWS = 2
  Point <- MCPoint
  Buffers = 1
  LastWindow = 2
  MaxPackets = 4
  Letter = {"g", "r"}
  Command <- MCCommand
  Gui <- MCGui
  Run <- MCRun
  Clear <- MCClear
  RootName <- MCRootName
  MAX_LINE_LEN = 4
  MAX_ARGS = 3
  HISTORY_MAX = 2
  TERM_MAX_ROWS = 2
  TERM_MAX_COLS = 3
  TERM_CMD_MAX = 4
  MaxDepth = 2
  MaxKeys = 5
  MaxPrinted = 6
  KEYBOARD_BUFFER_SIZE = 2
  Key = {"c", "lshift", "rshift", "rctrl"}
  Motion <- MCMotion
  g_screen_width = 400
  PortSize = 3
  MaxEvents = 3
  Restarts = 1
INVARIANTS  EditorsAgree InputFollows
PROPERTIES ClickTaken
CHECK_DEADLOCK FALSE
