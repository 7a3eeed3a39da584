SPECIFICATION FishSpec
CONSTANTS
  Procs = {"fish", "q"}
  Frequencies = {0, 32}
  Env = {"rate_0", "toggle"}
  fish = "fish"
  Pictures <- MCPictures
  COLS = 3
  ROWS = 3
  OFFSET = 1
  WAIT = 5
  LENGTH = 2
  MARK_ON = 2
  MARK_OFF = 1
  MARK = 5
INVARIANTS
  PacedByClock
  FrameShown
PROPERTIES
  FrameHeld
  SomeReaderReturns
