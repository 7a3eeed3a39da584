SPECIFICATION FairSpec
CONSTANTS
  NProc = 3
  NTerm = 3
  MAX_FILE = 2
  FileTypes = {}
  MaxExecs = 4
  Env = {}
INVARIANTS
  PageHoldsRunning
  KernelStackFree
  SavedContexts
  SlotsExact
PROPERTIES
  ReturnsToParent
  EveryTerminalRuns
