SPECIFICATION Spec
CONSTANTS
  NProc = 3
  NTerm = 1
  MAX_FILE = 2
  FileTypes = {}
  MaxExecs = 3
  Env = {"missing"}
PROPERTY
  ReturnsToParent
CHECK_DEADLOCK FALSE
