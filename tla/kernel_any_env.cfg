SPECIFICATION Spec
CONSTANTS
  NProc = 2
  NTerm = 3
  MAX_FILE = 3
  FileTypes = {"FILE"}
  MaxExecs = 2
  Env = {"missing", "noexec", "irq_halt", "fresh_bg", "fresh_full", "open_std"}
INVARIANTS
  TypeOK
  CurrProcessAgrees
CHECK_DEADLOCK FALSE
