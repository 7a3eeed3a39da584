SPECIFICATION SysSpec
CONSTANTS
  NProc = 4
  NTerm = 2
  MAX_FILE = 3
  FileTypes = {"RTC", "DIR", "FILE"}
  MaxExecs = 4
  Env = {"noexec"}
  Sessions <- MCSessions
INVARIANTS
  ProgramsSucceed
  StdinReached
PROPERTIES
  ShellReports
  FdIsolation
