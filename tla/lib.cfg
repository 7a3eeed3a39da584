SPECIFICATION Spec
CONSTANTS
  M = 10
  Memories <- MCMemories
  Values = {0, 7, 37, 255, 266}
  Radixes = {2, 10, 16}
INVARIANTS
  MemoryResult
  StringResult
CHECK_DEADLOCK FALSE
