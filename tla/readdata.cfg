SPECIFICATION GrepSpec
CONSTANTS
  BLOCK_SIZE = 5
  NumDataBlocks = 3
  MaxBlocks = 3
  Requests = {0, 1, 2, 3, 4, 7}
  UINT32 = 32
  BUFSIZE = 4
  MaxText = 7
INVARIANTS
  ReadsFile
  PositionInFile
  GrepPrints
PROPERTY
  ReadersEnd
CHECK_DEADLOCK FALSE
