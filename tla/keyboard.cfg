SPECIFICATION FairSpec
CONSTANTS
  MAX_BUF_SIZE = 2
  UINT8 = 8
  Terms = {0, 1}
  Chars = {"a"}
  Requests = {2, 9}
  Env = {}
INVARIANTS
  EchoInSync
PROPERTIES
  ReadReturns
  LineSpec
