SPECIFICATION Spec
CONSTANTS
  MAX_BUF_SIZE = 2
  UINT8 = 4
  Terms = {0, 1}
  Chars = {}
  Requests = {1, 9}
  Env = {"type_ahead", "switch_pending", "fresh_text"}
VIEW WhatIsRead
INVARIANTS
  IndexInBuffer
  NoNewLineInside
  CopyInBuffer
