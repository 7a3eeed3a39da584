SPECIFICATION Spec
CONSTANTS
  NUM_ROWS = 2
  NUM_COLS = 2
  MAX_BUF_SIZE = 2
  Terms = {0, 1}
  Chars = {"a"}
  Outputs <- OutputsLine
  FileTexts <- OneFile
  Envs <- TwoEnvs
VIEW WhatIsRead

  
  
PROPERTY
  OwnScreenOnly
