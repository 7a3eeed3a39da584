SPECIFICATION FairSpec
CONSTANTS
  Procs = {"p", "q"}
  Readers = {"p"}
  MAX_FILE = 4
  Dir <- DirLong
  Long <- LongName
  Requests = {1}
  UINT32 = 3
  MaxCursor = 5
  Envs <- ThreeEnvs
INVARIANTS
  ReadsOpenedFile
  ListsInOrder
PROPERTIES
  ListsAll
  EndIsTold
