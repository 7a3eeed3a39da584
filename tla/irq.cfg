SPECIFICATION FairSpec
CONSTANTS
  NTerm = 2
  Keys = {"ctrl", "alt", "digit"}
  ListWrites = 1
  MaxDepth = 2
  MaxHeld = 1
INVARIANTS
  InServiceHandled
  LockOwned
  ModsFollowKeys
  RegistersKept
PROPERTY
  InterruptsHandled
