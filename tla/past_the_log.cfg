CONSTANTS
  Peer = {1, 2, 3}
  x = x
  y = y
  a = a
  Key = {x, y}
  Value = {a}
  NoValue = NoValue
  Command <- PutAlone
  Client = {c1}
  NoCommand = NoCommand
  MaxAttempts = 2
  MaxOps = 7
  MaxCrashes = 0
  MaxOrphans = 0
  TornWrites = FALSE
SPECIFICATION Spec
CHECK_DEADLOCK FALSE
CONSTRAINT Isolated
INVARIANT CommittedIsDurable
