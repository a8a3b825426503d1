CONSTANTS
  Peer = {1, 2, 3}
  x = x
  y = y
  a = a
  Key = {x, y}
  Value = {a}
  NoValue = NoValue
  Command <- PutAlone
  Client = {c1}
  NoCommand = NoCommand
  MaxAttempts = 2
  MaxOps = 3
  MaxCrashes = 0
  MaxOrphans = 1
  TornWrites = FALSE
SPECIFICATION Spec
CHECK_DEADLOCK FALSE
INVARIANT LeaderCompleteness
