CONSTANTS
  Peer = {1, 2, 3}
  x = x
  y = y
  a = a
  Key = {x, y}
  Value = {a}
  NoValue = NoValue
  Command <- PutAlone
  Client = {c1}
  NoCommand = NoCommand
  MaxAttempts = 2
  MaxOps = 2
  MaxCrashes = 1
  MaxOrphans = 0
  TornWrites = TRUE
SPECIFICATION FairSpec
CHECK_DEADLOCK FALSE
INVARIANT VotesAreSaved
PROPERTY OperationsReturn
