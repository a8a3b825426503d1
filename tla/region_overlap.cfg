CONSTANTS
  Peer = {1, 2, 3}
  x = x
  y = y
  a = a
  Key = {x, y}
  Value = {a}
  NoValue = NoValue
  Command <- PutAlone
  Client = {c1, c2}
  NoCommand = NoCommand
  MaxAttempts = 2
  MaxOps = 2
  MaxCrashes = 0
  MaxOrphans = 1
  TornWrites = FALSE
SPECIFICATION Spec
CHECK_DEADLOCK FALSE
CONSTRAINT TwoAtATime
SYMMETRY ClientSymmetry
INVARIANTS
  TypeOK
  VoteOncePerTerm
  ElectedOncePerTerm
  MemoryIsSaved
  LogIsWhole
PROPERTY SavedVoteIsKept
