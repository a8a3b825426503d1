CONSTANTS
  Peer = {1, 2, 3}
  x = x
  y = y
  a = a
  Key = {x, y}
  Value = {a}
  NoValue = NoValue
  Command <- PutBatchDelete
  Client = {c1}
  NoCommand = NoCommand
  MaxAttempts = 2
  MaxOps = 3
  MaxCrashes = 1
  MaxOrphans = 0
  TornWrites = FALSE
SPECIFICATION Spec
CHECK_DEADLOCK FALSE
CONSTRAINT Distinct
INVARIANTS
  ElectionSafety
  LeaderCompleteness
  CommittedIsDurable
  CanAlwaysRestart
  LogMatching
  KvIsAppliedPrefix
PROPERTY AppliedOnlyGrows
