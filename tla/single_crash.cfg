CONSTANTS
  Peer = {1, 2, 3}
  x = x
  y = y
  a = a
  Key = {x}
  Value = {a}
  NoValue = NoValue
  Command <- PutOrDelete
  Store = {1, 2, 3}
  StoreCount = 3
  Reserved = {}
  Requests = {"write", "transfer"}
  MaxOps = 5
  MaxStarts = 3
SPECIFICATION Spec
CHECK_DEADLOCK FALSE
INVARIANTS
  AckedSurvives
  KvIsPrefix
  DirectoriesOpen
