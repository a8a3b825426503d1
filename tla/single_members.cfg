CONSTANTS
  Peer = {1, 2, 3, 4}
  x = x
  y = y
  a = a
  Key = {x, y}
  Value = {a}
  NoValue = NoValue
  Command <- PutDeleteOrOther
  Store = {1, 2, 3, 4}
  StoreCount = 3
  Reserved = {y}
  Requests = {"write", "transfer", "add", "remove"}
  MaxOps = 5
  MaxStarts = 3
CONSTRAINT ShortLater
SPECIFICATION Spec
CHECK_DEADLOCK FALSE
INVARIANTS
  ReplicasAgree
  OneLeader
