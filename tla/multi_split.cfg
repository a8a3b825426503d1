CONSTANTS
  MaxKey = 3
  Value = {a}
  NoValue = NoValue
  Reserved = {3}
  StoreCount = 2
  MaxPeer = 3
  MaxRegion = 3
  MaxOps = 4
  MaxPending = 1
SPECIFICATION Spec
CHECK_DEADLOCK FALSE
INVARIANTS
  
  
  RegionsPartition
