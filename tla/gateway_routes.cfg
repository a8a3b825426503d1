CONSTANTS
  c1 = c1
  c2 = c2
  Client = {c1, c2}
  GatewayOf <- OneEach
  Admin = {c1}
  MaxKey = 2
  Value = {a}
  NoValue = NoValue
  StoreCount = 2
  MaxStore = 2
  MaxPeer = 6
  MaxRegion = 3
  MaxKv = 2
  MaxAdmin = 2
  MaxFaults = 1
SPECIFICATION Spec
CHECK_DEADLOCK FALSE
INVARIANTS
  RangesAgree
  PeersAgree
  OneRefreshIsEnough
  RefusedBatchSpansRegions
