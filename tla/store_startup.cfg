CONSTANTS
  Process = {1, 2}
  StoreId <- OwnIds
  StoreCount = 2
  RegisterTries = 2
  StatusTries = 3
  MaxStore = 2
  MaxPeer = 12
  MaxRegion = 6
  DiskErrors = TRUE
  MaxFaults = 4
SPECIFICATION Spec
CHECK_DEADLOCK FALSE
INVARIANTS
  ReplicaSetIsComplete
  ServingStoresAgree
  PeersHaveAddresses
PROPERTIES
  GivesUpWithoutRegion
  StartsEnd
