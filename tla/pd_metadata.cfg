CONSTANTS
  MaxKey = 3
  MaxStore = 2
  MaxRegion = 3
  MaxPeer = 5
  DiskErrors = TRUE
SPECIFICATION Spec
CHECK_DEADLOCK FALSE
INVARIANTS
  TypeOK
  RegionsPartitionKeys
  LookupFindsOwner
  PeersAreConsistent
  RegionIdNeverReused
