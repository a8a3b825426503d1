CONSTANTS
  k1 = k1
  k2 = k2
  Key = {k1, k2}
  Value = {v, e}
  EmptyString = e
  NoValue = NoValue
  SnapshotPrefix <- OneOrAll
  MaxLines = 3
  MaxCuts = 1
CONSTRAINT SpoiledIsShort
SPECIFICATION Spec
CHECK_DEADLOCK FALSE
INVARIANTS
  CanReopen
  SnapshotExactOrRefused
PROPERTY ImplementsKvStore
