CONSTANTS
  Writers = {w1, w2}
  MaxSnapshots = 2
  MaxRestarts = 2
SPECIFICATION BusFairSpec
INVARIANTS
  SnapshotIsWhole
PROPERTIES
  EditorReconnects
CHECK_DEADLOCK FALSE
