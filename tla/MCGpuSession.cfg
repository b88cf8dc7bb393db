SPECIFICATION Spec
CONSTANTS
  Instances = {i1, i2}
  Processes = {p1, p2}
  Models = 2
  MaxStarts = 3
  MaxFaults = 1
SYMMETRY Symmetry
INVARIANTS
  PreparedIsWhole
  EffectsHaveApi
  HandlesDieFirst
  PriorityIsRestored
CHECK_DEADLOCK FALSE
