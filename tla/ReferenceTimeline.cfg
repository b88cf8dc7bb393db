CONSTANTS
  Period = 2
  FrameSamples = 2
  Threshold = 2
  Capacity = 8
  Retention = 1
  MaxPending = 2
  Lengths = {1, 2}
  Gaps = {0, 1}
  Lates = {0, 3}
  HostBlocks = {2, 3}
  MaxTime = 10
SPECIFICATION Spec
INVARIANTS
  ReadIsExact
PROPERTIES
  ReferenceIsKept
