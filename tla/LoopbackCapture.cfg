SPECIFICATION Spec
CONSTANTS
  InRates = {1, 2, 3, 9}
  OutRates = {1, 2}
  HalfWidths = {4}
  Packets = {1, 6}
  Gaps = {0, 3}
  MaxFrames = 20
  MaxStarts = 2
INVARIANTS
  TapsAreBuffered
  OutputIsExact
  TimestampsAreTrue
PROPERTY
  StopReturns
CHECK_DEADLOCK FALSE
