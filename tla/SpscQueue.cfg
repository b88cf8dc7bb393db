CONSTANTS
  Slots = 4
  Frames = {f1, f2}
  Blank = Blank
  Torn = Torn
SPECIFICATION Spec
INVARIANTS
  SlotsAreExclusive
PROPERTIES
  ImplementsFifo
