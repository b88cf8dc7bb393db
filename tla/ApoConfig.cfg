SPECIFICATION Spec
CONSTANTS
    MaxLines = 5
    MaxDepth = 2
    StageInCondition = FALSE
    Markers = FALSE
INVARIANTS
    EffectOnlyInCapture
PROPERTIES
    FiltersAreKept
    UpdateKeepsRows
