SPECIFICATION HookSpec
CONSTANTS
    Endpoints = {m1,m2}
    Registrations <- SomeRegistrations
    MaxCalls = 3
    MaxFaults = 2
    MaxOutside = 1
SYMMETRY Symmetry
INVARIANTS
    EachEffectOnce
    InstallIsAllOrNothing
    RemovalRestores
PROPERTIES
    ForeignEffectIsKept
CHECK_DEADLOCK FALSE
