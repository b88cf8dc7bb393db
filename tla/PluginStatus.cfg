CONSTANTS
    HoldFrames = 2
    Lead = 1
    MaxPending = 2
    MaxStarts = 2
    MaxClicks = 1
    Packages = {"whole", "no_noise_model", "unusable"}
SPECIFICATION StatusSpec
INVARIANTS
    StoppedIsClean
PROPERTIES
    MissIsShown
    FailureIsShown
    OverloadEnds
CHECK_DEADLOCK FALSE
