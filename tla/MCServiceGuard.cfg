SPECIFICATION GuardFairSpec
CONSTANTS
    Audio = Audiosrv
    helper = helper
    panel = panel
    remote = remote
    Dependents = {helper, panel, remote}
    DependsOn <- Chain
    MaxTimeouts = 1
    MaxCallFailures = 1
    MaxForeignStarts = 1
PROPERTIES
    StoppedWhenHeld
    GuardEnds
    ServicesComeBack
