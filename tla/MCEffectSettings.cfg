SPECIFICATION SettingsSpec
CONSTANTS
    speakers = speakers
    headset = headset
    Endpoints = {speakers, headset}
    NoEndpoint = NoEndpoint
    Touched = {"aec", "aecStrength"}
    Presets <- TwoPresets
    Hostings <- FourHostings
    MaxFailures = 1
INVARIANTS
    ProcessorInSync
    CaptureFollowsSelection
PROPERTIES
    CommitIsSaved
