SPECIFICATION Spec
CONSTANTS
    Base = 16
    Width = 1
    FreqMax = 12
    RateMax = 12
    GainMax = 3
    PpmMax = 3
    MinInterval = 2
    Frames <- BoundaryFrames
    Split = TRUE
    MaxTime = 2
    MaxSends = 3
    MaxReconnects = 1
INVARIANTS
    DeviceInRange
    RateLimitExact
    AgcFlagAgrees
    FramesIntact
CHECK_DEADLOCK FALSE
