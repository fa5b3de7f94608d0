SPECIFICATION FairSpec
CONSTANTS
    MaxSignals = 2
    MaxCmds = 2
INVARIANTS
    CleanReturn
    CancelledForCause
PROPERTIES
    SignalStopsServer
    ResetStopsServer
    DeviceEndLeavesOnlyCtl
