SPECIFICATION FairSpec
CONSTANTS
    Masters = {m1, m2}
    MaxCmds = 2
    MaxSignals = 1
    NoOne = NoOne
INVARIANTS
    KeystreamInSync
    ForwardedInOrder
    CleanReturn
PROPERTIES
    SignalStopsOrWaits
    MasterReleased
