SPECIFICATION FairSpec
CONSTANTS
    Masters = {m1}
    Slaves = {}
    MaxSlaves = 0
    Key = FALSE
    MaxSignals = 1
    MaxCmds = 1
    NoOne = NoOne
PROPERTIES
    SignalStopsOrWaits
    MasterReleased
