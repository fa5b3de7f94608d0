SPECIFICATION FairSpec
CONSTANTS
    Masters = {m1, m2}
    Slaves = {}
    MaxSlaves = 1
    Key = TRUE
    MaxSignals = 0
    MaxCmds = 2
    NoOne = NoOne
PROPERTY MasterReleased
