SPECIFICATION FairSpec
CONSTANTS
    Masters = {}
    Slaves = {s1, s2}
    MaxSlaves = 1
    Key = FALSE
    MaxSignals = 0
    MaxCmds = 0
    NoOne = NoOne
PROPERTY SlaveSlotReused
