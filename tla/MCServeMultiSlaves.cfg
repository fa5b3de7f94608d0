SPECIFICATION Spec
CONSTANTS
    Masters = {m1}
    Slaves = {s1, s2}
    MaxSlaves = 1
    Key = FALSE
    MaxSignals = 1
    MaxCmds = 0
    NoOne = NoOne
SYMMETRY Symmetry
INVARIANTS
    SlaveLimit
    CleanReturn
    SlaveMagicFirst
