SPECIFICATION Spec
CONSTANTS
    Masters = {m1, m2}
    Slaves = {}
    MaxSlaves = 0
    Key = TRUE
    MaxSignals = 1
    MaxCmds = 2
    NoOne = NoOne
SYMMETRY Symmetry
INVARIANTS
    TypeOK
    OneCommander
    CancelledForCause
    EarlyOnlyUnderStaleNonce
