SPECIFICATION Spec
CONSTANTS
    MagicLen = 3
    CmdLen = 2
    NonceLen = 3
    MaxIq = 1
    MaxCmds = 0
    Setups <- Chain
INVARIANT RelayedInClear
CHECK_DEADLOCK FALSE
