SPECIFICATION FairSpec
CONSTANTS
    MagicLen = 3
    CmdLen = 2
    NonceLen = 3
    MaxIq = 3
    MaxCmds = 5
    Setups <- AllSetups
INVARIANTS
    TypeOK
    NoncesAgree
    CommandsUnderstood
    LossBounded
PROPERTIES
    CommandsConsumed
CHECK_DEADLOCK FALSE
