SPECIFICATION FairSpec
CONSTANTS
    Base = 4
    TsLen = 2
    LenLen = 1
    Duration = 5
    BufferMem = 5
    MaxRead = 2
    MaxBytes = 3
    Instants = {0, 5}
    NoTimestamp = NoTimestamp
INVARIANTS
    TypeOK
    SentAsRecorded
    PassComplete
    PacedAsRecorded
    LoopGoesOn
PROPERTIES
    CaptureStops
    ReplayStops
    CmdThreadJoined
