SPECIFICATION FairSpec
CONSTANTS
    Clients = {c1, c2}
    Capacity = 3
    MaxSent = 5
INVARIANTS
    LossAccounted
PROPERTIES
    EveryBufferReached
    WritersStop
    ImplementsFeed
CHECK_DEADLOCK FALSE
