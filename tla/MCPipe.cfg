CONSTANTS
    p1 = p1
    p2 = p2
    p3 = p3
    Procs <- MCProcs
    None = None
    Bytes = {0, 1}
    Cap = 2
    MaxLen = 2
SPECIFICATION FairSpec
INVARIANTS
    PipeSound
PROPERTIES
    IsByteStream
    PeersGoneReturns
CHECK_DEADLOCK FALSE
