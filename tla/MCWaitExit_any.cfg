CONSTANTS
    NPROC = 5
    WaitPids = {}
    StatusFaults = {FALSE}
SPECIFICATION FairSpec
INVARIANTS
    PidPool
    ChildLists
    LockCycleFree
PROPERTIES
    ReapedByParent
    CallsComplete
CHECK_DEADLOCK FALSE
