CONSTANTS
    NPROC = 4
    WaitPids = {2, 3}
    StatusFaults = {TRUE, FALSE}
SPECIFICATION Spec
INVARIANTS
    WokenAreAsleep
CHECK_DEADLOCK FALSE
