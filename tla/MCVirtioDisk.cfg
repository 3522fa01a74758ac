SPECIFICATION Spec
CONSTANTS
    Procs <- MCProcs
    Blocks = {0}
    Vals = {0, 1}
    VIRTIO_DESC_NUM = 8
    IndexSpan = 16
    Start = 14
    MaxCalls = 4
CHECK_DEADLOCK FALSE
INVARIANTS RingsAgree NoSleepWithRoom
PROPERTIES ImplementsDevice RequestsEnd
