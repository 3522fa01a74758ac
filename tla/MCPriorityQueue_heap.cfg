SPECIFICATION Spec
CONSTANTS
    NPROC = 6
    Keys = {1, 2}
PROPERTY IsMinQueue
