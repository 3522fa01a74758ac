SPECIFICATION Spec
CONSTANTS
    NPages = 4
    MaxOrder = 2
    PGSIZE = 8
    NodeSize = 2
    slub_size <- MCSizes
    Procs = {p1, p2}
    NoProc = none
    VPages = {0, 1, 2}
    Text = {0}
    Heap = {1}
    Stack = 2
    Vals = {0, 1}
    FileVal = 0
    Absent = 9
    MaxKernel = 1
    AskSizes = {2, 3}
    MaxObjs = 2
CHECK_DEADLOCK FALSE
SYMMETRY ProcSymmetry
INVARIANTS PagesPartition CountExact ObjectsApart
PROPERTIES ImplementsPrivateMemory
