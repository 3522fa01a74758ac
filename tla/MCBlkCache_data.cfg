CONSTANTS
    p1 = p1
    p2 = p2
    p3 = p3
    Procs <- TwoProcs
    None = None
    Blocks = {1, 2, 3}
    NoBlk = NoBlk
    NBBUF = 2
    Ops = {"read", "part", "whole", "sync"}
    MaxVer = 1
CONSTRAINT SomeSound
SYMMETRY SymTwo
SPECIFICATION Spec
INVARIANTS
    IndicatedContents
    NoWriteLost
    SyncPersists
