CONSTANTS
    p1 = p1
    p2 = p2
    p3 = p3
    Procs <- ThreeProcs
    None = None
    Blocks = {1, 2, 3}
    NoBlk = NoBlk
    NBBUF = 2
    Ops = {"read"}
    MaxVer = 1
SYMMETRY SymThree
SPECIFICATION Spec
INVARIANTS
    PoolExact
