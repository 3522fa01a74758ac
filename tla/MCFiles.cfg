CONSTANTS
    p1 = p1
    p2 = p2
    None = None
    Procs = {p1, p2}
    NINODE = 3
    NINO = 4
    NFILE = 3
    NFD = 2
    Names = {"d", "f"}
    PathCalls <- MCPathCalls
    Tree <- MCTree
    MaxCalls = 4
SPECIFICATION Spec
INVARIANTS
    CountCoversRefs
    OneSlotPerInode
    FcbsAccounted
    NamesLive
    NoLockRing
    CwdNamesIcwd
SYMMETRY Sym
CHECK_DEADLOCK FALSE
