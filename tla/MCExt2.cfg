CONSTANTS
    FileIds = {1, 2}
    Group <- MCGroup
    NGroups = 2
    PerGroup = 10
    Reserved <- MCReserved
    NDIR = 1
    PER = 2
    MaxSize <- MCMaxSize
    Offs = {0, 5}
    Lens = {1, 5, 11}
    Cuts = {0, 3, 9, 14}
    MaxOps = 4
    EntryNames = {"ls", "abc", "link", "mkdir", "pipetest", "counterproductive"}
    NameLen <- MCNameLen
    DirBytes = 88
SPECIFICATION MCSpec
INVARIANTS
    BlocksExact
    EntriesTile
PROPERTIES
    ImplementsPlainFiles
CHECK_DEADLOCK FALSE
