SPECIFICATION FairSpec
CONSTANTS
    NPROC = 3
    Harts = {h0, h1}
    BootHart = h0
    NoHart = NoHart
    Priority = 2
    MaxTicks = 2
    MaxSleep = 1
    Calls = {"mutex", "msleep"}
INVARIANTS RunsOnOneHart KernelAssertions WakeupsFind
PROPERTIES ImplementsSleepLock ReadyRuns ImplementsFairSleepLock DueSleeperReturns
