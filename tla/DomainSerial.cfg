CONSTANTS
    c0 = c0
    c1 = c1
    c2 = c2
    Core <- TwoCores
    IpcCore = c0
    TaskLimit = 2
    TotalLimit = 2
    TickLimit = 1
    Overlap = FALSE
SPECIFICATION FairSpec
INVARIANTS NoCycleWhileConnecting TimerForTasks
PROPERTIES ScheduledRuns OrphanTimerStops
