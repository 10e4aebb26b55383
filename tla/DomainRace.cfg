CONSTANTS
    c0 = c0
    c1 = c1
    c2 = c2
    Core <- TwoCores
    IpcCore = c0
    TaskLimit = 1
    TotalLimit = 2
    TickLimit = 1
    Overlap = TRUE
SPECIFICATION FairSpec
PROPERTY ScheduledRuns
