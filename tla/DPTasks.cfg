CONSTANTS
    d1 = d1
    d2 = d2
    Task <- TwoTasks
    Period <- TwoMs
    LLTimerPeriod = 1000
    Results <- AllResults
    FreeUnstarted = FALSE
SPECIFICATION FairSpec
INVARIANTS TickForTasks NoStrandedTask ListMatchesState
PROPERTIES RunsOnTrigger TriggeredRuns
CHECK_DEADLOCK FALSE
