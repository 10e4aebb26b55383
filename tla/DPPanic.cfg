CONSTANTS
    d1 = d1
    d2 = d2
    Task <- OneTask
    Period <- TwoMs
    LLTimerPeriod = 1000
    Results <- DpTaskRun
    FreeUnstarted = FALSE
SPECIFICATION Spec
INVARIANT NoPanic
