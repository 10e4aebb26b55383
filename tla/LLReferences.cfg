CONSTANTS
    t1 = t1
    t2 = t2
    t3 = t3
    None = None
    Task <- TwoTasks
    Priority <- TwoPriorities
    TickLimit = 2
    References = "patient"
    Revival = FALSE
    Overrun = FALSE
SPECIFICATION FairSpec
INVARIANTS ListAccounting StateTellsList FreeIsSynchronous ThreadForTasks
PROPERTIES FreeReturns CancelTakesEffect
