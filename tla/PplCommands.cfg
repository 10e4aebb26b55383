CONSTANTS
    p1 = p1
    p2 = p2
    c0 = c0
    c1 = c1
    None = None
    Ppl <- Two
    N = 2
    Core <- OneCore
    IpcCore = c0
    Upstream <- Unlinked
    Delay <- ShortDelay
    WaitTicks = 3
    NoPause <- MuxLast
    Fault <- CommandFaults
SPECIFICATION Spec
INVARIANTS ReplyHonest TriggersInOrder  DelayedStartPending
