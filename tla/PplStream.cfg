CONSTANTS
    p1 = p1
    p2 = p2
    c0 = c0
    c1 = c1
    None = None
    Ppl <- Two
    N = 2
    Core <- OneCore
    IpcCore = c0
    Upstream <- Linked
    Delay <- ShortDelay
    WaitTicks = 3
    NoPause = {}
    Fault <- StreamFaults
SPECIFICATION FairSpec
INVARIANTS ActiveIsScheduled RunningMeansActive
PROPERTY Answered
