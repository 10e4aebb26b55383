SPECIFICATION Spec
CONSTANTS
    Size <- TwoSegments
    SourceSize = 2
    HostSize = 2
    DrainReq = {1, 2, 3}
    SampleMod = 8
    Late = FALSE
INVARIANT DrainKeepsSink
CHECK_DEADLOCK FALSE
