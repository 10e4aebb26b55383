SPECIFICATION FairSpec
CONSTANTS
    Size <- TwoSegments
    SourceSize = 2
    HostSize = 2
    DrainReq = {1, 2, 3}
    SampleMod = 8
    Late = TRUE
INVARIANTS StreamIntact StagedFits DrainingHasTask
PROPERTIES HistoryDelivered
CHECK_DEADLOCK FALSE
