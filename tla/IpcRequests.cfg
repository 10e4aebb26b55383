SPECIFICATION FairSpec
CONSTANTS
    c1 = c1
    notification = notification
    log_status = log_status
    Core <- OneCore
    Msg <- TwoMsgs
    HighPriority <- LogOnly
    LogStatus <- LogOnly
    MaxRequests = 3
    MaxEvents = 2
INVARIANTS HostSignalledLast ExactlyOneReply ReplyMatches QueueSound StatusBelongs
PROPERTY RequestAnswered
CHECK_DEADLOCK FALSE
