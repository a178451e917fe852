SPECIFICATION TwitterSpec
CONSTANTS
    LowPriorityMask = 8
    MaxSeq = 2
    Senders = {s1}
    Receivers = {r1}
    NoJob = NoJob
    Conn = c1
    Conns = {c1}
    NoText = NoText
    Texts <- MCTwitterTexts
    HighRequests = {}
    LowRequests = {}
    MaxCrashes = 1
    MaxFaults = 0
    MaxTroubles = 1
    Messages = {m1}
    OwnMessages = {o1}
    MaxLimits = 1
INVARIANT FinishesQuietly
CHECK_DEADLOCK FALSE
