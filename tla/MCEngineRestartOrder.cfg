SPECIFICATION EngineSpec
CONSTANTS
    LowPriorityMask = 8
    MaxSeq = 4
    Senders = {s1}
    Receivers = {r1}
    NoJob = NoJob
    Conn = c1
    Conns = {c1}
    NoText = NoText
    Texts <- MCTexts
    HighRequests = {h1}
    LowRequests = {l1}
    MaxCrashes = 1
    MaxFaults = 0
    MaxTroubles = 1
PROPERTY HighBeforeLow
CHECK_DEADLOCK FALSE
