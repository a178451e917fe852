SPECIFICATION FairDeleteSpec
CONSTANTS
    LowPriorityMask = 8
    MaxSeq = 3
    Senders = {s1}
    Receivers = {r1}
    NoJob = NoJob
    Conn = c1
    Conns = {c1}
    NoText = NoText
    Texts <- MCTexts
    HighRequests = {h1}
    LowRequests = {}
    MaxCrashes = 0
    MaxFaults = 0
    MaxTroubles = 1
PROPERTY RequestAnswered
CHECK_DEADLOCK FALSE
