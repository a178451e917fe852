SPECIFICATION FairSpec
CONSTANTS
    LowPriorityMask = 4
    Senders = {s1}
    Receivers = {r1}
    OutIds = {1, 5}
    InIds = {6}
    EchoOf <- MCEchoOf
    NoJob = NoJob
PROPERTY StopReturns
CHECK_DEADLOCK FALSE
