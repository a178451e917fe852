SPECIFICATION Spec
CONSTANTS
    LowPriorityMask = 4
    Senders = {s1}
    Receivers = {r1}
    OutIds = {1}
    InIds = {6}
    EchoOf <- MCEchoOfOne
    NoJob = NoJob
INVARIANT StopWaitsForAll
CHECK_DEADLOCK FALSE
