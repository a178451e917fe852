SPECIFICATION FairSpec
CONSTANTS
    LowPriorityMask = 4
    Senders = {s1}
    Receivers = {r1, r2}
    OutIds = {1}
    InIds = {2}
    EchoOf <- MCEchoOfOne
    NoJob = NoJob
INVARIANTS
    TypeOK OneTokenPerWorker BlocksOnlyOnExited EachInOnePlace QueuesWellFormed
    StopWaitsForBegun
PROPERTY SmallestFirst EveryMessageFinishes WorkersLeave
CHECK_DEADLOCK FALSE
