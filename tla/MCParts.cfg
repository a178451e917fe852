SPECIFICATION PartsSpec
CONSTANTS
    LowPriorityMask = 4
    Ids = {1, 2, 3, 5, 6, 7}
    MaxLen = 4
    PageSize = 5
    IdsPerPage = 99
    CountMax = 999
    Vals = {"a", "w"}
    Wide = {"w"}
    MaxTxs = 2
    MaxOps = 2
    Handlers = {r1, r2, r3}
    Senders = {s1}
    Receivers = {v1}
    NoJob = NoJob
    Conn = c1
    Conns = {u1, u2}
    NoText = NoText
    Texts = {text}
    Said <- ConnectionTexts
    MaxSaid = 2
    HighRequests = {h1}
    LowRequests = {}
    MaxSeq = 1
    MaxCrashes = 1
    MaxFaults = 1
    MaxTroubles = 1
    Messages = {m1}
    OwnMessages = {o1}
    MaxLimits = 1
SYMMETRY PartsSymmetry
INVARIANTS
    PartsTypeOK HoldsLastPut TreeIsSound
    SavedIsServed DeletedIsGone StatusCountsEach
    EachMessageSavedOnce SentOncePerRun
    RoutesAsRegistered CleansPaths ReadsJson FindsParts ReadsConfiguration
PROPERTY RefinesSortedList GoneStaysGone
CHECK_DEADLOCK FALSE
