SPECIFICATION Spec
CONSTANTS
    Readers = {r1}
    Keys = {1, 2}
    Changes <- SomeChanges
    MapSizes = {8, 16, 32}
    LastPage = 20
    MaxTxid = 4
    MaxTroubles = 1
    SyncMetaFails = TRUE
    IdsPerPage = 5
    CountMax = 99
INVARIANT NothingInUseIsReclaimed
