SPECIFICATION FairSpec
CONSTANTS
    Readers = {r1, r2}
    Keys = {1, 2}
    Changes <- SomeChanges
    MapSizes = {8, 16, 32}
    LastPage = 20
    MaxTxid = 4
    MaxTroubles = 1
    SyncMetaFails = FALSE
    IdsPerPage = 5
    CountMax = 99
INVARIANTS BoltTypeOK PagesPartitioned NothingInUseIsReclaimed UsedIsMapped
PROPERTY KeepsSnapshots WriterFinishes
