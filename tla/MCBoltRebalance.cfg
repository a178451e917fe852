SPECIFICATION Spec
CONSTANTS
    PageSize = 5
    Vals = {"a", "w"}
    Wide = {"w"}
    Keys <- SomeKeys
    FirstKeys <- TwelveKeys
    MaxTxs = 1
    MaxOps = 3
    IdsPerPage = 99
    CountMax = 999
INVARIANT WalkYieldsAll
CHECK_DEADLOCK FALSE
