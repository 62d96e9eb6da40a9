SPECIFICATION Spec
CONSTANTS
    Keys = {"x", "y"}
    Workers = {w1, w2}
    NoKey = "none"
    NoWorker = NoWorker
    Trxs = {1, 2, 3}
    Loaders = {1}
    WriteSet <- MCWriteSet
    Length <- MCLength
    ENTRY_NUM = 3
    MaxGets = 3
    Copies = {"main"}
    Loads = {TRUE}
INVARIANT ReadsIntact
CHECK_DEADLOCK FALSE
