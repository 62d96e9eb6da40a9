SPECIFICATION Spec
CONSTANTS
    Keys = {"x", "y"}
    Workers = {w1, w2}
    NoKey = "none"
    NoWorker = NoWorker
    Trxs = {1, 2, 3}
    Loaders = {1}
    WriteSet <- MCWriteSet
    Length <- MCLength
    ENTRY_NUM = 3
    MaxGets = 2
    Copies = {"main", "ycsb"}
    Loads = {TRUE, FALSE}
INVARIANTS
    IInv
    OneKeyPerEntry
    EntryWhole
    ReadsPrepared
    AddressesCurrent
    NoCrash
    ReadsEnd
SYMMETRY WorkerSymmetry
CHECK_DEADLOCK FALSE
