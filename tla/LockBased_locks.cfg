SPECIFICATION Spec
CONSTANTS
    Keys = {1, 2}
    Servers <- MCServers
    ServerOf <- MCServerOf
    Trxs = {"writer1", "updater", "reader"}
    WriteSet <- MCWriteSet
    ReadSet <- MCReadSet
    Workers = {w1, w2, w3}
    NoTrx = NoTrx
    NoWorker = NoWorker
    MaxTs = 2
    Clock = "distinct"
    WriteDuration = "LONG"
    ReadDurations = {"LONG", "SHORT"}
INVARIANTS
    IInv
    NoCircularWait
    NoDirtyReads
    RepeatableReads
    NoLockLeft
PROPERTY AtomicallyVisible
SYMMETRY WorkerSymmetry
