SPECIFICATION Spec
CONSTANTS
    Keys = {"x", "y", "z"}
    Servers <- MCServers
    ServerOf <- MCServerOf
    Trxs = {"writer4", "writer1", "reader"}
    WriteSet <- MCWriteSet
    ReadSet <- MCReadSet
    Workers = {w1, w2, w3}
    NoKey = NoKey
    NoTrx = NoTrx
    MaxTs = 2
    TrxType = "RAMP_FAST"
    CommitAssigns = TRUE
    DistinctTs = TRUE
INVARIANTS
    VisibleIsPrepared
    ReadAtomic
    SecondRoundHits
    ReadsArePrepared
    IInv
PROPERTY AtomicallyVisible
SYMMETRY WorkerSymmetry
