SPECIFICATION ACSpec
CONSTANTS
    Keys = {"x", "y"}
    Servers <- MCServers
    ServerOf <- MCServerOf
    Trxs = {"writerX", "updater", "reader"}
    WriteSet <- MCWriteSet
    ReadSet <- MCReadSet
    Workers = {w1, w2}
    NoKey = NoKey
    NoTrx = NoTrx
    MaxTs = 2
    TrxType = "RAMP_FAST"
    CommitAssigns = TRUE
    DistinctTs = TRUE
INVARIANTS
    CachePrepared
    CacheFresh
PROPERTY IntactlyVisible
SYMMETRY WorkerSymmetry
VIEW LiveVars
