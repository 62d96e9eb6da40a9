SPECIFICATION FreshFairSpec
CONSTANTS
    Keys = {"x", "y", "z"}
    Servers <- MCServers
    ServerOf <- MCServerOf
    Trxs = {"writer1", "updaterZ", "reader"}
    WriteSet <- MCWriteSet
    ReadSet <- MCReadSet
    Workers = {w1, w2}
    NoKey = NoKey
    NoTrx = NoTrx
    MaxTs = 2
    TrxType = "RAMP_FAST"
    CommitAssigns = TRUE
    DistinctTs = TRUE
INVARIANTS
    FreshReads
    FreshInv
PROPERTIES
    EventuallyTerminates
