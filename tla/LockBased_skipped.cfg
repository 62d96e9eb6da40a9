SPECIFICATION Spec
CONSTANTS
    Keys = {1, 2}
    Servers <- MCServers
    ServerOf <- MCServerOf
    Trxs = {"writer1", "writer2"}
    WriteSet <- MCWriteSet
    ReadSet <- MCReadSet
    Workers = {w1, w2, w3}
    NoTrx = NoTrx
    NoWorker = NoWorker
    MaxTs = 2
    Clock = "increasing"
    WriteDuration = "LONG"
    ReadDurations = {"LONG"}
INVARIANTS
    PutsTakeEffect
