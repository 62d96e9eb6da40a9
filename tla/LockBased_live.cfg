SPECIFICATION FairSpec
CONSTANTS
    Keys = {1, 2, 3}
    Servers <- MCServers
    ServerOf <- MCServerOf
    Trxs = {"writer1", "writer3", "updater"}
    WriteSet <- MCWriteSet
    ReadSet <- MCReadSet
    Workers = {w1, w2}
    NoTrx = NoTrx
    NoWorker = NoWorker
    MaxTs = 2
    Clock = "any"
    WriteDuration = "LONG"
    ReadDurations = {"LONG", "SHORT", "NONE"}
PROPERTIES
    CommitsMoveForward
    EventuallyTerminates
