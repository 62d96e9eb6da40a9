SPECIFICATION FairSpec
CONSTANTS
    Kinds = {"SEND_RECV", "RDMA_WRITE", "RDMA_WRITE_IMM"}
    Window = 2
    Cells = 4
    MaxRequests = 3
INVARIANTS
    IInv
    IntactMessages
    NoBufferInUse
    ReceiverReady
PROPERTIES
    ClientCloses
    OneAtATime
CHECK_DEADLOCK FALSE
