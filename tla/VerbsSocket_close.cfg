SPECIFICATION FairSpec
CONSTANTS
    Kinds = {"SEND_RECV"}
    Window = 2
    Cells = 4
    MaxRequests = 3
INVARIANT CloseSent
CHECK_DEADLOCK FALSE
