SPECIFICATION Spec
CONSTANTS
    ThreadCount = 2
    RecordCount = 3
    OperationCount = 3
    TransactionLength = 2
    WINDOW_SIZE = 2
INVARIANTS
    IInv
    PureTransactions
    LimitAcknowledged
    HandlerAlive
    OperationsDone
    LoadsEveryRecord
PROPERTY EventuallyExits
CHECK_DEADLOCK FALSE
