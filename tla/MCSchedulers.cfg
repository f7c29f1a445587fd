SPECIFICATION MCSpec
CONSTANTS
    MaxStk = 2
    MaxAdd = 2
    StreamCap = 2
    ErrorCap = 1
    Receipts = {"r1", "r2"}
    Mine = "r1"
    Clients = {"open", "withdraw"}
    MaxStakerUpdate = 3
    MaxCount = 3
    DataCap = 2
    SkStreamCap = 1
    Programs <- MCPrograms
    Senders = {"s1", "s2"}
    MaxTries = 2
    WQueueCap = 1
    ListValues = {"a", "b"}
    MaxNodes = 4
CHECK_DEADLOCK FALSE
INVARIANTS
    WithdrawProper
    RequestsCurrent
    SendTruthful
PROPERTIES
    EventsNoticed
    NothingAfterCancel
    SendReturns
    ImplementsSeq
