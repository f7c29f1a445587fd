SPECIFICATION Spec
CONSTANTS
    Snapshots <- Restarted
    Start = 2
    Length = 1
    PostDelay = 1
    MaxSlot = 3
    MaxVal = 1
    MaxStk = 1
    StreamCap = 2
    MaxGap = 1
    MaxFault = 1
CHECK_DEADLOCK FALSE
INVARIANTS
    TypeOK
    TriggersTimely
    TriggersOnce
    ClosedHistory
    RetriesStop
PROPERTIES
    NoLateInvitation
