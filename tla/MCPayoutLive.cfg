SPECIFICATION FairSpec
CONSTANTS
    Snapshots <- Fresh
    Start = 1
    Length = 2
    PostDelay = 1
    MaxSlot = 3
    MaxVal = 1
    MaxStk = 1
    StreamCap = 10
    MaxGap = 0
    MaxFault = 0
CHECK_DEADLOCK FALSE
PROPERTIES ClosesEventually
