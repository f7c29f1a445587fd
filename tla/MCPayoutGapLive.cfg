SPECIFICATION FairSpec
CONSTANTS
    Snapshots <- Restarted
    Start = 1
    Length = 1
    PostDelay = 1
    MaxSlot = 2
    MaxVal = 1
    MaxStk = 1
    StreamCap = 10
    MaxGap = 1
    MaxFault = 0
CHECK_DEADLOCK FALSE
PROPERTIES ClosesEventually
