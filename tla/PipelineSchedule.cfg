SPECIFICATION Spec
CONSTANTS
    MaxSlot = 4
    MaxPeriod = 3
    MaxTrigger = 3
    Lengths = {1, 2}
    LookAheads = {0, 3}
    TooClose = 2
    EventCap = 1
    StartUp = 1
    MaxGap = 1
CHECK_DEADLOCK FALSE
INVARIANTS
    TypeOK
    OneLiveTrigger
    TriggerAhead
    EventsExact
