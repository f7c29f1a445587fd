SPECIFICATION MCSpec
CONSTANTS
    Parts = {"cranker", "task", "pipeline", "validator", "close"}
    CkRings <- MCRings
    VaStarts <- MCStarts
    CkPipes = {"p", "q"}
    CkMaxSlot = 5
    RETRY_SLOT = 1
    CpFinish = 2
    CpMaxSlot = 4
    CpTries = 2
    PaPayouts = {"p"}
    PaErrCap = 1
    PaMaxAppend = 1
    PaMaxEnds = 1
    VaPipes = {"A", "B", "C"}
    VaAdmins = {"a", "b"}
    VaPaying = {"A", "C"}
    VaClosing = {"C"}
    VaMaxInfo = 3
    VaMaxLives = 2
    VaSlotLives = 1
    AgentKinds = {"staker", "cranker", "bidder", "pipeline", "validator", "controller", "network", "pricing"}
    Closers = {"a", "b"}
    InCap = 1
CHECK_DEADLOCK FALSE
INVARIANTS
    CranksDue
    OneTaskPerTrigger
    SettingsInForce
    ClosersTold
    CrankStopped
PROPERTIES
    AgentsEnd
    
