SPECIFICATION MCSpec
CONSTANTS
    Parts = {"router", "pipeline", "validator", "receipt"}
    Accounts <- MCAccounts
    Kind <- MCKind
    Refers <- MCRefers
    StreamCap = 1
    Chain0 <- MCChain0
    MaxChange = 2
    MaxBlind = 1
    Payouts = {"p1", "p2"}
    Start <- MCStart
    Refunds <- MCRefunds
    PayoutOf <- MCPayoutOf
    Stake <- MCStake
    Votes = {"v"}
    PQueueCap = 1
    Receipts = {"r1", "r2"}
    Managers = {"m1", "m2"}
    RQueueCap = 1
    MaxReceiptUpdate = 2
    UpdateCap = 1
    MaxStake = 1
CHECK_DEADLOCK FALSE
INVARIANTS
    LinksComplete
    RouterConverged
    IndexesExact
PROPERTIES
    OnlyClosedLeave
