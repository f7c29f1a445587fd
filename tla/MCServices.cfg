SPECIFICATION MCSpec
CONSTANTS
    Parts = {"payout", "answers", "sub", "slot", "network", "price",
             "relay", "bids", "crowd", "forward"}
    Users = {"a", "b"}
    Receipts = {"r2", "r3", "r4"}
    QueueCap = 2
    MaxUpdate = 2
    Clients = {"x", "y"}
    BufSize = 1
    ReqCap = 1
    DelCap = 1
    MaxBroadcast = 2
    Filters = {{1, 2}}
    ShMaxSlot = 5
    ShLag = 2
    ShStreamCap = 2
    ShCallers = {"x", "y"}
    NtMaxBlock = 4
    NtMaxNil = 1
    NtRawCap = 2
    NtSubCap = 2
    PrPayouts = {"p", "q"}
    PrErrCap = 1
    BidLists <- MCBidLists
    ValidatorOf <- MCValidatorOf
    RyPayouts = {0, 1}
    RyBooks <- MCBooks
    RyMaxSlot = 1
    RyMaxBook = 3
    RyMaxTps = 2
    RyLen = 1
    RyUsers = {"a", "b"}
    RyCap = 1
    RyReqCap = 1
    YrCallers = {"x", "y"}
    YrMaxTime = 2
    YrMaxTps = 1
CHECK_DEADLOCK FALSE
INVARIANTS
    PublishedRight
    PayoutsFiledOnce
PROPERTIES
    PayoutSteady
    CallersAnswered
    NewsArrives
    ServicesEnd
