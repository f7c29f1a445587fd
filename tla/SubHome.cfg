SPECIFICATION Spec
CONSTANTS
    Clients = {c1, c2, c3}
    BufSize = 2
    ReqCap = 2
    DelCap = 1
    MaxBroadcast = 3
    Filters = {{1, 2, 3}, {1, 3}}
    Replays = TRUE
    ClosesOnExit = TRUE
SYMMETRY ClientSymmetry
INVARIANTS
    TypeOK
    ErrorRoom
    DeleteHitsOwner
    FeedExact
    DroppedIsTold
CHECK_DEADLOCK FALSE
