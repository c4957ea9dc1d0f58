\* A level whose total does not fit in Depth.
CONSTANTS
    Prices = {1, 2}
    IntMin = 0
    IntMax = 4
    Clients = {c1, c2}
    InputClients = {c1}
    InputTypes = {"LIMIT", "MARKET"}
    InputAmounts = {2, 3}
    Inputs <- MCInputs
    MaxOrders = 2
    NodePoolSize = 8
    LevelPoolSize = 8
    U32 = 4
    RightSide = TRUE
SPECIFICATION FeedSpec
INVARIANT FeedRebuildsBook
CHECK_DEADLOCK FALSE
