\* Limit and market orders over three prices; cancels may name either side.
CONSTANTS
    Prices = {1, 2, 3}
    IntMin = 0
    IntMax = 4
    Clients = {c1, c2}
    InputClients = {c1}
    InputTypes = {"LIMIT", "MARKET"}
    InputAmounts = {1, 2}
    Inputs <- MCInputs
    MaxOrders = 4
    NodePoolSize = 8
    LevelPoolSize = 8
    U32 = 16
    RightSide = FALSE
SPECIFICATION Spec
INVARIANTS TypeOK CachedBestIsBound Uncrossed
PROPERTIES PriceTimePriority 
CHECK_DEADLOCK FALSE
