\* A market buy that fills below its price.
CONSTANTS
    Prices = {1, 2}
    IntMin = 0
    IntMax = 4
    Clients = {c1, c2}
    InputClients = {c1}
    InputTypes = {"LIMIT", "MARKET"}
    InputAmounts = {1, 2}
    Inputs <- MCInputs
    MaxOrders = 2
    NodePoolSize = 8
    LevelPoolSize = 8
    U32 = 16
    RightSide = TRUE
SPECIFICATION FeedSpec
PROPERTY MarketReleasesAll
CHECK_DEADLOCK FALSE
