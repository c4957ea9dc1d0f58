\* A market sell that carries a price.
CONSTANTS
    Prices = {1, 2}
    IntMin = 0
    IntMax = 4
    Clients = {c1, c2}
    InputClients = {c1}
    InputTypes = {"LIMIT", "MARKET"}
    InputAmounts = {1, 2}
    Inputs <- MCInputs
    MaxOrders = 2
    NodePoolSize = 8
    LevelPoolSize = 8
    U32 = 16
    RightSide = TRUE
SPECIFICATION Spec
PROPERTY MarketSellIgnoresPrice
CHECK_DEADLOCK FALSE
