SPECIFICATION Spec
CONSTANTS
    Groups = {g1}
    g1 = g1
    Sellers = {"exec"}
    Route = "Pumpfun"
    Token2022 = FALSE
    Partials = FALSE
    RpcFails = FALSE
    Lot = 1
    Tries = 1
    MaxAttempts = 1
    MaxSkips = 2
    QueueMax = 1
    MaxCycles = 1
CHECK_DEADLOCK FALSE
PROPERTY AnnouncedBuyIsActive
