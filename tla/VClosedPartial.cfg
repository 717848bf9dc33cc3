SPECIFICATION Spec
CONSTANTS
    Groups = {g1}
    g1 = g1
    Sellers = {"exec","tg"}
    Route = "Pumpfun"
    Token2022 = FALSE
    Partials = TRUE
    RpcFails = FALSE
    Lot = 2
    Tries = 1
    MaxAttempts = 1
    MaxSkips = 2
    QueueMax = 1
    MaxCycles = 2
CHECK_DEADLOCK FALSE
INVARIANT ClosedMeansSold
