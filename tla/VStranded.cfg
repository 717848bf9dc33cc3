SPECIFICATION Spec
CONSTANTS
    Groups = {g1}
    g1 = g1
    Sellers = {"exec", "tg"}
    Route = "Pumpfun"
    Token2022 = FALSE
    Partials = FALSE
    RpcFails = FALSE
    Lot = 1
    Tries = 1
    MaxAttempts = 2
    MaxSkips = 2
    QueueMax = 1
    MaxCycles = 3
CHECK_DEADLOCK FALSE
INVARIANT SellingHasSeller
