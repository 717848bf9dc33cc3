SPECIFICATION Spec
CONSTANTS
    Groups = {g1}
    g1 = g1
    Sellers = {"exec", "tg"}
    Route = "ExternalJupiter"
    Token2022 = TRUE
    Partials = FALSE
    RpcFails = FALSE
    Lot = 2
    Tries = 2
    MaxAttempts = 2
    MaxSkips = 2
    QueueMax = 1
    MaxCycles = 2
CHECK_DEADLOCK FALSE
INVARIANT ClosedMeansSold
