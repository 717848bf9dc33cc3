SPECIFICATION FairSpec
CONSTANTS
    Groups = {g1}
    g1 = g1
    Sellers = {"exec"}
    Route = "Pumpfun"
    Token2022 = FALSE
    Partials = FALSE
    RpcFails = TRUE
    Lot = 2
    Tries = 2
    MaxAttempts = 2
    MaxSkips = 2
    QueueMax = 1
    MaxCycles = 2
CHECK_DEADLOCK FALSE
INVARIANT SellingHasSeller
PROPERTIES SellingEnds ConfirmingEnds
