CONSTANTS
    w1 = w1
    w2 = w2
    NaN = NaN
    Wallets = {w1, w2}
    Config <- MCConfig
    Commands <- MCCommands
    EventKinds = {"told", "bought", "closed"}
    HasZeroSlot = TRUE
    AutoStart = FALSE
    MaxUpdates = 2
    MaxEvents = 1
    MaxFails = 1
    MaxCrashes = 1
SPECIFICATION Spec
INVARIANT GroupsPersisted
CHECK_DEADLOCK FALSE
