SPECIFICATION Spec
CONSTANTS
    w1 = w1
    w2 = w2
    s1 = s1
    s2 = s2
    s3 = s3
    s4 = s4
    Wallets = {w1, w2}
    Sigs = {s1, s2, s3, s4}
    Txs <- MCTxs
    Settings <- MCSettings
    MaxReports = 3
    MaxEdits = 1
    MaxForgets = 1
    MaxNow = 1
INVARIANTS
    BuysAreBacked
    FailedTradesHaveNoVote
PROPERTIES
    FollowSellsSent
    SecondLookIsBetter
    FailedTradesTriggerNothing
CHECK_DEADLOCK FALSE
