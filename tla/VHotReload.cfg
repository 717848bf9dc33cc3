CONSTANTS
    w1 = w1
    w2 = w2
    s1 = s1
    Wallets = {w1, w2}
    Sigs = {s1}
    Txs <- MCTxs
    MaxChanges = 1
    MaxFails = 0
    MaxTrades = 0
SPECIFICATION FairSpec
PROPERTY HotReload
CHECK_DEADLOCK FALSE
