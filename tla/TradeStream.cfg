CONSTANTS
    w1 = w1
    w2 = w2
    s1 = s1
    Wallets = {w1, w2}
    Sigs = {s1}
    Txs <- MCTxs
    MaxChanges = 2
    MaxFails = 1
    MaxTrades = 1
SPECIFICATION FairSpec
INVARIANTS InternalFirst ProgramOfMint
PROPERTY WalletsFollowed
CHECK_DEADLOCK FALSE
