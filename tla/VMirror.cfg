SPECIFICATION Spec
CONSTANTS
    w1 = w1
    w2 = w2
    s1 = s1
    s2 = s2
    s3 = s3
    s4 = s4
    Wallets = {w1, w2}
    Sigs = {s1, s2, s3}
    Txs <- WrapperTxs
    Settings <- VoteSettings
    MaxReports = 3
    MaxEdits = 0
    MaxForgets = 0
    MaxNow = 1
INVARIANT
    MirrorReused
CHECK_DEADLOCK FALSE
