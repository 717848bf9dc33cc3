CONSTANTS
    Wallets = {w1, w2}
    Sigs = {s1, s2}
    Kinds <- TwoKinds
    Quorums = {2, 3}
    Timeouts = {0, 2}
    LastSubmit = 2
    MaxNow = 4
    MaxSent = 1
SPECIFICATION FairSpec
INVARIANTS TypeOK OneVotePerWallet UntriggeredBelowQuorum TriggersBackedByQuorum VotesSpanOneWindow
PROPERTIES FiredRoundHolds ImplementsQuorumTrigger EventuallyForgotten
CHECK_DEADLOCK FALSE
