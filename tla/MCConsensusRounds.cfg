CONSTANTS
    Wallets = {w1, w2, w3}
    Sigs = {s1}
    Kinds <- MCKinds
    Quorums = {2}
    Timeouts = {2}
    LastSubmit = 2
    MaxNow = 3
    MaxSent = 2
SPECIFICATION Spec
SYMMETRY WalletSymmetry
INVARIANTS UntriggeredBelowQuorum TriggersBackedByQuorum VotesSpanOneWindow
CHECK_DEADLOCK FALSE
