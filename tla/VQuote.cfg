SPECIFICATION Spec
CONSTANTS
    u1 = u1
    u2 = u2
    Users = {u1, u2}
    Us = us
    Supply = 200
    FirstSol = 3
    Coins <- MCCoins
    Mirrors <- MCMirrors
    Targets <- MCTargets
    Curves <- MCCurves
    Amounts = {1}
    Slippages = {5000}
    MaxChanges = 1
CHECK_DEADLOCK FALSE
INVARIANTS
    EveryQuoteChecked
