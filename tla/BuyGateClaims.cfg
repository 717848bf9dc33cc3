SPECIFICATION FairSpec
CONSTANTS
    Tasks = {t1, t2, t3}
    t1 = t1
    t2 = t2
    t3 = t3
    Keys = {k1, k2}
    k1 = k1
    k2 = k2
    Lanes = {"native", "wrapper"}
    Permits <- BothLanes
    Cooldown = 2
    StaleAfter = 2
CHECK_DEADLOCK FALSE
INVARIANTS TypeOK OneBuyUnlessOverrun
PROPERTIES CooldownHonoured ClaimsEnd
