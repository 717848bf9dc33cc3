SPECIFICATION FairSpec
CONSTANTS
    Mints = {m1, m2}
    m1 = m1
    m2 = m2
    Kinds = {"ata"}
    Warmers = {"loop"}
    Cleaners = {"exec"}
    MaxWarms = 2
CHECK_DEADLOCK FALSE
PROPERTIES SubscriptionFollows
