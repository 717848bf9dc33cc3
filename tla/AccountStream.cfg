SPECIFICATION FairSpec
CONSTANTS
    Mints = {m1}
    m1 = m1
    Kinds = {"curve", "ata"}
    Warmers = {"loop"}
    Cleaners = {"pruner"}
    MaxWarms = 1
CHECK_DEADLOCK FALSE
PROPERTIES FetchesEnd SubscriptionGrows
