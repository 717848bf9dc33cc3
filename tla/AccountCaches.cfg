SPECIFICATION Spec
CONSTANTS
    Mints = {m1}
    m1 = m1
    Kinds = {"curve", "ata"}
    Warmers = {"loop"}
    Cleaners = {"exec"}
    MaxWarms = 2
CHECK_DEADLOCK FALSE
INVARIANTS BalancesAreBacked OneFetch
