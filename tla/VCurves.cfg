SPECIFICATION Spec
CONSTANTS
    Mints = {m1}
    m1 = m1
    Kinds = {"curve", "ata"}
    Warmers = {"loop"}
    Cleaners = {"exec"}
    MaxWarms = 1
CHECK_DEADLOCK FALSE
INVARIANTS CurvesAreBacked
