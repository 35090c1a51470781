SPECIFICATION AttachedInTimeSpec
CONSTANTS
    Threads = {t1}
    Makes = {"exec", "create_thread"}
    RetVals = {"exit", "other"}
    PipeCap = 2
    MaxCalls = 2
INVARIANTS
    NeverNonsensical
CHECK_DEADLOCK FALSE
