SPECIFICATION FairSpec
CONSTANTS
    Threads = {t1, t2}
    Makes = {"exec", "create_thread", "fork"}
    RetVals = {"exit", "other"}
    PipeCap = 2
    MaxCalls = 2
INVARIANTS
    TypeOK
    Pairing
    CleanRecordsPrintedRight
PROPERTIES
    PromiseSpec
    EndsAfterChild
    RecordsGetPrinted
CHECK_DEADLOCK FALSE
