SPECIFICATION Spec
CONSTANTS
    own = own
    ended = ended
    other = other
    zero = zero
    None = None
    Highest = 4
    Things <- mc_Things
    Room = 2
    Mine <- mc_Mine
    Exited = {ended, zero}
    Unreadable = {other}
    Unnamed = {ended}
    ZeroNamed = {zero}
    Files = 2
    InitTables <- mc_InitTables
    MaxChanges = 2
INVARIANTS
    TypeOK
    SpoiltByGrowth
    LinesWereTrue
    ScansSeeWhatLasts
PROPERTY
    PromiseSpec
CHECK_DEADLOCK FALSE
