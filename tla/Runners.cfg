SPECIFICATION RunnersSpec
CONSTANTS
    Caps <- mc_Caps
    OwnCaps <- mc_OwnCaps
    Files = {"/bin", "/dev/tty"}
    Words <- mc_Words
    MaxOptions = 3
    MaxWords = 2
    Statuses = {0, 1, 2}
    Intervals <- mc_Intervals
    Codes = {0, 1, 2}
    Widths <- mc_Widths
    HeaderLen = 3
    TimeLen = 2
    Modulus = 16
INVARIANTS
    TypeOK
    RunsRestricted
    ZeroIsTheCommands
    WatchTypeOK
    HeaderFillsLine
PROPERTIES
    ExecmacEnds
    StopsAfterFailure
    CommandsApart
    WatchGoesOn
CHECK_DEADLOCK FALSE
