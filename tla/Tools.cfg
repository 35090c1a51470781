SPECIFICATION ToolsSpec
CONSTANTS
    Users = {"root", "ann"}
    Texts = {"ls"}
    Numbers = {"5", "7up"}
    ValueOf <- mc_ValueOf
    Caller = "ann"
    OwnGroup = 1
    MaxWords = 4
    Tools = {1, 2}
    Targets <- mc_Targets
    Ids <- mc_Ids
    Zero = "0"
    Members <- mc_Members
    Increments <- mc_Increments
    InitNice <- mc_InitNice
    NiceMin <- mc_NiceMin
    NiceMax = 5
    Half = 7
INVARIANTS
    SuTypeOK
    SuAsAsked
    NewgrpAsAsked
    TypeOK
    WithinIncrements
    PdTypeOK
    CommandsAnswerButtons
PROPERTIES
    HeldButtonsAnswered
CHECK_DEADLOCK FALSE
