SPECIFICATION FairSpec
CONSTANTS
    Words <- mc_Words
    Lines <- mc_Lines
    UserMax = 2
    Passwd <- mc_Passwd
    MaxTyped = 2
INVARIANTS
    TypeOK
    PasswordUnseen
    EchoAsFound
    ShellUndisturbed
    UtmpNamesUsers
PROPERTIES
    SessionEarned
    PromptAgain
CHECK_DEADLOCK FALSE
