SPECIFICATION Spec
CONSTANTS
    Procs = {p1}
    Commands <- mc_TypedCommands
    Sources <- mc_Sources
    Targets <- mc_Targets
    UUIDs <- mc_UUIDs
    FsOn <- mc_FsOn
    DevFolder <- mc_DevFolder
    Fstab <- mc_Fstab
    ListMax = 2
    InitMounts <- mc_InitMounts
    MaxMounts = 3
INVARIANTS
    ReadOnlyHonoured
CHECK_DEADLOCK FALSE
