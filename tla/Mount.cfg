SPECIFICATION Spec
CONSTANTS
    Procs = {p1, p2, p3}
    Commands <- mc_Commands
    Sources <- mc_Sources
    Targets <- mc_Targets
    UUIDs <- mc_UUIDs
    FsOn <- mc_FsOn
    DevFolder <- mc_DevFolder
    Fstab <- mc_Fstab
    ListMax = 2
    InitMounts <- mc_InitMounts
    MaxMounts = 3
SYMMETRY Symmetry
INVARIANTS
    TypeOK
    OneMountPerCommand
    FstabInOrder
    QuietListIsCurrent
PROPERTIES
    MountHealsMtab
CHECK_DEADLOCK FALSE
