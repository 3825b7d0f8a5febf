SPECIFICATION Spec
CONSTANTS
    v1 = v1
    v2 = v2
    boot = boot
    Version = {v1, v2}
    File = {boot}
    Configs <- FiveConfigs
    MaxBoots = 3
    MaxErrors = 1
INVARIANTS
    UsrWhole ConfigKept ServicesHaveImages DoneIsLoaded OneDaemon
PROPERTY
    BootSettles
CHECK_DEADLOCK FALSE
