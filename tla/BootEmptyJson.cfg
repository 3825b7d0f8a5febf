SPECIFICATION Spec
CONSTANTS
    v1 = v1
    v2 = v2
    boot = boot
    Version = {v1, v2}
    File = {boot}
    Configs <- OneConfig
    MaxBoots = 2
    MaxErrors = 0
INVARIANT
    NoEmptyJson
CHECK_DEADLOCK FALSE
