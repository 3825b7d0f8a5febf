SPECIFICATION Spec
CONSTANTS
    sda = sda
    v1 = v1
    v2 = v2
    k1 = k1
    k2 = k2
    quiet = quiet
    Version = {v1, v2}
    Parameters <- Given
    NoAppend = ""
    Disks <- OneDisk
    Vmlinuz <- OwnKernels
    Commands <- AllTypes
    UpgradeLines <- ManyUpgrades
    MaxRuns = 3
    MaxCrashes = 1
    MaxErrors = 2
INVARIANTS
    Fallback SuccessBoots AppendKept
CHECK_DEADLOCK FALSE
