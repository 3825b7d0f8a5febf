SPECIFICATION FairSpec
CONSTANTS
    Physical <- MCPhysical
    Wireless <- MCWireless
    Wild <- MCWild
    Mac <- MCMac
    Lease <- MCLease
    Reach <- MCReach
    MaxFaults = 1
    k1 = k1
    k2 = k2
    Key = {k1, k2}
    MaxRetries = 2
    Machines <- MCMachines
    MaxBoots = 2
INVARIANTS
    NoneOnlyIfNone UserDataFirst Converges
PROPERTIES
    KeysAuthorized NeverOlder SaveEnds
CHECK_DEADLOCK FALSE
