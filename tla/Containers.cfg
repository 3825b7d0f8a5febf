SPECIFICATION Spec
CONSTANTS
    v1 = v1
    v2 = v2
    Version = {v1, v2}
    Services <- PlainAndConsole
    Ops = {"up", "create", "start", "stop", "restart", "kill", "delete"}
    Recreate = {"default", "never", "force"}
    Faults = TRUE
    Collects = TRUE
    MaxContainers = 3
    MaxCalls = 3
    MaxCrashes = 1
INVARIANTS
    SyncedOnSuccess OneContainer
PROPERTY
    NeverGone
