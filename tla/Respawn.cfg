SPECIFICATION FairRespawn
CONSTANTS
    getty = getty
    sshd = sshd
    Line = {getty, sshd}
    MaxBlank = 1
    Limit = 2
INVARIANTS
    LateStarts Reached
PROPERTIES
    Returns
