SPECIFICATION FairSpec
CONSTANTS
    ros = ros
    console = console
    network = docker2
    Direct = {ros}
    Shared = {console, network}
    MaxRestarts = 2
INVARIANTS
    ClientAnswered HangsOnlyLate
PROPERTY
    Answers
