SPECIFICATION FairSpec
CONSTANTS
    c1 = c1
    c2 = c2
    syslog = syslog
    dockerd = dockerd
    console = console
    old = old
    reboot = reboot
    halt = halt
    Command = {c1, c2}
    Name = {reboot, halt}
    Service = {syslog, dockerd}
    Console = console
    Old = old
    MayExit = {syslog, dockerd}
    Faults = TRUE
    MayForce = TRUE
    MayKexec = TRUE
    ContainerList <- NewestFirst
INVARIANTS
    StopsConsole ConsoleLast SomeoneStarts
PROPERTY
    EventuallyDown
