SPECIFICATION Spec
CONSTANTS
    c1 = c1
    c2 = c2
    syslog = syslog
    dockerd = dockerd
    console = console
    old = old
    reboot = reboot
    halt = halt
    Command = {c1}
    Name = {reboot}
    Service = {syslog, dockerd}
    Console = console
    Old = old
    MayExit = {console}
    Faults = FALSE
    MayForce = FALSE
    MayKexec = FALSE
    ContainerList <- NewestFirst
INVARIANT
    StopsConsole
