-------------------------- MODULE MCPowerShutdown --------------------------
(* Small instances of PowerShutdown.                                        *)
EXTENDS PowerShutdown

CONSTANTS c1, c2, syslog, dockerd, console, old, reboot, halt

\* ContainerList sorts by age: the power containers are the newest, the
\* console is younger than one service and older than another.
Ages == <<c2, c1, dockerd, console, syslog, old>>
NewestFirst(running) == SelectSeq(Ages, LAMBDA c : c \in running)
=============================================================================
