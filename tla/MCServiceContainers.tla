------------------------ MODULE MCServiceContainers ------------------------
(* Small instances of ServiceContainers: services in two configurations.    *)
EXTENDS ServiceContainers

CONSTANTS v1, v2

Every(x) == [v \in Version |-> x]
ByVersion(x, y) == [v \in Version |-> IF v = v1 THEN x ELSE y]

\* A plain service whose containers may be rebuilt when the label changes,
\* and which v2 only creates; the console, which another console replaces.
PlainAndConsole ==
    {[console |-> FALSE, createOnly |-> {v2},
      rebuild |-> ByVersion("", "false"), label |-> Every("")],
     [console |-> TRUE, createOnly |-> {},
      rebuild |-> Every("false"), label |-> ByVersion("default", "alpine")]}
=============================================================================
