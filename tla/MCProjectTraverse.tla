------------------------- MODULE MCProjectTraverse -------------------------
(* Small instances of ProjectTraverse.  The services are named as in        *)
(* os-config.tpl.yml: network asks for a reload, console is loaded again by *)
(* every callback, docker runs after console, app is a user service.        *)
EXTENDS ProjectTraverse

CONSTANTS network, console, docker, app

Sys(links, after, before) ==
    [links |-> links, after |-> after, before |-> before,
     syslog |-> FALSE, system |-> TRUE]
User(links, after, before) == [Sys(links, after, before) EXCEPT !.system = FALSE]
Syslogged(c) == [c EXCEPT !.syslog = TRUE]

\* The shipped configuration.
Shipped == [s \in Service |->
    CASE s = network -> Sys({}, {}, {})
      [] s = console -> Sys({}, {network}, {})
      [] s = docker  -> Sys({}, {console}, {})
      [] OTHER       -> User({}, {}, {})]

\* Optional cycles: network after console and before docker, app links console.
Looped == [s \in Service |->
    CASE s = network -> Sys({}, {console}, {docker})
      [] s = console -> Sys({}, {network}, {})
      [] s = docker  -> Sys({}, {app}, {})
      [] OTHER       -> User({console}, {network}, {})]

\* A required dependency on top of an optional one, and a required cycle.
Tangled == [s \in Service |->
    CASE s = network -> Sys({docker}, {docker}, {})
      [] s = console -> Syslogged(Sys({}, {docker}, {app}))
      [] s = docker  -> Sys({}, {network, console}, {})
      [] OTHER       -> User({docker}, {}, {docker})]

Cyclic == [Shipped EXCEPT ![console] = Sys({app}, {network}, {}),
                          ![app] = User({console}, {}, {network})]

AllVersions == {Shipped, Looped, Tangled, Cyclic}
=============================================================================
