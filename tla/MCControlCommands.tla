------------------------- MODULE MCControlCommands -------------------------
(***************************************************************************)
(* A system with two consoles, an engine, two services and a Docker-in-    *)
(* Docker engine.  One service is included by a file in cloud-config.d, and *)
(* the kernel command line turns it off.                                   *)
(***************************************************************************)
EXTENDS ControlCommands

CONSTANTS web, log, dind, alpine, base, e1, latest, s1, s2

TwoShells == <<s1, s2>>
Svc(on) == [n \in Names |-> IF n = on THEN "on" ELSE None]
Bare == [console |-> None, engine |-> None, key |-> None, pub |-> None, svc |-> Svc(None)]
SystemConfig == [Bare EXCEPT !.console = base, !.engine = latest, !.svc = Svc(log)]
KernelConfig == [Bare EXCEPT !.svc[log] = "off"]
UserConfig == [Bare EXCEPT !.svc = Svc(web)]
=============================================================================
