-------------------------- MODULE ControlCommands --------------------------
(***************************************************************************)
(* The ros commands that change a running system: service, console, engine *)
(* and config.  They run in shells, in the console container; a switch of  *)
(* the console runs in a container of its own, for it stops the console    *)
(* and everything in it.  They share the user's configuration file, which  *)
(* no one locks, the compose file of the Docker-in-Docker engines, the     *)
(* images, and the containers "console" and "docker".                      *)
(*                                                                         *)
(* A command is the sequence of its steps; between two steps other         *)
(* commands run, a shell is killed with its console, or the machine goes   *)
(* down and boots again.                                                   *)
(***************************************************************************)
EXTENDS Naturals, Sequences, FiniteSets

CONSTANTS
    Shell,              \* where users run commands: a sequence
    Services, Dinds,    \* services; Docker-in-Docker engines ("ros engine create")
    Consoles, Default,  \* consoles; the one that is part of the system
    Engines, Latest,    \* Docker engines; the engine a new system is set to
    Below, Cmdline,     \* the configuration under the user's file, and over it
    First,              \* the user's file of a new system
    None,               \* a value that is not set, a container that is not there
    Torn,               \* a file whose writing was cut off
    Commands,           \* the commands users give: [do |-> ..., arg |-> ...]
    MaxCommands, MaxFaults      \* bounds; faults are errors and crashes

Names == Services \cup Dinds

\* Configurations: console, engine, services_include, and the saved SSH host key
\* with its public half.
Configs == [console : Consoles \cup {None}, engine : Engines \cup {Latest, None},
            svc : [Names -> {"on", "off", None}],
            key : Nat \cup {None}, pub : Nat \cup {None}]

ASSUME ControlAssumption ==
    /\ MaxCommands \in Nat /\ MaxFaults \in Nat
    /\ Default \in Consoles /\ Latest \notin Engines
    /\ {Below, Cmdline, First} \subseteq Configs

\* switch: the switch-console container.  init: ros console-init, in the
\* console.  first: the "ros engine switch" that console-init runs.
Shells == {Shell[i] : i \in DOMAIN Shell}
Processes == Shells \cup {"switch", "init", "first"}
InConsole == Processes \ {"switch"}

\* The commands there are, and their arguments.
CommandLines ==
    [do : {"enable", "disable", "delete", "config-merge"}, arg : Services]
    \cup [do : {"config-set", "console-enable", "console-switch"}, arg : Consoles]
    \cup [do : {"engine-enable", "engine-switch"}, arg : Engines]
    \cup [do : {"create", "rm"}, arg : Dinds]
ASSUME CommandAssumption == Commands \subseteq CommandLines

\* Names stand for different things.
ASSUME NameAssumption ==
    /\ Shells \cap {"switch", "init", "first"} = {} /\ Services \cap Dinds = {}
    /\ None \notin Nat \cup {"on", "off"} \cup Engines
    /\ None \notin Configs \cup [Dinds -> BOOLEAN] /\ Torn \notin [Dinds -> BOOLEAN]

\* A new system: an engine is configured, which is not one to be pulled, and no
\* engine is included that nobody has created.
ASSUME NewSystem ==
    /\ Below.engine # None /\ First.engine \in {None, Latest}
    /\ \A d \in Dinds : "on" \notin {Below.svc[d], First.svc[d], Cmdline.svc[d]}

VARIABLES
    file,               \* /var/lib/rancher/conf/cloud-config.yml
    compose, scripts,   \* m-user-docker.yml; the engines with a docker-<name>
    images,             \* images of consoles, engines and services on the disk
    con, conUp,         \* the console container: which console; whether it runs
    hostKey, keys,      \* its SSH host key, 0 if none; keys generated so far
    done,               \* /run/console-done
    dock, dockUp,       \* the docker container: its engine; how far it has come
    engineId,           \* /var/lib/docker/engine-id
    dinds,              \* Docker-in-Docker engines that run
    pr,                 \* the processes
    given, faults,
    mishaps             \* history: what went wrong so far

store == <<file, compose, scripts, images>>
boxes == <<con, conUp, hostKey, keys, done, dock, dockUp, engineId, dinds>>
count == <<given, faults>>
vars  == <<store, boxes, pr, count, mishaps>>

-----------------------------------------------------------------------------
(* The configuration.                                                      *)

Over(l, r) == IF r = None THEN l ELSE r

\* util.Merge: maps are merged, anything else is replaced.
Merge(l, r) ==
    [console |-> Over(l.console, r.console), engine |-> Over(l.engine, r.engine),
     key |-> Over(l.key, r.key), pub |-> Over(l.pub, r.pub),
     svc |-> [n \in Names |-> Over(l.svc[n], r.svc[n])]]

\* LoadConfig: the system's files, cloud-config.d, the user's file, the kernel
\* command line.
LoadConfig(f) == Merge(Merge(Below, f), Cmdline)

Idle == [todo |-> <<>>, do |-> None, arg |-> None, cfg |-> None, read |-> None,
         base |-> None, defs |-> None]

-----------------------------------------------------------------------------
(* The commands.  "set" is config.Set's reading of the file and "write" its *)
(* writing; "compose", "truncate" and "rewrite" those of the compose file. *)

ServiceEnable == <<"load", "stage", "set", "write">>
ServiceDisable == <<"load", "set", "write">>
ServiceDelete == <<"load", "set", "write">>
ConfigSet == <<"set", "write">>
ConfigMerge == <<"set", "write">>

\* Mutant: the console is configured before its image is there.
ConsoleEnable_SetFirst(c) == <<"load", "set", "write", "stage">>

ConsoleEnable(c) == IF c = Default THEN <<"load", "set", "write">>
                    ELSE <<"load", "stage", "set", "write">>

ConsoleSwitch(c) == IF c = Default THEN <<"load", "launch">>
                    ELSE <<"load", "stage", "launch">>

SwitchConsole(c) ==
    IF c = Default
    THEN <<"load", "stop-docker", "stop-console", "set", "write", "up-console", "start-docker">>
    ELSE <<"load", "stop-docker", "stop-console", "load-special", "set", "write", "up-console",
           "start-docker">>

EngineSwitch == <<"load", "stop-docker", "load-special", "up-docker", "set", "write">>
EngineEnable == <<"load", "stage", "set", "write">>

EngineCreate == <<"validate", "compose", "truncate", "rewrite", "load", "stage", "set",
                  "write", "script">>

\* Mutant: the engine is taken out of the compose file first.
EngineRemove_ComposeFirst == <<"load", "stop-dind", "compose", "truncate", "rewrite",
                               "check", "set", "write", "unscript">>

EngineRemove == <<"load", "stop-dind", "check", "set", "write",
                  "compose", "truncate", "rewrite", "unscript">>

\* Mutant: console-init does not tell that the console is ready.
ConsoleInit_NotDone == <<"load", "ssh", "set", "write", "set", "write", "scripts", "first-run">>

\* console-init: Set is called for the key and for its public half.
ConsoleInit == <<"load", "ssh", "set", "write", "set", "write", "scripts", "done", "first-run">>

Steps(do, arg) ==
    CASE do = "enable" -> ServiceEnable
      [] do = "disable" -> ServiceDisable
      [] do = "delete" -> ServiceDelete
      [] do = "config-set" -> ConfigSet
      [] do = "config-merge" -> ConfigMerge
      [] do = "console-enable" -> ConsoleEnable(arg)
      [] do = "console-switch" -> ConsoleSwitch(arg)
      [] do = "switch" -> SwitchConsole(arg)
      [] do = "engine-enable" -> EngineEnable
      [] do = "engine-switch" -> EngineSwitch
      [] do = "create" -> EngineCreate
      [] do = "rm" -> EngineRemove
      [] do = "init" -> ConsoleInit

Process(do, arg) == [Idle EXCEPT !.do = do, !.arg = arg, !.todo = Steps(do, arg)]

Booted == [p \in Processes |-> IF p = "init" THEN Process("init", None) ELSE Idle]

Init ==
    /\ file = First
    /\ compose = [d \in Dinds |-> FALSE] /\ scripts = {}
    /\ images = {Below.console, First.console} \ {None, Default}
    /\ con = LoadConfig(First).console /\ conUp = TRUE
    /\ hostKey = 0 /\ keys = 0 /\ done = FALSE
    /\ dock = LoadConfig(First).engine /\ dockUp = "start" /\ engineId = FALSE
    /\ dinds = {}
    /\ pr = Booted
    /\ given = 0 /\ faults = 0 /\ mishaps = {}

Running(p) == pr[p].todo # <<>>
At(p, step) == Running(p) /\ Head(pr[p].todo) = step
Go(p) == pr' = [pr EXCEPT ![p].todo = Tail(@)]
End(p) == pr' = [pr EXCEPT ![p] = Idle]
Note(what) == mishaps' = mishaps \cup {what}

\* A step fails; so does the command, unless it logs the error and goes on.
Err(p, what) ==
    /\ faults < MaxFaults /\ faults' = faults + 1
    /\ Note(what)
Fail(p) == Err(p, "error") /\ End(p) /\ UNCHANGED <<store, boxes, given>>

\* Another command creates or removes the same engine.
Overlaps(p, c) ==
    /\ c.do \in {"create", "rm"}
    /\ \E q \in Processes \ {p} : Running(q) /\ pr[q].do \in {"create", "rm"}
                                            /\ pr[q].arg = c.arg

\* A user gives a command.  Shells are there once console-init has become
\* respawn, which starts the gettys and sshd; which shell it is does not matter.
Give(p) ==
    /\ \E i \in DOMAIN Shell : p = Shell[i] /\ \A k \in 1..(i - 1) : Running(Shell[k])
    /\ ~Running(p) /\ conUp /\ ~Running("init") /\ given < MaxCommands
    /\ \E c \in Commands :
          /\ pr' = [pr EXCEPT ![p] = Process(c.do, c.arg)]
          /\ mishaps' = mishaps \cup (IF c.do = "config-set" THEN {"by-hand"} ELSE {})
                               \cup (IF Overlaps(p, c) THEN {"race"} ELSE {})
    /\ given' = given + 1
    /\ UNCHANGED <<store, boxes, faults>>

-----------------------------------------------------------------------------
(* Configuration and images.                                               *)

\* What a command makes of the services in the configuration it has loaded.
Changed(cfg, do, n) ==
    CASE do \in {"enable", "create"} -> [cfg EXCEPT !.svc[n] = "on"]
      [] do = "disable" -> [cfg EXCEPT !.svc[n] = "off"]
      [] do \in {"delete", "rm"} -> [cfg EXCEPT !.svc[n] = None]
      [] OTHER -> cfg

\* There is nothing to do: the service is on, or was never included.
Nothing(cfg, do, n) ==
    \/ do \in {"enable", "create"} /\ cfg.svc[n] = "on"
    \/ do \in {"disable", "delete"} /\ cfg.svc[n] = None

\* The argument is not in the indexes of the repositories, or they are not there.
Unavailable(p) == pr[p].do \notin {"init", "switch"} /\ Err(p, "error") /\ End(p)

\* The command loads the configuration, and looks its argument up.
Load(p) ==
    /\ At(p, "load")
    /\ LET r == pr[p]
           cfg == LoadConfig(file)
       IN  \/ /\ ~Nothing(cfg, r.do, r.arg)
              /\ pr' = [pr EXCEPT ![p].todo = Tail(@), ![p].base = file,
                                  ![p].cfg = Changed(cfg, r.do, r.arg)]
              /\ UNCHANGED <<faults, mishaps>>
           \/ /\ Nothing(cfg, r.do, r.arg)
              /\ pr' = [pr EXCEPT ![p] = IF r.do = "create"
                                         THEN [@ EXCEPT !.todo = <<"script">>] ELSE Idle]
              /\ UNCHANGED <<faults, mishaps>>
           \/ Unavailable(p)
    /\ UNCHANGED <<store, boxes, given>>

\* "ros console switch --no-pull" leaves the image to the switch itself.
NoPull(p) ==
    /\ At(p, "stage") /\ pr[p].do = "console-switch"
    /\ Note("no-pull") /\ Go(p)
    /\ UNCHANGED <<store, boxes, count>>

\* The compose file of the engines can be parsed, and one to be staged is in it.
Found(p) == compose # Torn /\ (pr[p].do = "create" => compose[pr[p].arg])

\* StageServices: the service is found and its image pulled.
StageServices(p) ==
    /\ At(p, "stage")
    /\ \/ /\ Found(p)
          /\ images' = images \cup {pr[p].arg}
          /\ Go(p)
          /\ UNCHANGED <<file, compose, scripts, boxes, count, mishaps>>
       \/ ~Found(p) /\ End(p) /\ UNCHANGED <<store, boxes, count, mishaps>>
       \/ Fail(p)

SetRead(p) ==
    /\ At(p, "set")
    /\ pr' = [pr EXCEPT ![p].todo = Tail(@), ![p].read = file,
                        ![p].base = IF @ = None THEN file ELSE @]
    /\ UNCHANGED <<store, boxes, count, mishaps>>

\* Mutant: only the service that changed is written.
Modified_OneService(p) ==
    LET r == pr[p]
    IN  [r.read EXCEPT !.svc = [n \in Names |-> IF n = r.arg THEN r.cfg.svc[n] ELSE None]]

\* GetOrSetVal: the new value replaces the old one, services_include as a whole;
\* only "ros config merge" merges.
Modified(p) ==
    LET r == pr[p]
    IN  CASE r.do \in {"enable", "disable", "delete", "create", "rm"} ->
                [r.read EXCEPT !.svc = r.cfg.svc]
          [] r.do \in {"console-enable", "switch", "config-set"} ->
                [r.read EXCEPT !.console = r.arg]
          [] r.do = "config-merge" -> [r.read EXCEPT !.svc[r.arg] = "on"]
          [] r.do \in {"engine-enable", "engine-switch"} -> [r.read EXCEPT !.engine = r.arg]
          [] r.do = "init" -> IF Head(Tail(r.todo)) = "set"
                              THEN [r.read EXCEPT !.key = hostKey]
                              ELSE [r.read EXCEPT !.pub = hostKey]

\* The content is written to a new file, which takes the old one's name.
WriteFileAtomic(content) == file' = content

\* Another process has written since p loaded the configuration.
Overtaken(p) == file # pr[p].read \/ (pr[p].do # "init" /\ file # pr[p].base)

\* WriteToFile.  An error ends the service and engine create and rm commands;
\* the others log it.
SetWrite(p) ==
    /\ At(p, "write")
    /\ \/ /\ WriteFileAtomic(Modified(p))
          /\ pr' = [pr EXCEPT ![p].todo = Tail(@), ![p].read = None]
          /\ IF Overtaken(p) THEN Note("race") ELSE UNCHANGED mishaps
          /\ UNCHANGED <<compose, scripts, images, boxes, count>>
       \/ /\ pr[p].do \in {"console-enable", "switch", "engine-enable", "engine-switch", "init"}
          /\ Err(p, "not-saved")
          /\ pr' = [pr EXCEPT ![p].todo = Tail(@), ![p].read = None]
          /\ UNCHANGED <<store, boxes, given>>
       \/ /\ pr[p].do \in {"enable", "disable", "delete", "create", "rm", "config-set",
                            "config-merge"}
          /\ Fail(p)

-----------------------------------------------------------------------------
(* Docker-in-Docker engines.                                               *)

\* preFlightValidate: name, version, network, address and port must be right.
PreFlightValidate(p) ==
    /\ At(p, "validate")
    /\ Go(p) \/ End(p)
    /\ UNCHANGED <<store, boxes, count, mishaps>>

\* Another process is about to write the compose file.
Held(p) == \E q \in Processes \ {p} : pr[q].defs # None

\* The compose file is read, if it can be parsed,
ComposeRead(p) ==
    /\ At(p, "compose")
    /\ \/ /\ compose # Torn
          /\ pr' = [pr EXCEPT ![p].todo = Tail(@),
                              ![p].defs = [compose EXCEPT ![pr[p].arg] = pr[p].do = "create"]]
          /\ IF Held(p) THEN Note("race") ELSE UNCHANGED mishaps
       \/ compose = Torn /\ End(p) /\ UNCHANGED mishaps
    /\ UNCHANGED <<store, boxes, count>>

\* and written in place: what is there meanwhile is empty, or cannot be parsed,
ComposeTruncate(p) ==
    /\ At(p, "truncate")
    /\ \/ /\ compose' \in {[d \in Dinds |-> FALSE], Torn}
          /\ Go(p)
          /\ UNCHANGED <<file, scripts, images, boxes, count, mishaps>>
       \/ Fail(p)

\* and stays so if the disk is full; that ends the command.
ComposeRewrite(p) ==
    /\ At(p, "rewrite")
    /\ \/ /\ compose' = pr[p].defs
          /\ pr' = [pr EXCEPT ![p].todo = Tail(@), ![p].defs = None]
          /\ UNCHANGED <<file, scripts, images, boxes, count, mishaps>>
       \/ /\ Err(p, "torn") /\ End(p)
          /\ UNCHANGED <<store, boxes, given>>

\* GenerateDindEngineScript, RemoveDindEngineScript
Script(p) ==
    /\ At(p, "script") \/ At(p, "unscript")
    /\ \/ /\ scripts' = IF At(p, "script") THEN scripts \cup {pr[p].arg}
                        ELSE scripts \ {pr[p].arg}
          /\ End(p)
          /\ UNCHANGED <<file, compose, images, boxes, count, mishaps>>
       \/ Fail(p)

\* ProjectStop and ProjectDelete of the engine's container
StopDind(p) ==
    /\ At(p, "stop-dind")
    /\ \/ /\ dinds' = dinds \ {pr[p].arg}
          /\ Go(p)
          /\ UNCHANGED <<store, con, conUp, hostKey, keys, done, dock, dockUp, engineId,
                         count, mishaps>>
       \/ Fail(p)

\* Only now is it looked up whether the engine was there: as of the
\* configuration that was loaded.
CheckIncluded(p) ==
    /\ At(p, "check")
    /\ IF LoadConfig(pr[p].base).svc[pr[p].arg] # None THEN Go(p) ELSE End(p)
    /\ UNCHANGED <<store, boxes, count, mishaps>>

-----------------------------------------------------------------------------
(* Console and docker.                                                     *)

dockerBox == <<dock, dockUp, engineId>>

\* The docker container is stopped.  switch-console logs an error and goes on.
StopDocker(p) ==
    /\ At(p, "stop-docker")
    /\ \/ /\ dockUp' = "stopped"
          /\ Go(p)
          /\ UNCHANGED <<store, con, conUp, hostKey, keys, done, dock, engineId, dinds,
                         count, mishaps>>
       \/ pr[p].do # "switch" /\ Fail(p)
       \/ /\ pr[p].do = "switch" /\ Err(p, "not-stopped") /\ Go(p)
          /\ UNCHANGED <<store, boxes, given>>

\* With the console all of its processes end: the shells, console-init, and the
\* Docker daemon, which docker starts in it and, restarted, waits to start again.
StopConsole(p) ==
    /\ At(p, "stop-console")
    /\ \/ /\ conUp' = FALSE
          /\ dockUp' = IF dockUp \in {"init", "up"} THEN "start" ELSE dockUp
          /\ pr' = [q \in Processes |->
                      IF q \in InConsole THEN Idle
                      ELSE IF q = p THEN [pr[q] EXCEPT !.todo = Tail(@)] ELSE pr[q]]
          /\ IF \E q \in InConsole : Running(q) THEN Note("cut") ELSE UNCHANGED mishaps
          /\ UNCHANGED <<store, con, hostKey, keys, done, dock, engineId, dinds, count>>
       \/ /\ Err(p, "not-stopped") /\ Go(p)
          /\ UNCHANGED <<store, boxes, given>>

\* LoadSpecialService: the new console or engine comes from a repository.  By
\* now docker, and the console, are stopped.
LoadSpecialService(p) ==
    /\ At(p, "load-special")
    /\ \/ Go(p) /\ UNCHANGED <<store, boxes, count, mishaps>>
       \/ Fail(p)

\* The console's container is created again if it is to be another console.
\* The new one has no host key, and console-init runs in it.
StartConsole(c) ==
    /\ con' = c /\ conUp' = TRUE
    /\ hostKey' = IF c = con THEN hostKey ELSE 0

UpConsole(p) ==
    /\ At(p, "up-console")
    /\ \/ /\ IF conUp /\ con = pr[p].arg
             THEN Go(p) /\ UNCHANGED <<con, conUp, hostKey, dockUp, mishaps>>
             ELSE /\ StartConsole(pr[p].arg)
                  /\ dockUp' = IF dockUp \in {"init", "up"} THEN "start" ELSE dockUp
                  /\ pr' = [q \in Processes |->
                              IF q = "init" THEN Process("init", None)
                              ELSE IF q \in InConsole THEN Idle
                              ELSE [pr[q] EXCEPT !.todo = Tail(@)]]
                  /\ IF \E q \in InConsole : Running(q) THEN Note("cut") ELSE UNCHANGED mishaps
          /\ images' = images \cup ({pr[p].arg} \ {Default})
          /\ UNCHANGED <<file, compose, scripts, keys, done, dock, engineId, dinds, count>>
       \/ Fail(p)

\* docker is started as it is; that it failed is only logged.
StartDocker(p) ==
    /\ At(p, "start-docker")
    /\ \/ /\ dockUp' = IF dockUp = "stopped" THEN "start" ELSE dockUp
          /\ End(p)
          /\ UNCHANGED <<store, con, conUp, hostKey, keys, done, dock, engineId, dinds,
                         count, mishaps>>
       \/ Fail(p)

\* docker is created again, with the new engine.
UpDocker(p) ==
    /\ At(p, "up-docker")
    /\ \/ /\ dock' = pr[p].arg /\ dockUp' = "start"
          /\ images' = images \cup {pr[p].arg}
          /\ Go(p)
          /\ UNCHANGED <<file, compose, scripts, con, conUp, hostKey, keys, done, engineId,
                         dinds, count, mishaps>>
       \/ Fail(p)

\* Mutant: the switch runs in the shell.
Launch_InShell(p) ==
    /\ At(p, "launch")
    /\ pr' = [pr EXCEPT ![p] = Process("switch", pr[p].arg)]
    /\ UNCHANGED <<store, boxes, count, mishaps>>

\* The switch-console container of an earlier switch is deleted if it has ended;
\* if not, one that switches to another console is created in its place.
Launch(p) ==
    /\ At(p, "launch")
    /\ \/ /\ pr' = [pr EXCEPT ![p] = Idle,
                    !["switch"] = IF Running("switch") /\ @.arg = pr[p].arg THEN @
                                  ELSE Process("switch", pr[p].arg)]
          /\ UNCHANGED <<store, boxes, count, mishaps>>
       \/ Fail(p)

-----------------------------------------------------------------------------
(* In the new console: ros console-init.                                   *)

\* Mutant: the saved key is not used.
SetupSSH_NewKey(p) ==
    /\ At(p, "ssh")
    /\ \/ /\ hostKey # 0 /\ pr' = [pr EXCEPT ![p].todo = SubSeq(@, 6, Len(@))]
          /\ UNCHANGED <<hostKey, keys>>
       \/ hostKey = 0 /\ keys' = keys + 1 /\ hostKey' = keys + 1 /\ Go(p)
    /\ UNCHANGED <<store, con, conUp, done, dockerBox, dinds, count, mishaps>>

\* setupSSH: a console with a key keeps it, a new one gets the saved key, and
\* else there is a new key, which is to be saved.
SetupSSH(p) ==
    /\ At(p, "ssh")
    /\ LET saved == pr[p].cfg.key
           skip == [pr EXCEPT ![p].todo = SubSeq(@, 6, Len(@))]
       IN  \/ hostKey # 0 /\ pr' = skip /\ UNCHANGED <<hostKey, keys>>
           \/ /\ hostKey = 0 /\ saved # None /\ pr[p].cfg.pub # None
              /\ hostKey' = saved /\ pr' = skip
              /\ UNCHANGED keys
           \/ /\ hostKey = 0 /\ (saved = None \/ pr[p].cfg.pub = None)
              /\ keys' = keys + 1 /\ hostKey' = keys + 1
              /\ Go(p)
    /\ UNCHANGED <<store, con, conUp, done, dockerBox, dinds, count, mishaps>>

\* A script for every engine that is included and defined.
Included(f) == {d \in Dinds : LoadConfig(f).svc[d] = "on"}
Defined == IF compose = Torn THEN {} ELSE {d \in Dinds : compose[d]}

EngineScripts(p) ==
    /\ At(p, "scripts")
    /\ scripts' = scripts \cup (Included(file) \cap Defined)
    /\ Go(p)
    /\ UNCHANGED <<file, compose, images, boxes, count, mishaps>>

ConsoleDone(p) ==
    /\ At(p, "done")
    /\ done' = TRUE
    /\ Go(p)
    /\ UNCHANGED <<store, con, conUp, hostKey, keys, dockerBox, dinds, count, mishaps>>

\* If Docker never ran here: ros engine switch, to the engine configured when
\* console-init began.  console-init waits for it, then becomes respawn.  If the
\* latest engine is the one that docker has, nothing is switched.
FirstRun(p) ==
    /\ At(p, "first-run")
    /\ LET e == pr[p].cfg.engine
       IN  \/ End(p) /\ (engineId \/ (e = Latest /\ dock \in Engines))
           \/ /\ ~engineId
              /\ \E new \in IF e = Latest THEN Engines \ {dock} ELSE {e} :
                    pr' = [pr EXCEPT ![p].todo = <<"wait">>,
                                     !["first"] = Process("engine-switch", new)]
    /\ UNCHANGED <<store, boxes, count, mishaps>>

FirstRunEnds(p) ==
    /\ At(p, "wait") /\ ~Running("first")
    /\ End(p)
    /\ UNCHANGED <<store, boxes, count, mishaps>>

-----------------------------------------------------------------------------
(* In docker: ros user-docker, which becomes ros docker-init in the console.*)

\* copyBinaries; if it fails docker starts again.
UserDocker ==
    /\ dockUp = "start"
    /\ dockUp' = "wait"
    /\ UNCHANGED <<store, con, conUp, hostKey, keys, done, dock, engineId, dinds, pr, count,
                   mishaps>>

\* waitForPid, then runc exec in the console
StartInConsole ==
    /\ dockUp = "wait" /\ conUp
    /\ dockUp' = "init"
    /\ UNCHANGED <<store, con, conUp, hostKey, keys, done, dock, engineId, dinds, pr, count,
                   mishaps>>

DockerInit ==
    /\ dockUp = "init" /\ done
    /\ dockUp' = "up" /\ engineId' = TRUE
    /\ UNCHANGED <<store, con, conUp, hostKey, keys, done, dock, dinds, pr, count, mishaps>>

-----------------------------------------------------------------------------
\* The machine goes down and boots: console and docker as they are configured,
\* the default ones where a repository does not answer.
Reboot ==
    /\ faults < MaxFaults /\ faults' = faults + 1
    /\ Note("crash")
    /\ \E c \in {LoadConfig(file).console, Default} : StartConsole(c)
    /\ \E e \in {LoadConfig(file).engine, Latest} : dock' = e
    /\ dockUp' = "start" /\ done' = FALSE
    /\ dinds' = Included(file) \cap Defined
    /\ pr' = Booted
    /\ UNCHANGED <<store, keys, engineId, given>>

Step(p) ==
    \/ Load(p) \/ NoPull(p) \/ StageServices(p) \/ SetRead(p) \/ SetWrite(p)
    \/ PreFlightValidate(p) \/ ComposeRead(p) \/ ComposeTruncate(p) \/ ComposeRewrite(p) \/ Script(p)
    \/ StopDind(p) \/ CheckIncluded(p) \/ StopDocker(p) \/ StopConsole(p)
    \/ LoadSpecialService(p) \/ UpConsole(p) \/ StartDocker(p) \/ UpDocker(p) \/ Launch(p)
    \/ SetupSSH(p) \/ EngineScripts(p) \/ ConsoleDone(p) \/ FirstRun(p) \/ FirstRunEnds(p)

Docker == UserDocker \/ StartInConsole \/ DockerInit

Next == Docker \/ Reboot \/ \E p \in Processes : Give(p) \/ Step(p)

Spec == Init /\ [][Next]_vars
\* A process that can go on does.
FairSpec == Spec /\ WF_vars(Docker) /\ \A p \in Processes : WF_vars(Step(p))

-----------------------------------------------------------------------------
(* Properties.                                                             *)

\* A command leaves everything it does not name in force as it found it: the
\* other services, wherever they are configured, although services_include is
\* written as a whole from the merged configuration, loaded before images were
\* pulled; and console and engine.  So a write that nothing overtook changes
\* nothing else, and one that comes late takes back what was written since the
\* command began, but never brings in a value that was not in force then.
OthersKept ==
    [][\A p \in Processes :
        At(p, "write") /\ pr'[p].todo # pr[p].todo /\ file' # file =>
            LET r == pr[p]
                new == LoadConfig(file')
                seen == IF r.arg \in Names THEN {r.base, r.read} ELSE {r.read}
            IN  /\ \A n \in Names \ {r.arg} : \E c \in seen : new.svc[n] = LoadConfig(c).svc[n]
                /\ r.arg \notin Consoles => new.console = LoadConfig(r.read).console
                /\ r.arg \notin Engines => new.engine = LoadConfig(r.read).engine]_vars

\* The console and the engine that the next boot will use are on the disk, if
\* console and engine commands configured them: consoleEnable, engineEnable and
\* engineSwitch write the configuration last, consoleSwitch stages before it
\* launches the switch.  With --no-pull switch-console names the console before
\* project.Up pulls it, so its image may be missing while the switch goes on,
\* and after it only if something went wrong.
ConfiguredIsStaged ==
    /\ file.engine \in images \cup {Latest, None}
    /\ \/ file.console \in images \cup {Default, None}
       \/ "by-hand" \in mishaps
       \/ /\ "no-pull" \in mishaps
          /\ Running("switch") \/ {"error", "crash", "not-saved", "race"} \cap mishaps # {}

\* An engine that is included is defined, so that the next boot does not look
\* for it in the repositories: engine create defines it first, engine rm
\* excludes it first, and an error may come between.  Two commands at once for
\* one engine may break that, and so may a crash, a switch of the console or an
\* error while the compose file is written, which is not written atomically.
IncludedIsDefined ==
    {"race", "crash", "cut", "torn"} \cap mishaps = {} /\ (\A p \in Processes : ~At(p, "rewrite"))
    => Included(file) \subseteq Defined

\* All consoles of a machine have one host key, however often the console is
\* switched, if nothing came between making and saving it.
OneHostKey ==
    keys > 1 => {"crash", "not-saved"} \cap mishaps # {}

\* The console is down only while a switch goes on, or after one could not load
\* or start the new console: that the shell the user gave the command in dies
\* with the old console does not matter.
ConsoleComesBack == ~conUp => Running("switch") \/ "error" \in mishaps

\* In the end the console and user Docker run, unless a step failed.
DockerRuns == <>[]((conUp /\ dockUp = "up") \/ "error" \in mishaps)
=============================================================================
