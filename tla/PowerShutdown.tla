---------------------------- MODULE PowerShutdown ----------------------------
(***************************************************************************)
(* reboot, poweroff, halt and shutdown.  The command is typed in the       *)
(* console container, which it has to stop: so the process there (outer)   *)
(* starts the same command in a container of its own (inner), which stops  *)
(* the services, waits for them, stops the console and calls reboot(2).    *)
(* Both processes run a timer that calls reboot(2) when that takes too     *)
(* long.  Several commands may be typed at once, and containers end and    *)
(* are restarted by Docker while the shutdown goes on.                     *)
(***************************************************************************)
EXTENDS Integers, Sequences

CONSTANTS
    Command,        \* the commands that may be typed; each names the container
                    \* it creates
    Name,           \* what those containers may be called
    Service,        \* the other containers of System Docker
    Console,        \* the console container
    Old,            \* a container that an earlier command left behind
    ContainerList(_),   \* the order in which System Docker lists containers
    MayExit,        \* containers that may end by themselves, once each
    Faults,         \* whether calls to System Docker may fail, and
    MayForce,       \* --force and
    MayKexec        \* --kexec be given, when one command is typed

NoConsole == 0      \* consoleContainerIdx = -1: sequences start at 1 here

PowerContainer == Command \cup {Old}
Everything == Service \cup {Console} \cup PowerContainer

ASSUME PowerAssumption ==
    /\ MayExit \subseteq Service \cup {Console}
    /\ Console \notin Service \cup PowerContainer
    /\ Old \notin Command /\ Service \cap PowerContainer = {}

\* A list has the containers it is a list of.
ASSUME ListAssumption ==
    \A s \in SUBSET Everything :
        /\ ContainerList(s) \in Seq(s)
        /\ \A t \in s : \E i \in 1..Len(ContainerList(s)) : ContainerList(s)[i] = t

VARIABLES
    typed,          \* the commands that are typed
    machine,        \* "up" or "down" (rebooted, halted or powered off)
    up,             \* the services, and the console, that run
    exited,         \* those that ended by themselves, and
    restarting,     \* are being started again (restart: always)
    name, cstate,   \* the power containers: name and state
    force, kexec,   \* the flags of a command
    outer, existing,        \* runDocker: where it is, the container it found
    inner,                  \* shutDownContainers: where it is,
    found, idx, consoleContainerIdx, waitErr    \* and its variables

docker == <<up, exited, restarting, name, cstate>>
outerVars == <<outer, existing>>
innerVars == <<inner, found, idx, consoleContainerIdx, waitErr>>
flags == <<force, kexec>>
vars == <<typed, machine, docker, flags, outerVars, innerVars>>

Alone == \E c \in Command : typed = {c}
Fallible == Faults /\ Alone

Init ==
    /\ typed \in SUBSET Command /\ typed # {}
    /\ machine = "up"
    /\ up = Service \cup {Console} /\ exited = {} /\ restarting = {}
    /\ name \in [PowerContainer -> Name]
    /\ cstate \in {[c \in PowerContainer |-> IF c = Old THEN s ELSE "absent"] :
                      s \in {"absent", "exited"}}
    /\ force \in [Command -> {FALSE, MayForce /\ Alone}]
    /\ kexec \in [Command -> {FALSE, MayKexec /\ Alone}]
    /\ outer = [c \in Command |-> "validate"]
    /\ existing = [c \in Command |-> c]
    /\ inner = [c \in Command |-> "none"]
    /\ found = [c \in Command |-> <<>>]
    /\ idx = [c \in Command |-> 1]
    /\ consoleContainerIdx = [c \in Command |-> NoConsole]
    /\ waitErr = [c \in Command |-> FALSE]

-----------------------------------------------------------------------------
(* System Docker.                                                          *)

\* The containers with status running
Running == up \cup {c \in PowerContainer : cstate[c] = "running"}

\* The containers that stand in the way of a new one for command c.
SameName(c) == {d \in PowerContainer : name[d] = name[c] /\ cstate[d] # "absent"}

\* What stopping container t does, and to the processes in it: those typed in
\* the console may outlive it, because it shares the host's process table.  For
\* a container that has ended, or was removed since it was listed, nothing.
ContainerStop(t) ==
    /\ up' = up \ {t}
    /\ cstate' = [c \in PowerContainer |-> IF c = t /\ cstate[c] = "running"
                                           THEN "exited" ELSE cstate[c]]
    /\ IF t = Console
       THEN \E dead \in SUBSET Command :
               outer' = [c \in Command |-> IF c \in dead THEN "gone" ELSE outer[c]]
       ELSE UNCHANGED outer
    /\ UNCHANGED <<exited, restarting, name>>

\* A service, or the console, ends and Docker starts it again some time later.
Exit(s) ==
    /\ machine = "up"
    /\ s \in up \cap MayExit /\ s \notin exited
    /\ up' = up \ {s} /\ exited' = exited \cup {s}
    /\ restarting' = restarting \cup {s}
    /\ UNCHANGED <<machine, name, cstate, flags, outerVars, innerVars>>

Restart(s) ==
    /\ machine = "up"
    /\ s \in restarting
    /\ up' = up \cup {s} /\ restarting' = restarting \ {s}
    /\ UNCHANGED <<machine, exited, name, cstate, flags, outerVars, innerVars>>

-----------------------------------------------------------------------------
(* reboot and runDocker, in the console.                                   *)

At(c, pc) == machine = "up" /\ outer[c] = pc
Goto(c, pc) == outer' = [outer EXCEPT ![c] = pc]

\* log.Fatal: the process ends, and its timer with it.
Refuse(c) == Goto(c, "refused") /\ UNCHANGED <<docker, innerVars, existing>>

\* reboot -f works without System Docker, and without looking at the config.
ForceReboot(c) ==
    /\ At(c, "validate") /\ force[c]
    /\ \/ machine' = "down" /\ UNCHANGED outer
       \/ kexec[c] /\ Goto(c, "gone") /\ UNCHANGED machine
    /\ UNCHANGED <<docker, flags, existing, innerVars>>

\* The configuration is validated before the timer is started.
Validate(c) ==
    /\ At(c, "validate") /\ ~force[c]
    /\ \/ Goto(c, "inspect") /\ UNCHANGED <<docker, innerVars, existing>>
       \/ Fallible /\ Refuse(c)
    /\ UNCHANGED <<machine, flags>>

\* Mutant: a container left by an earlier command is not looked for.
Inspect_Skip(c) ==
    /\ At(c, "inspect") /\ Goto(c, "create")
    /\ UNCHANGED <<machine, docker, flags, existing, innerVars>>

Inspect(c) ==
    /\ At(c, "inspect")
    /\ \/ \E d \in SameName(c) :
             existing' = [existing EXCEPT ![c] = d] /\ Goto(c, "remove")
       \/ (SameName(c) = {} \/ Fallible)
          /\ Goto(c, "create") /\ UNCHANGED existing
    /\ UNCHANGED <<machine, docker, flags, innerVars>>

\* ContainerRemove without Force: an error for a container that runs.
RemoveExisting(c) ==
    /\ At(c, "remove")
    /\ LET d == existing[c]
       IN  \/ /\ cstate[d] \in {"created", "exited"}
              /\ cstate' = [cstate EXCEPT ![d] = "absent"]
              /\ Goto(c, "create")
              /\ UNCHANGED <<up, exited, restarting, name, innerVars, existing>>
           \/ cstate[d] \in {"absent", "running"} /\ Refuse(c)
    /\ UNCHANGED <<machine, flags>>

Create(c) ==
    /\ At(c, "create")
    /\ \/ /\ SameName(c) = {}
          /\ cstate' = [cstate EXCEPT ![c] = "created"]
          /\ Goto(c, "start")
          /\ UNCHANGED <<up, exited, restarting, name, innerVars, existing>>
       \/ (SameName(c) # {} \/ Fallible) /\ Refuse(c)
    /\ UNCHANGED <<machine, flags>>

Start(c) ==
    /\ At(c, "start")
    /\ \/ /\ cstate[c] = "created"
          /\ cstate' = [cstate EXCEPT ![c] = "running"]
          /\ inner' = [inner EXCEPT ![c] = "validate"]
          /\ Goto(c, "logs")
          /\ UNCHANGED <<up, exited, restarting, name, existing, found, idx,
                         consoleContainerIdx, waitErr>>
       \/ (cstate[c] # "created" \/ Fallible) /\ Refuse(c)
    /\ UNCHANGED <<machine, flags>>

\* The log of the container ends, or cannot be read: os.Exit(0).
LogsEnd(c) ==
    /\ At(c, "logs")
    /\ cstate[c] = "exited" \/ Fallible
    /\ Goto(c, "gone")
    /\ UNCHANGED <<machine, docker, flags, existing, innerVars>>

-----------------------------------------------------------------------------
(* reboot and shutDownContainers, in the container of command c.           *)

InContainer(c, pc) == machine = "up" /\ cstate[c] = "running" /\ inner[c] = pc
Step(c, pc) == inner' = [inner EXCEPT ![c] = pc]
Skipped(c, t) == t = c \/ t = Console       \* currentContainerID, /console
AtEnd(c) == idx[c] > Len(found[c])
Current(c) == found[c][idx[c]]
Advance(c) == idx' = [idx EXCEPT ![c] = @ + 1]

\* The process ends: so does the container.
EndContainer(c) == cstate' = [cstate EXCEPT ![c] = "exited"]

\* The configuration is validated in the container as well, before its timer is
\* started: one that has become invalid ends the process.
ValidateAgain(c) ==
    /\ InContainer(c, "validate")
    /\ \/ Step(c, IF kexec[c] THEN "kexec" ELSE "list") /\ UNCHANGED cstate
       \/ Fallible /\ EndContainer(c) /\ Step(c, "refused")
    /\ UNCHANGED <<machine, up, exited, restarting, name, flags, outerVars, found,
                   idx, consoleContainerIdx, waitErr>>

\* The first and the second ContainerList; an error makes reboot go on to sync.
ListContainers(c, from, to) ==
    /\ InContainer(c, from)
    /\ \/ /\ found' = [found EXCEPT ![c] = ContainerList(Running)]
          /\ idx' = [idx EXCEPT ![c] = 1]
          /\ Step(c, to)
       \/ Fallible /\ Step(c, "sync") /\ UNCHANGED <<found, idx>>
    /\ UNCHANGED <<machine, docker, flags, outerVars, consoleContainerIdx, waitErr>>

\* Mutant: the second loop does not look for the console again.
NoteConsole_FirstOnly(c) ==
    consoleContainerIdx' = [consoleContainerIdx EXCEPT ![c] =
        IF AtEnd(c) THEN @ ELSE IF Current(c) = Console /\ inner[c] = "stop"
                                THEN idx[c] ELSE @]

\* Either loop remembers where in the list the console is.
NoteConsole(c) ==
    consoleContainerIdx' = [consoleContainerIdx EXCEPT ![c] =
        IF ~AtEnd(c) /\ Current(c) = Console THEN idx[c] ELSE @]

\* One turn of the first loop; a stop that fails is logged.
StopNext(c) ==
    /\ InContainer(c, "stop") /\ ~AtEnd(c)
    /\ Advance(c) /\ NoteConsole(c)
    /\ \/ ~Skipped(c, Current(c)) /\ ContainerStop(Current(c))
       \/ (Skipped(c, Current(c)) \/ Fallible) /\ UNCHANGED <<docker, outer>>
    /\ UNCHANGED <<machine, flags, existing, inner, found, waitErr>>

\* Mutant: the second loop does not wait.
WaitNext_NoWait(c) ==
    /\ InContainer(c, "wait") /\ ~AtEnd(c)
    /\ Advance(c) /\ NoteConsole(c)
    /\ UNCHANGED <<machine, docker, flags, outerVars, inner, found, waitErr>>

\* One turn of the second loop: ContainerWait returns when nothing runs.
WaitNext(c) ==
    /\ InContainer(c, "wait") /\ ~AtEnd(c)
    /\ Advance(c) /\ NoteConsole(c)
    /\ \/ /\ Skipped(c, Current(c)) \/ Current(c) \notin Running
          /\ UNCHANGED waitErr
       \/ /\ ~Skipped(c, Current(c)) /\ Fallible
          /\ waitErr' = [waitErr EXCEPT ![c] = TRUE]
    /\ UNCHANGED <<machine, docker, flags, outerVars, inner, found>>

LoopEnds(c) ==
    /\ \E pc \in {"stop", "wait"} : InContainer(c, pc)
    /\ AtEnd(c)
    /\ Step(c, IF inner[c] = "stop" THEN "relist" ELSE "console")
    /\ UNCHANGED <<machine, docker, flags, outerVars, found, idx,
                   consoleContainerIdx, waitErr>>

\* containers[consoleContainerIdx] is the container stopped last; an index
\* outside the list is a panic, which ends the process and its timer.
StopConsole(c) ==
    /\ InContainer(c, "console")
    /\ LET i == consoleContainerIdx[c]
       IN  \/ i = NoConsole /\ Step(c, "sync") /\ UNCHANGED <<docker, outer>>
           \/ /\ i \in 1..Len(found[c])
              /\ ContainerStop(found[c][i]) \/ (Fallible /\ UNCHANGED <<docker, outer>>)
              /\ Step(c, "consoleWait")
           \/ /\ i > Len(found[c])
              /\ EndContainer(c) /\ Step(c, "panic")
              /\ UNCHANGED <<up, exited, restarting, name, outer>>
    /\ UNCHANGED <<machine, flags, existing, found, idx, consoleContainerIdx, waitErr>>

WaitConsole(c) ==
    /\ InContainer(c, "consoleWait")
    /\ \/ found[c][consoleContainerIdx[c]] \notin Running /\ UNCHANGED waitErr
       \/ Fallible /\ waitErr' = [waitErr EXCEPT ![c] = TRUE]
    /\ Step(c, "sync")
    /\ UNCHANGED <<machine, docker, flags, outerVars, found, idx,
                   consoleContainerIdx>>

\* kexec -f restarts the machine at once; when it fails, reboot just returns.
Kexec(c) ==
    /\ InContainer(c, "kexec")
    /\ \/ machine' = "down" /\ UNCHANGED <<cstate, inner>>
       \/ EndContainer(c) /\ Step(c, "done") /\ UNCHANGED machine
    /\ UNCHANGED <<up, exited, restarting, name, flags, outerVars, found, idx,
                   consoleContainerIdx, waitErr>>

\* reboot(2): by the process in the container when it is done,
Reboot(c) ==
    /\ InContainer(c, "sync")
    /\ machine' = "down"
    /\ UNCHANGED <<docker, flags, outerVars, innerVars>>

TimerRuns(c) ==
    \/ outer[c] \notin {"validate", "refused", "gone"}
    \/ cstate[c] = "running" /\ inner[c] # "validate"

\* Mutant: time.After is called in the loop, so that each tick starts it anew.
Timeout_Rearmed(c) == machine = "up" /\ TimerRuns(c) /\ UNCHANGED vars

\* or by the timer of either process.
Timeout(c) ==
    /\ machine = "up"
    /\ TimerRuns(c)
    /\ machine' = "down"
    /\ UNCHANGED <<docker, flags, outerVars, innerVars>>

-----------------------------------------------------------------------------
Outer(c) ==
    \/ ForceReboot(c) \/ Validate(c)
    \/ Inspect(c) \/ RemoveExisting(c) \/ Create(c) \/ Start(c) \/ LogsEnd(c)

Inner(c) ==
    \/ ValidateAgain(c)
    \/ ListContainers(c, "list", "stop") \/ ListContainers(c, "relist", "wait")
    \/ StopNext(c) \/ WaitNext(c) \/ LoopEnds(c)
    \/ StopConsole(c) \/ WaitConsole(c) \/ Kexec(c) \/ Reboot(c)

Docker == \E s \in Service \cup {Console} : Exit(s) \/ Restart(s)

\* The machine is down, or nobody is left to take it down.
Over ==
    /\ machine = "down" \/ \A c \in typed : ~TimerRuns(c) /\ outer[c] # "validate"
    /\ UNCHANGED vars

Next == \/ (\E c \in typed : Outer(c) \/ Inner(c) \/ Timeout(c)) /\ UNCHANGED typed
        \/ Docker /\ UNCHANGED typed
        \/ Over

Spec == Init /\ [][Next]_vars

\* Time passes: a timer that keeps running fires.  That waiting for a container
\* fails is possible, but nothing to count on.
FairSpec ==
    /\ Spec
    /\ \A c \in Command : /\ WF_vars(c \in typed /\ Outer(c) /\ UNCHANGED typed)
                          /\ WF_vars(c \in typed /\ Inner(c) /\ UNCHANGED <<waitErr, typed>>)
                          /\ WF_vars(c \in typed /\ Timeout(c) /\ UNCHANGED typed)
    /\ WF_vars(\E s \in Service \cup {Console} : Restart(s) /\ UNCHANGED typed)

-----------------------------------------------------------------------------
(* Properties.                                                             *)

\* "and now stop the console": the container that is stopped last, by its
\* index in the second list, is the console, if no other command stopped that
\* before (shutDownContainers).
StopsConsole ==
    Alone => \A c \in typed :
        InContainer(c, "console") /\ consoleContainerIdx[c] # NoConsole =>
            /\ consoleContainerIdx[c] <= Len(found[c])
            /\ found[c][consoleContainerIdx[c]] = Console

\* The console is stopped last, and the machine goes down in an orderly way
\* last of all: by then no service runs, unless Docker restarted it meanwhile
\* or waiting for it failed.
ConsoleLast ==
    \A c \in typed :
        InContainer(c, "console") /\ ~waitErr[c] => up \cap Service \subseteq exited

\* Of commands typed at once at least one gets its container, whatever name
\* the containers have and whatever an earlier command left behind, if System
\* Docker does not fail (runDocker).
SomeoneStarts == Fallible \/ \E c \in typed : outer[c] # "refused"

\* A command takes the machine down, even when a service keeps running or
\* System Docker fails half way: one of the two timers is left to end the wait.
\* The exceptions end with a message: a command that refuses to begin, in the
\* console or in its container, and a kexec that fails.  (Two commands with different names may stop each other's
\* container.)
EventuallyDown ==
    <>(\/ machine = "down" \/ ~Alone
       \/ \A c \in typed : outer[c] = "refused" \/ inner[c] = "refused" \/ kexec[c])
=============================================================================
