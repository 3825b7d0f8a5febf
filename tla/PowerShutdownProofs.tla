------------------------ MODULE PowerShutdownProofs ------------------------
(***************************************************************************)
(* Proofs about PowerShutdown, for any number of commands, services and    *)
(* containers that end and are restarted meanwhile:                        *)
(*   - by the time the console is stopped no service runs that Docker has  *)
(*     not restarted, or waiting has failed;                               *)
(*   - the container that one command stops last is the console, if that   *)
(*     does not end by itself;                                             *)
(*   - commands with one container name do not all lock each other out.    *)
(***************************************************************************)
EXTENDS PowerShutdown, TLAPS

OuterPc == {"validate", "inspect", "remove", "create", "start", "logs", "gone", "refused"}
InnerPc == {"none", "validate", "refused", "list", "stop", "relist", "wait", "console",
            "consoleWait", "sync", "kexec", "done", "panic"}

TypeOK ==
    /\ typed \in SUBSET Command /\ typed # {}
    /\ up \subseteq Service \cup {Console} /\ restarting \subseteq exited
    /\ name \in [PowerContainer -> Name]
    /\ cstate \in [PowerContainer -> {"absent", "created", "running", "exited"}]
    /\ cstate[Old] \in {"absent", "exited"}
    /\ outer \in [Command -> OuterPc] /\ existing \in [Command -> PowerContainer]
    /\ inner \in [Command -> InnerPc] /\ found \in [Command -> Seq(Everything)]
    /\ idx \in [Command -> Nat \ {0}] /\ consoleContainerIdx \in [Command -> Nat]
    /\ waitErr \in [Command -> BOOLEAN]

\* In the second loop every service that runs, and was not restarted, is still to be
\* waited for; after it there is none.
Left == (up \cap Service) \ exited
Waits(c) ==
    ~waitErr[c] =>
        /\ inner[c] = "wait" =>
              \A s \in Left : \E i \in idx[c]..Len(found[c]) : found[c][i] = s
        /\ inner[c] = "console" => Left = {}
Waiting == \A c \in Command : Waits(c)

\* A command that is alone finds the console in the second list, for nobody has
\* stopped it, and remembers where it is.
Points(c) ==
    /\ consoleContainerIdx[c] \in 1..Len(found[c])
    /\ found[c][consoleContainerIdx[c]] = Console
Early == {"validate", "inspect", "remove", "create", "start"}
Finds(c) ==
    /\ outer[c] \in Early => inner[c] = "none"
    /\ inner[c] \notin {"consoleWait", "sync", "panic", "done", "refused"} => Console \in up
    /\ inner[c] = "wait" =>
          /\ \E k \in 1..Len(found[c]) : found[c][k] = Console
          /\ (\E k \in 1..(idx[c] - 1) : found[c][k] = Console) => Points(c)
    /\ inner[c] = "console" => Points(c)
Finding == Console \notin MayExit /\ Alone => \A c \in typed : Finds(c)

\* Of the commands with one name that have come past the container of an earlier
\* command, or had it taken away, one leads: its container can still be created
\* or started, or it has been.
Present(d) == cstate[d] # "absent"
Leads(l) == outer[l] \in {"create", "logs", "gone"} \/ (outer[l] = "start" /\ cstate[l] = "created")
Led(n) == \E l \in typed : name[l] = n /\ Leads(l)
Past(c) == \/ outer[c] \in {"create", "start", "logs", "gone"}
           \/ outer[c] = "remove" /\ ~Present(existing[c])
OneEach == \A d, e \in PowerContainer : Present(d) /\ Present(e) /\ name[d] = name[e] => d = e
Owned == \A d \in Command : Present(d) => d \in typed /\ outer[d] \in {"start", "logs", "gone"}
Starting == \A d \in Command : outer[d] = "start" => cstate[d] \in {"created", "absent"}
OldGone == \A c \in typed : outer[c] = "create" => ~(Present(Old) /\ name[Old] = name[c])
Removing == \A c \in typed : outer[c] = "remove" => name[existing[c]] = name[c]
AllLed == \A c \in typed : Past(c) => Led(name[c])
Someone == \E c \in typed : outer[c] # "refused"
Race == OneEach /\ Owned /\ Starting /\ OldGone /\ Removing /\ AllLed /\ Someone
Racing == ~Fallible => Race

IInv == TypeOK /\ Waiting /\ Finding /\ Racing

-----------------------------------------------------------------------------
(* Types.                                                                  *)

\* What is running is a set of containers, so that a list of it has them all.
LEMMA Listed ==
  ASSUME TypeOK
  PROVE  /\ Running \subseteq Everything
         /\ ContainerList(Running) \in Seq(Everything)
         /\ \A t \in Running :
               \E i \in 1..Len(ContainerList(Running)) : ContainerList(Running)[i] = t
<1>1. Running \in SUBSET Everything
  BY DEF TypeOK, Running, Everything
<1>2. ContainerList(Running) \in Seq(Running)
  BY <1>1, ListAssumption
<1>3. ContainerList(Running) \in Seq(Everything)
  BY <1>1, <1>2
<1> QED
  BY <1>1, <1>3, ListAssumption

\* A command that is typed has a container of its own, which is not the old one.
LEMMA Typed ==
  ASSUME TypeOK, NEW c \in typed
  PROVE  c \in Command /\ c \in PowerContainer /\ c # Old
BY PowerAssumption DEF TypeOK, PowerContainer

\* A new state for one container.
LEMMA StateTypes ==
  ASSUME TypeOK, NEW d \in PowerContainer, NEW v \in {"absent", "created", "running", "exited"},
         d = Old => v \in {"absent", "exited"}, cstate' = [cstate EXCEPT ![d] = v]
  PROVE  /\ cstate' \in [PowerContainer -> {"absent", "created", "running", "exited"}]
         /\ cstate'[Old] \in {"absent", "exited"}
         /\ cstate'[d] = v
         /\ \A e \in PowerContainer : e # d => cstate'[e] = cstate[e]
<1>1. Old \in PowerContainer
  BY DEF PowerContainer
<1>2. cstate \in [PowerContainer -> {"absent", "created", "running", "exited"}]
      /\ cstate[Old] \in {"absent", "exited"}
  BY DEF TypeOK
<1> QED
  BY <1>1, <1>2

\* Stopping a container.
LEMMA StopTypes ==
  ASSUME TypeOK, NEW t, ContainerStop(t)
  PROVE  /\ up' \subseteq up /\ UNCHANGED <<exited, restarting, name>>
         /\ cstate' \in [PowerContainer -> {"absent", "created", "running", "exited"}]
         /\ cstate'[Old] \in {"absent", "exited"}
         /\ outer' \in [Command -> OuterPc]
         /\ \A d \in PowerContainer :
               cstate'[d] = cstate[d] \/ (cstate[d] = "running" /\ cstate'[d] = "exited")
         /\ \A c \in Command : outer'[c] \in {outer[c], "gone"}
         /\ Console \in up /\ t # Console => Console \in up'
<1>1. Old \in PowerContainer
  BY DEF PowerContainer
<1>2. /\ cstate' \in [PowerContainer -> {"absent", "created", "running", "exited"}]
      /\ \A d \in PowerContainer :
            cstate'[d] = cstate[d] \/ (cstate[d] = "running" /\ cstate'[d] = "exited")
  BY DEF ContainerStop, TypeOK
<1>3. cstate'[Old] \in {"absent", "exited"}
  BY <1>1, <1>2 DEF TypeOK
<1> QED
  BY <1>2, <1>3 DEF ContainerStop, TypeOK, OuterPc

\* The steps of a command in the console keep the types,
LEMMA OuterTypes ==
  ASSUME TypeOK, NEW c \in typed, Outer(c), UNCHANGED typed
  PROVE  TypeOK'
<1> USE DEF docker, flags, outerVars, innerVars
<1>0. c \in Command /\ c \in PowerContainer /\ c # Old
  BY Typed
<1>g. \A pc \in OuterPc : Goto(c, pc) => outer' \in [Command -> OuterPc]
  BY <1>0 DEF Goto, TypeOK
<1>r. Refuse(c) => UNCHANGED <<docker, innerVars, existing>> /\ outer' \in [Command -> OuterPc]
  BY <1>g DEF Refuse, OuterPc
<1>1. CASE ForceReboot(c)
  BY <1>1, <1>g DEF ForceReboot, TypeOK, OuterPc
<1>2. CASE Validate(c)
  BY <1>2, <1>g, <1>r DEF Validate, TypeOK, OuterPc
<1>3. CASE Inspect(c)
  <2>1. SameName(c) \subseteq PowerContainer
    BY DEF SameName
  <2>2. existing' \in [Command -> PowerContainer]
    BY <1>0, <1>3, <2>1 DEF Inspect, TypeOK
  <2>3. outer' \in [Command -> OuterPc]
    BY <1>3, <1>g DEF Inspect, OuterPc
  <2> QED
    BY <1>3, <2>2, <2>3 DEF Inspect, TypeOK
<1>4. CASE RemoveExisting(c)
  <2>1. CASE Refuse(c)
    BY <1>4, <1>r, <2>1 DEF RemoveExisting, TypeOK
  <2>2. CASE cstate' = [cstate EXCEPT ![existing[c]] = "absent"] /\ Goto(c, "create")
             /\ UNCHANGED <<up, exited, restarting, name, innerVars, existing>>
    <3>1. existing[c] \in PowerContainer
      BY <1>0 DEF TypeOK
    <3>2. outer' \in [Command -> OuterPc]
      BY <1>g, <2>2 DEF OuterPc
    <3>3. /\ cstate' \in [PowerContainer -> {"absent", "created", "running", "exited"}]
          /\ cstate'[Old] \in {"absent", "exited"}
      BY <2>2, <3>1, StateTypes
    <3> QED
      BY <2>2, <3>2, <3>3 DEF TypeOK
  <2> QED
    BY <1>4, <2>1, <2>2 DEF RemoveExisting
<1>5. CASE Create(c)
  <2>1. CASE Refuse(c)
    BY <1>5, <1>r, <2>1 DEF Create, TypeOK
  <2>2. CASE cstate' = [cstate EXCEPT ![c] = "created"] /\ Goto(c, "start")
             /\ UNCHANGED <<up, exited, restarting, name, innerVars, existing>>
    <3>2. outer' \in [Command -> OuterPc]
      BY <1>g, <2>2 DEF OuterPc
    <3>3. /\ cstate' \in [PowerContainer -> {"absent", "created", "running", "exited"}]
          /\ cstate'[Old] \in {"absent", "exited"}
      BY <1>0, <2>2, StateTypes
    <3> QED
      BY <2>2, <3>2, <3>3 DEF TypeOK
  <2> QED
    BY <1>5, <2>1, <2>2 DEF Create
<1>6. CASE Start(c)
  <2>1. CASE Refuse(c)
    BY <1>6, <1>r, <2>1 DEF Start, TypeOK
  <2>2. CASE /\ cstate' = [cstate EXCEPT ![c] = "running"] /\ Goto(c, "logs")
             /\ inner' = [inner EXCEPT ![c] = "validate"]
             /\ UNCHANGED <<up, exited, restarting, name, existing, found, idx,
                            consoleContainerIdx, waitErr>>
    <3>1. inner' \in [Command -> InnerPc]
      BY <1>0, <2>2 DEF TypeOK, InnerPc
    <3>2. outer' \in [Command -> OuterPc]
      BY <1>g, <2>2 DEF OuterPc
    <3>3. /\ cstate' \in [PowerContainer -> {"absent", "created", "running", "exited"}]
          /\ cstate'[Old] \in {"absent", "exited"}
      BY <1>0, <2>2, StateTypes
    <3> QED
      BY <2>2, <3>1, <3>2, <3>3 DEF TypeOK
  <2> QED
    BY <1>6, <2>1, <2>2 DEF Start
<1>7. CASE LogsEnd(c)
  BY <1>7, <1>g DEF LogsEnd, TypeOK, OuterPc
<1> QED
  BY <1>1, <1>2, <1>3, <1>4, <1>5, <1>6, <1>7 DEF Outer

\* those of the command in its container,
LEMMA InnerTypes ==
  ASSUME TypeOK, NEW c \in typed, Inner(c), UNCHANGED typed
  PROVE  TypeOK'
<1> USE DEF docker, flags, outerVars, innerVars
<1>0. c \in Command /\ c \in PowerContainer /\ c # Old
  BY Typed
<1>s. \A pc \in InnerPc : Step(c, pc) => inner' \in [Command -> InnerPc]
  BY <1>0 DEF Step, TypeOK
<1>1. ASSUME NEW to \in InnerPc, NEW from, ListContainers(c, from, to)
      PROVE  TypeOK'
  <2>1. ContainerList(Running) \in Seq(Everything)
    BY Listed
  <2>2. found' \in [Command -> Seq(Everything)]
    BY <1>0, <1>1, <2>1 DEF ListContainers, TypeOK
  <2>3. idx' \in [Command -> Nat \ {0}]
    <3>1. idx' = [idx EXCEPT ![c] = 1] \/ idx' = idx
      BY <1>1 DEF ListContainers
    <3>2. idx \in [Command -> Nat \ {0}]
      BY DEF TypeOK
    <3> QED
      BY <1>0, <3>1, <3>2
  <2>4. inner' \in [Command -> InnerPc]
    BY <1>1, <1>s DEF ListContainers, InnerPc
  <2> QED
    BY <1>1, <2>2, <2>3, <2>4 DEF ListContainers, TypeOK
<1>2. NoteConsole(c) => consoleContainerIdx' \in [Command -> Nat]
  BY <1>0 DEF NoteConsole, TypeOK
<1>3. Advance(c) => idx' \in [Command -> Nat \ {0}]
  BY <1>0 DEF Advance, TypeOK
<1>4. CASE StopNext(c)
  <2>1. CASE UNCHANGED <<docker, outer>>
    BY <1>2, <1>3, <1>4, <2>1 DEF StopNext, TypeOK
  <2>2. CASE ContainerStop(Current(c))
    BY <1>2, <1>3, <1>4, <2>2, StopTypes DEF StopNext, TypeOK
  <2> QED
    BY <1>4, <2>1, <2>2 DEF StopNext
<1>5. CASE WaitNext(c)
  BY <1>0, <1>2, <1>3, <1>5 DEF WaitNext, TypeOK
<1>6. CASE LoopEnds(c)
  BY <1>6, <1>s DEF LoopEnds, TypeOK, InnerPc
<1>7. EndContainer(c) =>
         /\ cstate' \in [PowerContainer -> {"absent", "created", "running", "exited"}]
         /\ cstate'[Old] \in {"absent", "exited"}
  BY <1>0, StateTypes DEF EndContainer
<1>8. CASE StopConsole(c)
  <2>1. inner' \in [Command -> InnerPc] /\ UNCHANGED <<existing, found, idx, consoleContainerIdx, waitErr>>
    BY <1>s, <1>8 DEF StopConsole, InnerPc
  <2>2. CASE UNCHANGED <<docker, outer>>
    BY <2>1, <2>2 DEF TypeOK
  <2>3. CASE \E t : ContainerStop(t)
    BY <2>1, <2>3, StopTypes DEF TypeOK
  <2>4. CASE EndContainer(c) /\ UNCHANGED <<up, exited, restarting, name, outer>>
    BY <1>7, <2>1, <2>4 DEF TypeOK
  <2> QED
    BY <1>8, <2>2, <2>3, <2>4 DEF StopConsole
<1>9. CASE WaitConsole(c)
  BY <1>0, <1>s, <1>9 DEF WaitConsole, TypeOK, InnerPc
<1>10. CASE Kexec(c)
  BY <1>s, <1>7, <1>10 DEF Kexec, TypeOK, InnerPc
<1>11. CASE Reboot(c)
  BY <1>11 DEF Reboot, TypeOK
<1>12. CASE ValidateAgain(c)
  <2>1. inner' \in [Command -> InnerPc]
    BY <1>s, <1>12 DEF ValidateAgain, InnerPc
  <2> QED
    BY <1>7, <1>12, <2>1 DEF ValidateAgain, TypeOK
<1> QED
  BY <1>1, <1>12, <1>4, <1>5, <1>6, <1>8, <1>9, <1>10, <1>11 DEF Inner, InnerPc

\* and those of System Docker.
LEMMA DockerTypes ==
  ASSUME TypeOK, NEW s \in Service \cup {Console}, Exit(s) \/ Restart(s), UNCHANGED typed
  PROVE  TypeOK'
BY DEF TypeOK, Exit, Restart, flags, outerVars, innerVars
-----------------------------------------------------------------------------
(* The console is last.                                                    *)

\* A command whose list and place in it stay as they are has no more to wait for.
LEMMA WaitsKept ==
  ASSUME NEW c \in Command, Waits(c), Left' \subseteq Left,
         inner'[c] = inner[c] \/ inner'[c] \notin {"wait", "console"},
         found'[c] = found[c], idx'[c] = idx[c], waitErr'[c] = waitErr[c]
  PROVE  Waits(c)'
BY DEF Waits

\* Left changes with up and exited only.
LEMMA LeftShrinks ==
  ASSUME up' \subseteq up, UNCHANGED exited
  PROVE  Left' \subseteq Left
BY DEF Left

\* runDocker does not touch the lists of any command.
LEMMA OuterWaiting ==
  ASSUME TypeOK, Waiting, NEW c \in typed, Outer(c)
  PROVE  Waiting'
<1> USE DEF docker, flags, outerVars, innerVars
<1>0. c \in Command
  BY Typed
<1>1. UNCHANGED <<up, exited, found, idx, waitErr>>
  BY DEF Outer, ForceReboot, Validate, Inspect, RemoveExisting, Create, Start, LogsEnd, Refuse
<1>2. \A d \in Command : inner'[d] = inner[d] \/ inner'[d] \notin {"wait", "console"}
  <2>1. CASE Start(c)
    <3>1. inner' = inner \/ inner' = [inner EXCEPT ![c] = "validate"]
      BY <2>1 DEF Start, Refuse
    <3>2. inner \in [Command -> InnerPc]
      BY DEF TypeOK
    <3> QED
      BY <1>0, <3>1, <3>2
  <2>2. CASE ~Start(c)
    BY <2>2 DEF Outer, ForceReboot, Validate, Inspect, RemoveExisting, Create, LogsEnd, Refuse
  <2> QED
    BY <2>1, <2>2
<1>3. Left' \subseteq Left
  BY <1>1 DEF Left
<1> QED
  BY <1>1, <1>2, <1>3, WaitsKept DEF Waiting

\* Each turn of the second loop leaves one container less to wait for.
LEMMA InnerWaiting ==
  ASSUME TypeOK, Waiting, NEW c \in typed, Inner(c)
  PROVE  Waiting'
<1> USE DEF docker, flags, outerVars, innerVars
<1>0. c \in Command
  BY Typed
<1>t. /\ inner \in [Command -> InnerPc] /\ found \in [Command -> Seq(Everything)]
      /\ idx \in [Command -> Nat \ {0}] /\ waitErr \in [Command -> BOOLEAN]
  BY DEF TypeOK
<1>e. Left' \subseteq Left
  <2>1. up' \subseteq up /\ UNCHANGED exited
    BY DEF Inner, ValidateAgain, ListContainers, StopNext, WaitNext, LoopEnds, StopConsole, WaitConsole, Kexec, Reboot,
           ContainerStop
  <2> QED
    BY <2>1, LeftShrinks
<1>o. \A d \in Command \ {c} :
         /\ inner'[d] = inner[d] /\ found'[d] = found[d] /\ idx'[d] = idx[d]
         /\ waitErr'[d] = waitErr[d]
  <2>1. inner' = inner \/ \E pc : inner' = [inner EXCEPT ![c] = pc]
    BY DEF Inner, ValidateAgain, ListContainers, StopNext, WaitNext, LoopEnds, StopConsole, WaitConsole, Kexec, Reboot,
           Step
  <2>2. found' = found \/ \E l : found' = [found EXCEPT ![c] = l]
    BY DEF Inner, ValidateAgain, ListContainers, StopNext, WaitNext, LoopEnds, StopConsole, WaitConsole, Kexec, Reboot
  <2>3. idx' = idx \/ \E i : idx' = [idx EXCEPT ![c] = i]
    BY DEF Inner, ValidateAgain, ListContainers, StopNext, WaitNext, LoopEnds, StopConsole, WaitConsole, Kexec, Reboot,
           Advance
  <2>4. waitErr' = waitErr \/ waitErr' = [waitErr EXCEPT ![c] = TRUE]
    BY DEF Inner, ValidateAgain, ListContainers, StopNext, WaitNext, LoopEnds, StopConsole, WaitConsole, Kexec, Reboot
  <2> QED
    BY <1>t, <2>1, <2>2, <2>3, <2>4
<1>d. \A d \in Command \ {c} : Waits(d)'
  BY <1>e, <1>o, WaitsKept DEF Waiting
<1>c. Waits(c)'
  <2>0. Waits(c)
    BY <1>0 DEF Waiting
  <2>s. \A pc : Step(c, pc) => inner'[c] = pc
    BY <1>0, <1>t DEF Step
  <2>1. CASE ListContainers(c, "list", "stop")
    <3>1. inner'[c] \notin {"wait", "console"}
      BY <2>1, <2>s DEF ListContainers
    <3> QED
      BY <3>1 DEF Waits
  <2>2. CASE ListContainers(c, "relist", "wait")
    <3>1. CASE inner'[c] \notin {"wait", "console"}
      BY <3>1 DEF Waits
    <3>2. CASE inner'[c] \in {"wait", "console"}
      <4>1. inner'[c] = "wait" /\ found' = [found EXCEPT ![c] = ContainerList(Running)]
            /\ idx' = [idx EXCEPT ![c] = 1] /\ UNCHANGED <<up, exited>>
        BY <2>2, <2>s, <3>2 DEF ListContainers
      <4>2. found'[c] = ContainerList(Running) /\ idx'[c] = 1
        BY <1>0, <1>t, <4>1
      <4>3. Left' \subseteq Running
        BY <4>1 DEF Left, Running
      <4>4. \A s \in Left' : \E i \in idx'[c]..Len(found'[c]) : found'[c][i] = s
        BY <4>2, <4>3, Listed
      <4> QED
        BY <4>1, <4>4 DEF Waits
    <3> QED
      BY <3>1, <3>2
  <2>3. CASE StopNext(c)
    <3>1. inner'[c] = "stop"
      BY <2>3 DEF StopNext, InContainer
    <3> QED
      BY <3>1 DEF Waits
  <2>4. CASE WaitNext(c)
    <3>1. idx'[c] = idx[c] + 1 /\ found'[c] = found[c] /\ inner'[c] = "wait" /\ inner[c] = "wait"
      BY <1>0, <1>t, <2>4 DEF WaitNext, Advance, InContainer
    <3>2. CASE waitErr' = [waitErr EXCEPT ![c] = TRUE]
      <4>1. waitErr'[c]
        BY <1>0, <1>t, <3>2
      <4> QED
        BY <4>1 DEF Waits
    <3>3. CASE /\ Skipped(c, Current(c)) \/ Current(c) \notin Running
               /\ UNCHANGED <<waitErr, up, exited>>
      <4>1. Current(c) \notin Left
        BY <3>3, Typed, PowerAssumption DEF Skipped, Left, Running
      <4>2. ~waitErr[c] =>
              \A s \in Left : \E i \in (idx[c] + 1)..Len(found[c]) : found[c][i] = s
        <5> SUFFICES ASSUME ~waitErr[c], NEW s \in Left
                     PROVE  \E i \in (idx[c] + 1)..Len(found[c]) : found[c][i] = s
          OBVIOUS
        <5>1. PICK i \in idx[c]..Len(found[c]) : found[c][i] = s
          BY <2>0, <3>1 DEF Waits
        <5>2. i # idx[c]
          BY <4>1, <5>1 DEF Current
        <5>3. idx[c] \in Nat /\ Len(found[c]) \in Nat
          BY <1>0, <1>t
        <5> QED
          BY <5>1, <5>2, <5>3
      <4>3. Left' = Left /\ waitErr'[c] = waitErr[c]
        BY <3>3 DEF Left
      <4> QED
        BY <3>1, <4>2, <4>3 DEF Waits
    <3> QED
      BY <2>4, <3>2, <3>3 DEF WaitNext
  <2>5. CASE LoopEnds(c)
    <3>1. inner'[c] = (IF inner[c] = "stop" THEN "relist" ELSE "console")
          /\ inner[c] \in {"stop", "wait"} /\ waitErr' = waitErr /\ AtEnd(c)
      BY <2>5, <2>s DEF LoopEnds, InContainer
    <3>2. CASE inner[c] = "stop"
      BY <3>1, <3>2 DEF Waits
    <3>3. CASE inner[c] = "wait"
      <4>1. ~waitErr[c] => Left = {}
        <5>1. idx[c] \in Nat /\ Len(found[c]) \in Nat /\ idx[c] > Len(found[c])
          BY <1>0, <1>t, <3>1 DEF AtEnd
        <5> QED
          BY <2>0, <3>3, <5>1 DEF Waits
      <4> QED
        BY <1>e, <3>1, <3>3, <4>1 DEF Waits
    <3> QED
      BY <3>1, <3>2, <3>3
  <2>6. CASE StopConsole(c)
    <3>1. inner'[c] \notin {"wait", "console"}
      BY <2>6, <2>s DEF StopConsole
    <3> QED
      BY <3>1 DEF Waits
  <2>7. CASE WaitConsole(c)
    <3>1. inner'[c] \notin {"wait", "console"}
      BY <2>7, <2>s DEF WaitConsole
    <3> QED
      BY <3>1 DEF Waits
  <2>8. CASE Kexec(c) \/ Reboot(c) \/ ValidateAgain(c)
    <3>1. inner'[c] = inner[c] \/ inner'[c] \notin {"wait", "console"}
      BY <2>8, <2>s DEF Kexec, Reboot, ValidateAgain
    <3>2. UNCHANGED <<found, idx, waitErr>>
      BY <2>8 DEF Kexec, Reboot, ValidateAgain
    <3> QED
      BY <1>0, <1>e, <2>0, <3>1, <3>2, WaitsKept
  <2> QED
    BY <2>1, <2>2, <2>3, <2>4, <2>5, <2>6, <2>7, <2>8 DEF Inner
<1> QED
  BY <1>c, <1>d DEF Waiting

\* A container that Docker starts again is one that ended by itself.
LEMMA DockerWaiting ==
  ASSUME TypeOK, Waiting, NEW s, Exit(s) \/ Restart(s)
  PROVE  Waiting'
<1>1. UNCHANGED <<inner, found, idx, waitErr>>
  BY DEF Exit, Restart, innerVars
<1>2. Left' \subseteq Left
  BY DEF Exit, Restart, Left, TypeOK
<1> QED
  BY <1>1, <1>2, WaitsKept DEF Waiting
-----------------------------------------------------------------------------
(* The console is found.                                                   *)

\* While runDocker is at work the console runs.
LEMMA OuterFinds ==
  ASSUME TypeOK, NEW c \in typed, Finds(c), Outer(c)
  PROVE  Finds(c)'
<1> USE DEF docker, flags, outerVars, innerVars
<1>0. c \in Command
  BY Typed
<1>1. UNCHANGED <<up, found, idx, consoleContainerIdx>>
  BY DEF Outer, ForceReboot, Validate, Inspect, RemoveExisting, Create, Start, LogsEnd, Refuse
<1>g. \A pc : Goto(c, pc) => outer'[c] = pc
  BY <1>0 DEF Goto, TypeOK
<1>2. CASE Start(c)
  <2>1. outer[c] = "start" /\ outer'[c] \in {"refused", "logs"}
    BY <1>g, <1>2 DEF Start, At, Refuse
  <2>2. inner[c] = "none" /\ Console \in up
    BY <2>1 DEF Finds, Early
  <2>3. inner'[c] \in {"none", "validate"}
    <3>1. inner' = inner \/ inner' = [inner EXCEPT ![c] = "validate"]
      BY <1>2 DEF Start, Refuse
    <3>2. inner \in [Command -> InnerPc]
      BY DEF TypeOK
    <3> QED
      BY <1>0, <2>2, <3>1, <3>2
  <2> QED
    BY <1>1, <2>1, <2>2, <2>3 DEF Finds, Early
<1>3. CASE ~Start(c)
  <2>1. inner' = inner
    BY <1>3 DEF Outer, ForceReboot, Validate, Inspect, RemoveExisting, Create, LogsEnd, Refuse
  <2>2. outer'[c] \in Early => outer[c] \in Early
    BY <1>3, <1>g DEF Outer, ForceReboot, Validate, Inspect, RemoveExisting, Create, LogsEnd, Refuse, At, Early
  <2> QED
    BY <1>1, <2>1, <2>2 DEF Finds, Points
<1> QED
  BY <1>2, <1>3

\* shutDownContainers finds the console in the second list, and keeps its index.
LEMMA InnerFinds ==
  ASSUME TypeOK, NEW c \in typed, Finds(c), Inner(c)
  PROVE  Finds(c)'
<1> USE DEF docker, flags, outerVars, innerVars
<1>0. c \in Command
  BY Typed
<1>t. /\ inner \in [Command -> InnerPc] /\ found \in [Command -> Seq(Everything)]
      /\ idx \in [Command -> Nat \ {0}] /\ consoleContainerIdx \in [Command -> Nat]
      /\ outer \in [Command -> OuterPc]
  BY DEF TypeOK
<1>l. Len(found[c]) \in Nat /\ idx[c] \in Nat /\ idx[c] > 0
  BY <1>0, <1>t
<1>s. \A pc : Step(c, pc) => inner'[c] = pc
  BY <1>0, <1>t DEF Step
<1>e. outer'[c] \notin Early
  <2>1. inner[c] # "none"
    BY DEF Inner, ValidateAgain, ListContainers, StopNext, WaitNext, LoopEnds, StopConsole, WaitConsole, Kexec, Reboot,
           InContainer
  <2>2. outer'[c] \in {outer[c], "gone"}
    <3>1. outer' = outer \/ \E t : ContainerStop(t)
      BY DEF Inner, ValidateAgain, ListContainers, StopNext, WaitNext, LoopEnds, StopConsole, WaitConsole, Kexec, Reboot
    <3> QED
      BY <1>0, <3>1, StopTypes
  <2> QED
    BY <2>1, <2>2 DEF Finds, Early
<1>1. CASE ListContainers(c, "list", "stop")
  <2>1. inner'[c] \in {"stop", "sync"} /\ inner[c] = "list" /\ up' = up
    BY <1>1, <1>s DEF ListContainers, InContainer
  <2> QED
    BY <1>e, <2>1 DEF Finds
<1>2. CASE ListContainers(c, "relist", "wait")
  <2>1. inner'[c] \in {"wait", "sync"} /\ inner[c] = "relist" /\ up' = up
    BY <1>2, <1>s DEF ListContainers, InContainer
  <2>2. CASE inner'[c] = "sync"
    BY <1>e, <2>2 DEF Finds
  <2>3. CASE inner'[c] = "wait"
    <3>1. found' = [found EXCEPT ![c] = ContainerList(Running)] /\ idx' = [idx EXCEPT ![c] = 1]
      BY <1>2, <1>s, <2>3 DEF ListContainers
    <3>2. found'[c] = ContainerList(Running) /\ idx'[c] = 1
      BY <1>0, <1>t, <3>1
    <3>3. Console \in up /\ Console \in Running
      BY <2>1 DEF Finds, Running
    <3>4. \E k \in 1..Len(found'[c]) : found'[c][k] = Console
      BY <3>2, <3>3, Listed
    <3>5. ~\E k \in 1..(idx'[c] - 1) : found'[c][k] = Console
      BY <3>2
    <3> QED
      BY <1>e, <2>1, <2>3, <3>3, <3>4, <3>5 DEF Finds
  <2> QED
    BY <2>1, <2>2, <2>3
<1>3. CASE StopNext(c)
  <2>1. inner[c] = "stop" /\ inner' = inner
    BY <1>3 DEF StopNext, InContainer
  <2>2. Console \in up
    BY <2>1 DEF Finds
  <2>3. Console \in up'
    BY <1>3, <2>2 DEF StopNext, Skipped, ContainerStop
  <2> QED
    BY <1>e, <2>1, <2>3 DEF Finds
<1>4. CASE WaitNext(c)
  <2>1. inner[c] = "wait" /\ inner' = inner /\ found' = found /\ up' = up
        /\ Advance(c) /\ NoteConsole(c) /\ ~AtEnd(c)
    BY <1>4 DEF WaitNext, InContainer
  <2>2. idx'[c] = idx[c] + 1
    BY <1>0, <1>t, <2>1 DEF Advance
  <2>3. consoleContainerIdx'[c] = IF Current(c) = Console THEN idx[c] ELSE consoleContainerIdx[c]
    BY <1>0, <1>t, <2>1 DEF NoteConsole
  <2>4. idx[c] \in 1..Len(found[c])
    BY <1>l, <2>1 DEF AtEnd
  <2>5. ASSUME NEW k \in 1..idx[c], found[c][k] = Console
        PROVE  /\ consoleContainerIdx'[c] \in 1..Len(found[c])
               /\ found[c][consoleContainerIdx'[c]] = Console
    <3>1. CASE Current(c) = Console
      BY <2>3, <2>4, <3>1 DEF Current
    <3>2. CASE Current(c) # Console
      <4>1. k # idx[c]
        BY <2>5, <3>2 DEF Current
      <4>2. k \in 1..(idx[c] - 1)
        BY <1>l, <4>1
      <4> QED
        BY <2>1, <2>3, <2>5, <3>2, <4>2 DEF Finds, Points
    <3> QED
      BY <3>1, <3>2
  <2>6. idx'[c] - 1 = idx[c]
    BY <1>l, <2>2
  <2>7. (\E k \in 1..(idx'[c] - 1) : found'[c][k] = Console) => Points(c)'
    BY <2>1, <2>5, <2>6 DEF Points
  <2> QED
    BY <1>e, <2>1, <2>7 DEF Finds
<1>5. CASE LoopEnds(c)
  <2>1. inner'[c] = (IF inner[c] = "stop" THEN "relist" ELSE "console") /\ inner[c] \in {"stop", "wait"}
        /\ AtEnd(c) /\ UNCHANGED <<up, found, idx, consoleContainerIdx>>
    BY <1>5, <1>s DEF LoopEnds, InContainer
  <2>2. Console \in up
    BY <2>1 DEF Finds
  <2>3. inner[c] = "wait" => Points(c)
    <3>1. 1..Len(found[c]) \subseteq 1..(idx[c] - 1)
      BY <1>l, <2>1 DEF AtEnd
    <3> QED
      BY <3>1 DEF Finds
  <2>4. inner[c] = "wait" => Points(c)'
    BY <2>1, <2>3 DEF Points
  <2> QED
    BY <1>e, <2>1, <2>2, <2>4 DEF Finds
<1>6. CASE StopConsole(c)
  <2>1. inner'[c] \in {"sync", "consoleWait", "panic"}
    BY <1>6, <1>s DEF StopConsole
  <2> QED
    BY <1>e, <2>1 DEF Finds
<1>7. CASE WaitConsole(c)
  <2>1. inner'[c] = "sync"
    BY <1>7, <1>s DEF WaitConsole
  <2> QED
    BY <1>e, <2>1 DEF Finds
<1>8. CASE Kexec(c) \/ Reboot(c)
  <2>1. (inner'[c] = inner[c] /\ inner[c] \in {"kexec", "sync"}) \/ inner'[c] = "done"
    BY <1>8, <1>s DEF Kexec, Reboot, InContainer
  <2>2. up' = up
    BY <1>8 DEF Kexec, Reboot
  <2> QED
    BY <1>e, <2>1, <2>2 DEF Finds
<1>9. CASE ValidateAgain(c)
  <2>1. inner[c] = "validate" /\ inner'[c] \in {"kexec", "list", "refused"} /\ up' = up
    BY <1>9, <1>s DEF ValidateAgain, InContainer
  <2> QED
    BY <1>e, <2>1 DEF Finds
<1> QED
  BY <1>1, <1>2, <1>3, <1>4, <1>5, <1>6, <1>7, <1>8, <1>9 DEF Inner

\* The console does not end by itself.
LEMMA DockerFinds ==
  ASSUME Console \notin MayExit, NEW c, Finds(c), NEW s, Exit(s) \/ Restart(s)
  PROVE  Finds(c)'
<1>1. UNCHANGED <<outer, inner, found, idx, consoleContainerIdx>>
  BY DEF Exit, Restart, innerVars, outerVars
<1>2. Console \in up => Console \in up'
  BY DEF Exit, Restart
<1> QED
  BY <1>1, <1>2 DEF Finds, Points
-----------------------------------------------------------------------------
(* Someone starts.                                                         *)

\* Containers that end, and processes that end, take nothing from the race.
LEMMA RaceEnds ==
  ASSUME TypeOK, Race, UNCHANGED <<typed, name, existing>>,
         \A d \in PowerContainer :
            cstate'[d] = cstate[d] \/ (cstate[d] = "running" /\ cstate'[d] = "exited"),
         \A c \in Command : outer'[c] \in {outer[c], "gone"}
  PROVE  Race'
<1>0. /\ typed \subseteq Command /\ Command \subseteq PowerContainer /\ Old \in PowerContainer
      /\ existing \in [Command -> PowerContainer]
  BY DEF TypeOK, PowerContainer
<1>1. \A d \in PowerContainer : Present(d)' <=> Present(d)
  BY DEF Present
<1>2. \A l \in typed : Leads(l) => Leads(l)'
  BY <1>0 DEF Leads
<1>3. \A n : Led(n) => Led(n)'
  BY <1>2 DEF Led
<1>4. \A c \in typed : Past(c)' => Past(c) \/ outer'[c] = "gone"
  BY <1>0, <1>1 DEF Past
<1>5. OneEach'
  BY <1>1 DEF OneEach, Race
<1>6. Owned'
  BY <1>0, <1>1 DEF Owned, Race
<1>7. Starting'
  BY <1>0 DEF Starting, Race
<1>8. OldGone'
  BY <1>0, <1>1 DEF OldGone, Race
<1>9. Removing'
  BY <1>0 DEF Removing, Race
<1>10. AllLed'
  <2>1. \A c \in typed : outer'[c] = "gone" => Led(name[c])'
    BY DEF Led, Leads
  <2> QED
    BY <1>3, <1>4, <2>1 DEF AllLed, Race
<1>11. Someone'
  BY <1>0 DEF Someone, Race
<1> QED
  BY <1>5, <1>6, <1>7, <1>8, <1>9, <1>10, <1>11 DEF Race

\* A command that leads has not refused.
LEMMA LeaderIsThere ==
  ASSUME NEW n, Led(n)
  PROVE  Someone
BY DEF Led, Leads, Someone

\* A container that is there, with the name of a command that creates its own, is
\* that of a leader.
LEMMA PresentLeads ==
  ASSUME TypeOK, Race, NEW d \in Command, Present(d)
  PROVE  d \in typed /\ Leads(d)
BY DEF Race, Owned, Starting, Present, Leads

\* Each step of runDocker leaves a leader for every name.
LEMMA OuterRacing ==
  ASSUME TypeOK, Race, ~Fallible, NEW c \in typed, Outer(c), UNCHANGED typed
  PROVE  Race'
<1> USE DEF docker, flags, outerVars, innerVars
<1>0. c \in Command /\ c \in PowerContainer /\ c # Old
  BY Typed
<1>t. /\ typed \subseteq Command /\ Command \subseteq PowerContainer /\ Old \in PowerContainer
      /\ existing \in [Command -> PowerContainer] /\ outer \in [Command -> OuterPc]
      /\ cstate \in [PowerContainer -> {"absent", "created", "running", "exited"}]
  BY DEF TypeOK, PowerContainer
<1>g. \A pc : Goto(c, pc) => outer'[c] = pc /\ \A d \in Command \ {c} : outer'[d] = outer[d]
  BY <1>0, <1>t DEF Goto
<1>r. ASSUME Refuse(c), ~Present(c), \E l \in typed \ {c} : name[l] = name[c] /\ Leads(l)
      PROVE  Race'
  <2>1. /\ outer'[c] = "refused" /\ \A d \in Command \ {c} : outer'[d] = outer[d]
        /\ UNCHANGED <<cstate, existing, name>>
    BY <1>g, <1>r DEF Refuse
  <2>2. \A d \in PowerContainer : Present(d)' <=> Present(d)
    BY <2>1 DEF Present
  <2>3. \A l \in typed \ {c} : Leads(l) => Leads(l)'
    BY <1>t, <2>1 DEF Leads
  <2>4. \A n : Led(n) => Led(n)'
    <3>1. \A n : Led(n) => \E l \in typed \ {c} : name[l] = n /\ Leads(l)
      BY <1>r DEF Led
    <3> QED
      BY <2>1, <2>3, <3>1 DEF Led
  <2>5. \A d \in typed : Past(d)' => d # c /\ Past(d)
    BY <1>t, <2>1, <2>2 DEF Past
  <2>6. AllLed'
    BY <2>1, <2>4, <2>5 DEF AllLed, Race
  <2>7. Someone'
    BY <1>r, <2>1, <1>t DEF Someone, Leads
  <2>8. Owned'
    BY <1>0, <1>r, <1>t, <2>1, <2>2 DEF Owned, Race
  <2>9. OneEach' /\ Starting' /\ OldGone' /\ Removing'
    BY <1>t, <2>1, <2>2 DEF OneEach, Starting, OldGone, Removing, Race
  <2> QED
    BY <2>6, <2>7, <2>8, <2>9 DEF Race
<1>1. CASE ForceReboot(c) \/ LogsEnd(c)
  <2>1. UNCHANGED <<name, existing, cstate>> /\ (outer' = outer \/ Goto(c, "gone"))
    BY <1>1 DEF ForceReboot, LogsEnd
  <2> QED
    BY <1>g, <2>1, RaceEnds
<1>2. CASE Validate(c)
  <2>1. UNCHANGED <<name, existing, cstate>> /\ Goto(c, "inspect") /\ outer[c] = "validate"
    BY <1>2 DEF Validate, At
  <2>2. outer'[c] = "inspect" /\ \A d \in Command \ {c} : outer'[d] = outer[d]
    BY <1>g, <2>1
  <2>3. \A d \in PowerContainer : Present(d)' <=> Present(d)
    BY <2>1 DEF Present
  <2>4. \A l \in typed : Leads(l) => Leads(l)'
    BY <1>t, <2>1, <2>2 DEF Leads
  <2>5. \A d \in typed : Past(d)' => Past(d)
    BY <1>t, <2>1, <2>2, <2>3 DEF Past
  <2>6. AllLed'
    BY <2>1, <2>4, <2>5 DEF AllLed, Led, Race
  <2>7. Owned'
    BY <1>t, <2>1, <2>2, <2>3 DEF Owned, Race
  <2>8. OneEach' /\ Starting' /\ OldGone' /\ Removing'
    BY <1>t, <2>1, <2>2, <2>3 DEF OneEach, Starting, OldGone, Removing, Race
  <2> QED
    BY <2>2, <2>6, <2>7, <2>8 DEF Race, Someone
<1>3. CASE Inspect(c)
  <2>1. UNCHANGED <<name, cstate>> /\ outer[c] = "inspect"
    BY <1>3 DEF Inspect, At
  <2>3. \A d \in PowerContainer : Present(d)' <=> Present(d)
    BY <2>1 DEF Present
  <2>4. \A d \in Command \ {c} : outer'[d] = outer[d] /\ existing'[d] = existing[d]
    BY <1>3, <1>g, <1>t DEF Inspect
  <2>5. \/ outer'[c] = "create" /\ SameName(c) = {}
        \/ outer'[c] = "remove" /\ existing'[c] \in SameName(c)
    BY <1>0, <1>3, <1>g, <1>t DEF Inspect
  <2>6. \A l \in typed : Leads(l) => Leads(l)'
    BY <1>t, <2>1, <2>4 DEF Leads
  <2>7. \A n : Led(n) => Led(n)'
    BY <2>1, <2>6 DEF Led
  <2>8. \A d \in typed \ {c} : Past(d)' => Past(d)
    BY <1>t, <2>3, <2>4 DEF Past
  <2>9. Past(c)' => Led(name[c])'
    BY <2>1, <2>3, <2>5 DEF Past, Led, Leads, SameName, Present
  <2>10. AllLed'
    BY <2>1, <2>7, <2>8, <2>9 DEF AllLed, Race
  <2>11. Owned'
    BY <1>t, <2>1, <2>3, <2>4 DEF Owned, Race
  <2>12. OneEach' /\ Starting'
    BY <1>t, <2>1, <2>3, <2>4, <2>5 DEF OneEach, Starting, Race
  <2>13. OldGone'
    BY <1>t, <2>1, <2>3, <2>4, <2>5 DEF OldGone, Race, SameName, Present
  <2>14. Removing'
    BY <1>t, <2>1, <2>3, <2>4, <2>5 DEF Removing, Race, SameName
  <2> QED
    BY <2>5, <2>10, <2>11, <2>12, <2>13, <2>14 DEF Race, Someone
<1>4. CASE RemoveExisting(c)
  <2>0. existing[c] \in PowerContainer /\ outer[c] = "remove" /\ name[existing[c]] = name[c]
    BY <1>0, <1>4, <1>t DEF RemoveExisting, At, Removing, Race
  <2>1. CASE Refuse(c)
    <3>1. ~Present(c)
      BY <1>0, <2>0 DEF Owned, Race
    <3>2. cstate[existing[c]] \in {"absent", "running"}
      BY <1>4, <1>g, <2>1, <1>0 DEF RemoveExisting, Refuse
    <3>3. \E l \in typed : name[l] = name[c] /\ Leads(l)
      <4>1. CASE ~Present(existing[c])
        BY <2>0, <4>1 DEF AllLed, Race, Past, Led
      <4>2. CASE Present(existing[c])
        <5>1. existing[c] \in Command
          BY <2>0, <3>2, <4>2 DEF TypeOK, PowerContainer, Present
        <5> QED
          BY <2>0, <4>2, <5>1, PresentLeads
      <4> QED
        BY <4>1, <4>2
    <3>4. ~Leads(c)
      BY <2>0 DEF Leads
    <3> QED
      BY <1>r, <2>1, <3>1, <3>3, <3>4
  <2>2. CASE cstate' = [cstate EXCEPT ![existing[c]] = "absent"] /\ Goto(c, "create")
             /\ UNCHANGED <<name, existing>> /\ cstate[existing[c]] \in {"created", "exited"}
    <3>1. outer'[c] = "create" /\ \A d \in Command \ {c} : outer'[d] = outer[d]
      BY <1>g, <2>2
    <3>2. cstate'[existing[c]] = "absent" /\ \A e \in PowerContainer : e # existing[c] => cstate'[e] = cstate[e]
      BY <1>t, <2>0, <2>2
    <3>3. \A d \in PowerContainer : Present(d)' <=> Present(d) /\ d # existing[c]
      BY <3>2 DEF Present
    <3>4. Led(name[c])'
      BY <2>2, <3>1 DEF Led, Leads
    <3>5. \A l \in typed : name[l] # name[c] /\ Leads(l) => Leads(l)'
      BY <1>0, <1>t, <2>0, <3>1, <3>2 DEF Leads
    <3>6. \A n : Led(n) => Led(n)'
      BY <2>2, <3>4, <3>5 DEF Led
    <3>7. \A d \in typed : Past(d)' => Past(d) \/ name[d] = name[c]
      BY <1>t, <2>0, <2>2, <3>1, <3>3 DEF Past, Removing, Race
    <3>8. AllLed'
      BY <2>2, <3>4, <3>6, <3>7 DEF AllLed, Race
    <3>9. Owned'
      BY <1>0, <1>t, <2>0, <3>1, <3>3 DEF Owned, Race
    <3>10. OneEach'
      BY <2>2, <3>3 DEF OneEach, Race
    <3>11. Starting'
      BY <1>0, <1>t, <3>1, <3>2 DEF Starting, Race
    <3>12. OldGone'
      <4>1. Present(existing[c])
        BY <2>2 DEF Present
      <4>2. Present(Old) /\ name[Old] = name[c] => Old = existing[c]
        BY <1>t, <2>0, <4>1 DEF OneEach, Race
      <4> QED
        BY <1>t, <2>2, <3>1, <3>3, <4>2 DEF OldGone, Race
    <3>13. Removing'
      BY <1>t, <2>2, <3>1 DEF Removing, Race
    <3> QED
      BY <3>1, <3>8, <3>9, <3>10, <3>11, <3>12, <3>13 DEF Race, Someone
  <2> QED
    BY <1>4, <2>1, <2>2 DEF RemoveExisting
<1>5. CASE Create(c)
  <2>0. outer[c] = "create" /\ ~Present(c)
    BY <1>0, <1>5 DEF Create, At, Owned, Race
  <2>1. CASE Refuse(c) /\ SameName(c) # {}
    <3>1. PICK d \in PowerContainer : name[d] = name[c] /\ Present(d)
      BY <2>1 DEF SameName, Present
    <3>2. d \in Command /\ d # c
      BY <2>0, <3>1 DEF OldGone, Race, PowerContainer
    <3>3. d \in typed /\ Leads(d)
      BY <3>1, <3>2, PresentLeads
    <3> QED
      BY <1>r, <2>0, <2>1, <3>1, <3>2, <3>3
  <2>2. CASE cstate' = [cstate EXCEPT ![c] = "created"] /\ Goto(c, "start")
             /\ UNCHANGED <<name, existing>> /\ SameName(c) = {}
    <3>1. outer'[c] = "start" /\ \A d \in Command \ {c} : outer'[d] = outer[d]
      BY <1>g, <2>2
    <3>2. cstate'[c] = "created" /\ \A e \in PowerContainer : e # c => cstate'[e] = cstate[e]
      BY <1>0, <1>t, <2>2
    <3>3. \A d \in PowerContainer : Present(d)' <=> Present(d) \/ d = c
      BY <3>2 DEF Present
    <3>4. \A l \in typed : Leads(l) => Leads(l)'
      BY <1>t, <3>1, <3>2 DEF Leads
    <3>5. \A d \in typed : Past(d)' => Past(d)
      BY <1>t, <2>0, <2>2, <3>1, <3>3 DEF Past
    <3>6. AllLed'
      BY <2>2, <3>4, <3>5 DEF AllLed, Led, Race
    <3>7. Owned'
      BY <1>0, <1>t, <3>1, <3>3 DEF Owned, Race
    <3>8. \A d \in PowerContainer : Present(d) => name[d] # name[c]
      BY <2>2 DEF SameName, Present
    <3>9. OneEach'
      BY <2>2, <3>3, <3>8 DEF OneEach, Race
    <3>10. Starting'
      BY <1>0, <1>t, <3>1, <3>2 DEF Starting, Race
    <3>11. OldGone'
      BY <1>0, <1>t, <2>2, <3>1, <3>3 DEF OldGone, Race
    <3>12. Removing'
      BY <1>t, <2>2, <3>1 DEF Removing, Race
    <3> QED
      BY <3>1, <3>6, <3>7, <3>9, <3>10, <3>11, <3>12 DEF Race, Someone
  <2> QED
    BY <1>5, <2>1, <2>2 DEF Create
<1>6. CASE Start(c)
  <2>0. outer[c] = "start"
    BY <1>6 DEF Start, At
  <2>1. CASE Refuse(c) /\ cstate[c] # "created"
    <3>1. ~Present(c) /\ ~Leads(c)
      BY <1>0, <2>0, <2>1 DEF Starting, Race, Present, Leads
    <3>2. \E l \in typed : name[l] = name[c] /\ Leads(l)
      BY <2>0 DEF AllLed, Race, Past, Led
    <3> QED
      BY <1>r, <2>1, <3>1, <3>2
  <2>2. CASE cstate' = [cstate EXCEPT ![c] = "running"] /\ Goto(c, "logs")
             /\ UNCHANGED <<name, existing>> /\ cstate[c] = "created"
    <3>1. outer'[c] = "logs" /\ \A d \in Command \ {c} : outer'[d] = outer[d]
      BY <1>g, <2>2
    <3>2. cstate'[c] = "running" /\ \A e \in PowerContainer : e # c => cstate'[e] = cstate[e]
      BY <1>0, <1>t, <2>2
    <3>3. \A d \in PowerContainer : Present(d)' <=> Present(d)
      BY <2>2, <3>2 DEF Present
    <3>4. \A l \in typed : Leads(l) => Leads(l)'
      BY <1>t, <3>1, <3>2 DEF Leads
    <3>5. \A d \in typed : Past(d)' => Past(d)
      BY <1>t, <2>0, <2>2, <3>1, <3>3 DEF Past
    <3>6. AllLed'
      BY <2>2, <3>4, <3>5 DEF AllLed, Led, Race
    <3>7. Owned'
      BY <1>0, <1>t, <3>1, <3>3 DEF Owned, Race
    <3>8. OneEach'
      BY <2>2, <3>3 DEF OneEach, Race
    <3>9. Starting'
      BY <1>0, <1>t, <3>1, <3>2 DEF Starting, Race
    <3>10. OldGone'
      BY <1>t, <2>2, <3>1, <3>3 DEF OldGone, Race
    <3>11. Removing'
      BY <1>t, <2>2, <3>1 DEF Removing, Race
    <3> QED
      BY <3>1, <3>6, <3>7, <3>8, <3>9, <3>10, <3>11 DEF Race, Someone
  <2> QED
    BY <1>6, <2>1, <2>2 DEF Start
<1> QED
  BY <1>1, <1>2, <1>3, <1>4, <1>5, <1>6 DEF Outer
\* In the containers, and in System Docker, nothing is created or removed.
LEMMA InnerRacing ==
  ASSUME TypeOK, Race, NEW c \in typed, Inner(c) \/ Timeout(c), UNCHANGED typed
  PROVE  Race'
<1> USE DEF docker, flags, outerVars, innerVars
<1>0. c \in Command /\ c \in PowerContainer /\ c # Old
  BY Typed
<1>1. UNCHANGED <<name, existing>>
  BY DEF Inner, ValidateAgain, ListContainers, StopNext, WaitNext, LoopEnds, StopConsole, WaitConsole, Kexec, Reboot,
         Timeout, ContainerStop
<1>2. CASE UNCHANGED <<cstate, outer>>
  BY <1>1, <1>2, RaceEnds
<1>3. CASE \E t : ContainerStop(t)
  BY <1>1, <1>3, StopTypes, RaceEnds
<1>4. CASE EndContainer(c) /\ cstate[c] = "running" /\ UNCHANGED outer
  <2>1. \A d \in PowerContainer :
            cstate'[d] = cstate[d] \/ (cstate[d] = "running" /\ cstate'[d] = "exited")
    BY <1>0, <1>4 DEF EndContainer, TypeOK
  <2> QED
    BY <1>1, <1>4, <2>1, RaceEnds
<1> QED
  BY <1>2, <1>3, <1>4 DEF Inner, ValidateAgain, ListContainers, StopNext, WaitNext, LoopEnds, StopConsole, WaitConsole,
     Kexec, Reboot, Timeout, InContainer

-----------------------------------------------------------------------------
(* The inductive invariant.                                                *)

\* The invariant holds at first,
LEMMA InitInv == Init => IInv
<1> SUFFICES ASSUME Init PROVE IInv
  OBVIOUS
<1>0. Old \in PowerContainer /\ Command \subseteq PowerContainer /\ Old \notin Command
  BY PowerAssumption DEF PowerContainer
<1>1. PICK s \in {"absent", "exited"} :
         cstate = [c \in PowerContainer |-> IF c = Old THEN s ELSE "absent"]
  BY DEF Init
<1>2. \A d \in PowerContainer : d # Old => cstate[d] = "absent"
  BY <1>1
<1>3. cstate \in [PowerContainer -> {"absent", "created", "running", "exited"}]
      /\ cstate[Old] \in {"absent", "exited"}
  BY <1>0, <1>1
<1>4. /\ outer = [c \in Command |-> "validate"] /\ existing = [c \in Command |-> c]
      /\ inner = [c \in Command |-> "none"] /\ found = [c \in Command |-> <<>>]
      /\ idx = [c \in Command |-> 1] /\ consoleContainerIdx = [c \in Command |-> NoConsole]
      /\ waitErr = [c \in Command |-> FALSE] /\ name \in [PowerContainer -> Name]
      /\ typed \in SUBSET Command /\ typed # {}
      /\ up = Service \cup {Console} /\ exited = {} /\ restarting = {}
  BY DEF Init
<1>5. found \in [Command -> Seq(Everything)]
  BY <1>4
<1>6. /\ outer \in [Command -> OuterPc] /\ existing \in [Command -> PowerContainer]
      /\ inner \in [Command -> InnerPc]
  BY <1>0, <1>4 DEF OuterPc, InnerPc
<1>7. idx \in [Command -> Nat \ {0}] /\ consoleContainerIdx \in [Command -> Nat]
  BY <1>4 DEF NoConsole
<1>8. waitErr \in [Command -> BOOLEAN]
  BY <1>4
<1>9. TypeOK
  BY <1>3, <1>4, <1>5, <1>6, <1>7, <1>8 DEF TypeOK
<1>10. Waiting
  BY <1>4 DEF Waiting, Waits
<1>11. Finding
  BY <1>4 DEF Finding, Finds
<1>12. Racing
  <2>1. OneEach /\ Owned
    BY <1>0, <1>2 DEF OneEach, Owned, Present
  <2>2. Starting /\ OldGone /\ Removing /\ AllLed /\ Someone
    BY <1>4 DEF Starting, OldGone, Removing, AllLed, Past, Someone
  <2> QED
    BY <2>1, <2>2 DEF Racing, Race
<1> QED
  BY <1>9, <1>10, <1>11, <1>12 DEF IInv

\* and every step keeps it.
LEMMA NextInv == IInv /\ [Next]_vars => IInv'
<1> SUFFICES ASSUME IInv, [Next]_vars PROVE IInv'
  OBVIOUS
<1> USE DEF IInv
<1>u. UNCHANGED typed
  BY DEF Next, Over, vars
<1>a. Alone' = Alone /\ Fallible' = Fallible
  BY <1>u DEF Alone, Fallible
<1>1. ASSUME NEW c \in typed, Outer(c)
      PROVE  IInv'
  <2>1. Finding'
    <3>1. ASSUME Alone, NEW d \in typed PROVE d = c
      BY <3>1 DEF Alone
    <3> QED
      BY <1>1, <1>a, <1>u, <3>1, OuterFinds DEF Finding
  <2>2. Racing'
    BY <1>1, <1>a, <1>u, OuterRacing DEF Racing
  <2> QED
    BY <1>1, <1>u, <2>1, <2>2, OuterTypes, OuterWaiting
<1>2. ASSUME NEW c \in typed, Inner(c)
      PROVE  IInv'
  <2>1. Finding'
    <3>1. ASSUME Alone, NEW d \in typed PROVE d = c
      BY <3>1 DEF Alone
    <3> QED
      BY <1>2, <1>a, <1>u, <3>1, InnerFinds DEF Finding
  <2>2. Racing'
    BY <1>2, <1>a, <1>u, InnerRacing DEF Racing
  <2> QED
    BY <1>2, <1>u, <2>1, <2>2, InnerTypes, InnerWaiting
<1>3. ASSUME UNCHANGED <<docker, outerVars, innerVars>>
      PROVE  IInv'
  <2> USE DEF docker, outerVars, innerVars
  <2>1. TypeOK'
    BY <1>3, <1>u DEF TypeOK
  <2>2. Waiting'
    BY <1>3 DEF Waiting, Waits, Left
  <2>3. Finding'
    BY <1>3, <1>a, <1>u DEF Finding, Finds, Points
  <2>4. Racing'
    BY <1>3, <1>a, <1>u, RaceEnds DEF Racing
  <2> QED
    BY <2>1, <2>2, <2>3, <2>4
<1>4. ASSUME NEW s \in Service \cup {Console}, Exit(s) \/ Restart(s)
      PROVE  IInv'
  <2>1. Finding'
    BY <1>4, <1>a, <1>u, DockerFinds DEF Finding
  <2>2. UNCHANGED <<name, existing, cstate, outer>>
    BY <1>4 DEF Exit, Restart, outerVars
  <2>3. Racing'
    BY <1>a, <1>u, <2>2, RaceEnds DEF Racing
  <2> QED
    BY <1>4, <1>u, <2>1, <2>3, DockerTypes, DockerWaiting
<1>5. ASSUME NEW c \in typed, Timeout(c)
      PROVE  IInv'
  BY <1>3, <1>5 DEF Timeout
<1>6. CASE UNCHANGED vars
  BY <1>3, <1>6 DEF vars
<1> QED
  BY <1>1, <1>2, <1>4, <1>5, <1>6 DEF Next, Docker, Over

-----------------------------------------------------------------------------
(* What holds of the shutdown.                                             *)

\* The parts of the invariant hold throughout.
THEOREM Inductive == Spec => []IInv
BY InitInv, NextInv, PTL DEF Spec

\* The types of the variables of runDocker and shutDownContainers.
THEOREM TypeCorrect == Spec => []TypeOK
<1>1. IInv => TypeOK
  BY DEF IInv
<1> QED
  BY <1>1, Inductive, PTL

\* When the second loop of shutDownContainers ends without an error, no service
\* runs but those that Docker restarted: whatever is typed, ends or is restarted
\* meanwhile, the console is stopped last.
THEOREM ConsoleIsLast == Spec => []ConsoleLast
<1>1. IInv => ConsoleLast
  <2> SUFFICES ASSUME IInv, NEW c \in typed, InContainer(c, "console"), ~waitErr[c]
               PROVE  up \cap Service \subseteq exited
    BY DEF ConsoleLast
  <2>1. Waits(c)
    BY Typed DEF IInv, Waiting
  <2> QED
    BY <2>1 DEF Waits, InContainer, Left
<1> QED
  BY <1>1, Inductive, PTL

\* The index of the console that shutDownContainers keeps is one into the list it
\* uses it on, if the console does not end by itself between the two lists.
THEOREM ConsoleIsStopped ==
  ASSUME Console \notin MayExit
  PROVE  Spec => []StopsConsole
<1>1. IInv => StopsConsole
  <2> SUFFICES ASSUME IInv, Alone, NEW c \in typed, InContainer(c, "console")
               PROVE  /\ consoleContainerIdx[c] <= Len(found[c])
                      /\ found[c][consoleContainerIdx[c]] = Console
    BY DEF StopsConsole
  <2>1. Points(c)
    BY DEF IInv, Finding, Finds, InContainer
  <2> QED
    BY <2>1 DEF Points
<1> QED
  BY <1>1, Inductive, PTL

\* However many commands are typed at once, with whatever container names, they do
\* not all fail in runDocker because of each other or of an old container.
THEOREM SomeoneIsStarted == Spec => []SomeoneStarts
<1>1. IInv => SomeoneStarts
  BY DEF IInv, Racing, Race, Someone, SomeoneStarts
<1> QED
  BY <1>1, Inductive, PTL
=============================================================================
