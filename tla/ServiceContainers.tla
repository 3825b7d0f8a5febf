------------------------- MODULE ServiceContainers -------------------------
(***************************************************************************)
(* The containers of one service, as create, up, start, stop, restart,     *)
(* kill and delete leave them.                                             *)
(* A container whose configuration is out of date is recreated: renamed,   *)
(* replaced by a new one under its old name, and removed.  Every call to   *)
(* System Docker may fail, the machine may crash between any two of them,  *)
(* and what libcompose does for each container it does in parallel.        *)
(***************************************************************************)
EXTENDS Integers, Sequences, FiniteSets

CONSTANTS
    Version,        \* configurations of the service (image and hash)
    Services,       \* the services up may be called for, see below
    Ops, Recreate,  \* operations; "default", "never" (NoRecreate) or "force"
    Faults,         \* whether calls to System Docker may fail
    Collects,       \* whether the garbage collector may empty a sync.Pool
    MaxContainers, MaxCalls, MaxCrashes     \* bounds

\* A service: whether it is the console, which of its configurations are only
\* created (io.rancher.os.createonly), and what their labels
\* io.docker.compose.rebuild and io.rancher.os.console say.
ASSUME ServiceAssumption ==
    /\ Services \subseteq
         [console : BOOLEAN, createOnly : SUBSET Version,
          rebuild : [Version -> {"", "false", "always"}],
          label : [Version -> STRING]]
    /\ MaxContainers \in Nat /\ MaxCalls \in Nat /\ MaxCrashes \in Nat
    /\ Recreate \subseteq {"default", "never", "force"}
    /\ Ops \subseteq {"up", "create", "start", "stop", "restart", "kill", "delete"}

VARIABLES
    boxes, created,         \* the containers; how many were ever created
    service,                \* the service
    version, force,         \* its configuration; rancher.force_console_rebuild
    pc, op, recreate,       \* the operation that runs
    jobs, pool, todo,       \* eachContainer's goroutines, errors; a loop's rest
    result, calls, crashes,
    lost, clean             \* history: Collect dropped an error; no call failed

daemon == <<boxes, created>>
config == <<service, version, force>>
outcome == <<result, lost, clean>>
call   == <<op, recreate, calls, crashes>>
vars   == <<daemon, config, call, pc, jobs, pool, todo, outcome>>

\* A container takes a name the service gives it: the empty sequence is the
\* service's own, and renaming an old container appends its ID.
Named(n) == {b \in boxes : b.name = n}
Newest == CHOOSE b \in boxes : \A c \in boxes : c.id <= b.id
OutOfSync(b) == b.version # version

Init ==
    /\ boxes = {} /\ created = 0
    /\ service \in Services /\ version \in Version /\ force = FALSE
    /\ pc = "idle" /\ op = "up" /\ recreate \in Recreate
    /\ jobs = {} /\ pool = FALSE /\ todo = <<>>
    /\ result = "none" /\ calls = 0 /\ crashes = 0
    /\ lost = FALSE /\ clean = TRUE

-----------------------------------------------------------------------------
(* Calls.                                                                  *)

Return(r) ==
    /\ pc' = "idle" /\ result' = r
    /\ clean' = (clean /\ r = "nil" /\ ~lost)
    /\ UNCHANGED lost

\* Between two calls the configuration may have been edited, and an upgrade
\* may have asked for a new console.
Begin ==
    /\ pc = "idle" /\ calls < MaxCalls
    /\ calls' = calls + 1
    /\ version' \in Version
    /\ force' \in {force, service.console}
    /\ op' \in Ops /\ recreate' \in Recreate
    /\ pc' = IF op' \in {"up", "create"} THEN "create" ELSE "each"
    /\ jobs' = {} /\ pool' = FALSE /\ todo' = <<>>
    /\ result' = "none" /\ lost' = FALSE
    /\ UNCHANGED <<daemon, service, crashes, clean>>

\* The machine goes down; Docker may start what ran, when it is up again.
Crash ==
    /\ pc # "idle" /\ crashes < MaxCrashes
    /\ crashes' = crashes + 1
    /\ \E again \in BOOLEAN : boxes' = {[b EXCEPT !.up = @ /\ again] : b \in boxes}
    /\ jobs' = {} /\ pool' = FALSE /\ todo' = <<>>
    /\ Return("crash")
    /\ UNCHANGED <<created, config, op, recreate, calls>>

\* ContainerCreate under name n: an error if it is taken.
CreateContainer(n) ==
    /\ Named(n) = {} /\ created < MaxContainers
    /\ created' = created + 1
    /\ boxes' = boxes \cup {[id |-> created', name |-> n, version |-> version,
                             up |-> FALSE]}
CreateFails(n) == (Faults \/ Named(n) # {} \/ created = MaxContainers)
                  /\ UNCHANGED daemon

-----------------------------------------------------------------------------
(* libcompose: eachContainer and what it does to a container.              *)

\* Service.Create has done its part: Up goes on to look for a rebuild.
Created == IF op = "create" THEN Return("nil") ELSE pc' = "check" /\ UNCHANGED outcome

\* Service.Create, and the first half of Service.up: with no container yet,
\* create one.
CreateOne ==
    /\ pc \in {"create", "up"} /\ boxes = {}
    /\ \/ /\ CreateContainer(<<>>)
          /\ IF pc = "create" THEN Created ELSE UNCHANGED <<pc, outcome>>
       \/ CreateFails(<<>>) /\ Return("fail")
    /\ UNCHANGED <<config, call, jobs, pool, todo>>

FirstStep == IF pc \in {"create", "up"} THEN "look" ELSE op

\* collectContainers, and one goroutine for each container found.
EachContainer ==
    /\ pc \in {"create", "up", "each"}
    /\ pc # "each" => boxes # {}
    /\ \/ /\ jobs' = {[name |-> b.name, step |-> FirstStep, old |-> 0] : b \in boxes}
          /\ pc' = CASE pc = "create" -> "creating" [] pc = "up" -> "starting"
                     [] OTHER -> "waiting"
          /\ pool' = FALSE
          /\ UNCHANGED outcome
       \/ Faults /\ Return("fail") /\ UNCHANGED <<jobs, pool>>
    /\ UNCHANGED <<daemon, config, call, todo>>

Goto(j, step) == jobs' = (jobs \ {j}) \cup {[j EXCEPT !.step = step]}
End(j) == jobs' = jobs \ {j}
Same == UNCHANGED <<pc, pool, outcome>>

\* The error of a goroutine is put in the pool; that of the loop in Up ends Up.
Fail(j) ==
    /\ End(j)
    /\ IF pc = "rebuild"
       THEN Return("fail") /\ UNCHANGED <<pool>>
       ELSE pool' = TRUE /\ UNCHANGED <<pc, outcome>>

\* The container is as it should be: Up goes on to start it.
Ready(j) == Same /\ IF pc = "starting" THEN Goto(j, "start") ELSE End(j)

\* recreateIfNeeded
Look(j) ==
    /\ j.step = "look"
    /\ LET stale == \E b \in Named(j.name) : OutOfSync(b)
           renew == recreate = "force" \/ (recreate = "default" /\ stale)
       IN  \/ renew /\ Goto(j, "rename") /\ Same
           \/ ~renew /\ Ready(j)
           \/ recreate # "never" /\ Faults /\ Fail(j)
    /\ UNCHANGED <<daemon, config, call, todo>>

\* Container.Recreate: rename the old container,
RecreateRename(j) ==
    /\ j.step = "rename"
    /\ \/ \E b \in Named(j.name) :
             /\ boxes' = (boxes \ {b}) \cup {[b EXCEPT !.name = Append(@, b.id)]}
             /\ jobs' = (jobs \ {j}) \cup {[j EXCEPT !.step = "create", !.old = b.id]}
             /\ Same
       \/ Faults /\ Fail(j) /\ UNCHANGED boxes
    /\ UNCHANGED <<created, config, call, todo>>

\* Mutant: the old container is removed before there is a new one.
RecreateCreate_RemoveFirst(j) ==
    /\ j.step = "create"
    /\ boxes' = {b \in boxes : b.id # j.old}
    /\ Goto(j, "remove") /\ Same
    /\ UNCHANGED <<created, config, call, todo>>

\* create a new one under its name (Up goes on when that failed with
\* ErrMountNameConflict),
RecreateCreate(j) ==
    /\ j.step = "create"
    /\ \/ CreateContainer(j.name) /\ Goto(j, "remove") /\ Same
       \/ CreateFails(j.name) /\ Fail(j)
       \/ pc = "rebuild" /\ Faults /\ End(j) /\ Same /\ UNCHANGED daemon
    /\ UNCHANGED <<config, call, todo>>

\* Mutant: the old container is kept.
RecreateRemove_Kept(j) ==
    /\ j.step = "remove" /\ Ready(j)
    /\ UNCHANGED <<daemon, config, call, todo>>

\* and remove the old one.
RecreateRemove(j) ==
    /\ j.step = "remove"
    /\ \/ boxes' = {b \in boxes : b.id # j.old} /\ Ready(j)
       \/ Faults /\ Fail(j) /\ UNCHANGED boxes
    /\ UNCHANGED <<created, config, call, todo>>

\* Container.Up: create it if it is gone, start it if it does not run.  That
\* starting it failed is not reported.
StartJob(j) ==
    /\ j.step = "start"
    /\ \/ /\ Named(j.name) # {}
          /\ \E ok \in {TRUE, ~Faults} :
                boxes' = {[b EXCEPT !.up = @ \/ (ok /\ b.name = j.name)] : b \in boxes}
          /\ End(j) /\ Same
       \/ Faults /\ Fail(j) /\ UNCHANGED boxes
    /\ UNCHANGED <<created, config, call, todo>>

StopJob(j) ==
    /\ j.step = "stop"
    /\ \/ /\ boxes' = {[b EXCEPT !.up = @ /\ b.name # j.name] : b \in boxes}
          /\ End(j) /\ Same
       \/ Faults /\ Fail(j) /\ UNCHANGED boxes
    /\ UNCHANGED <<created, config, call, todo>>

\* Container.Restart starts what did not run, too.
RestartJob(j) ==
    /\ j.step = "restart"
    /\ \/ /\ boxes' = {[b EXCEPT !.up = @ \/ b.name = j.name] : b \in boxes}
          /\ End(j) /\ Same
       \/ Faults /\ Fail(j) /\ UNCHANGED boxes
    /\ UNCHANGED <<created, config, call, todo>>

\* Docker refuses to kill a container that does not run, and a signal need
\* not end it.
KillJob(j) ==
    /\ j.step = "kill"
    /\ \/ /\ \E b \in Named(j.name) : b.up
          /\ \E ends \in BOOLEAN :
                boxes' = {[b EXCEPT !.up = @ /\ ~(ends /\ b.name = j.name)] : b \in boxes}
          /\ End(j) /\ Same
       \/ Fail(j) /\ (Faults \/ \A b \in Named(j.name) : ~b.up) /\ UNCHANGED boxes
    /\ UNCHANGED <<created, config, call, todo>>

\* Container.Delete leaves a container that runs alone.
DeleteJob(j) ==
    /\ j.step = "delete"
    /\ \/ boxes' = {b \in boxes : b.name # j.name \/ b.up} /\ End(j) /\ Same
       \/ Faults /\ Fail(j) /\ UNCHANGED boxes
    /\ UNCHANGED <<created, config, call, todo>>

\* The garbage collector may drop what a sync.Pool holds.
Collect ==
    /\ Collects /\ pool
    /\ pool' = FALSE /\ lost' = TRUE
    /\ UNCHANGED <<daemon, config, call, pc, jobs, todo, result, clean>>

\* Mutant: Wait does not look into the pool.
Join_Ignore ==
    /\ pc \in {"creating", "starting", "waiting"} /\ jobs = {}
    /\ \/ pc = "creating" /\ Created
       \/ pc # "creating" /\ Return("nil")
    /\ UNCHANGED <<daemon, config, call, jobs, pool, todo>>

\* InParallel.Wait, at the end of each part; up may still fail when it has to
\* wait for the container (io.rancher.os.detach=false).
Join ==
    /\ pc \in {"creating", "starting", "waiting"} /\ jobs = {}
    /\ \/ pool /\ Return("fail")
       \/ ~pool /\ pc = "creating" /\ Created
       \/ ~pool /\ pc # "creating" /\ Return("nil")
       \/ ~pool /\ pc = "starting" /\ op = "up" /\ Faults /\ Return("fail")
    /\ UNCHANGED <<daemon, config, call, jobs, pool, todo>>

-----------------------------------------------------------------------------
(* pkg/docker: Service.Up around libcompose's.                             *)

\* shouldRebuild compares labels with those of the newest container only.
LabelsWantRebuild ==
    LET old == Newest.version
    IN  IF service.console THEN service.label[version] # service.label[old]
        ELSE \/ service.rebuild[version] # service.rebuild[old]
             \/ service.rebuild[old] # "false"

ForcedRebuild == service.rebuild[version] # "always" /\ service.console /\ force

WantsRebuild ==
    \/ service.rebuild[version] = "always"
    \/ ForcedRebuild
    \/ LabelsWantRebuild /\ \E b \in boxes : OutOfSync(b)

\* The names of the containers, newest first.
ByAge == CHOOSE s \in [1..Cardinality(boxes) -> {b.name : b \in boxes}] :
            \A i, k \in DOMAIN s : i < k =>
               \E b \in Named(s[i]), c \in Named(s[k]) : b.id > c.id

\* A service that is only created is not started.
GoOn == IF version \in service.createOnly THEN Return("nil") ELSE pc' = "up" /\ UNCHANGED outcome

\* The request for a forced rebuild is cleared before the rebuild begins.
ShouldRebuild ==
    /\ pc = "check"
    /\ \/ /\ WantsRebuild
          /\ force' = (force /\ ~ForcedRebuild)
          /\ todo' = ByAge
          /\ pc' = "rebuild" /\ UNCHANGED outcome
       \/ ~WantsRebuild /\ GoOn /\ UNCHANGED <<force, todo>>
       \/ Faults /\ Return("fail") /\ UNCHANGED <<force, todo>>
    /\ UNCHANGED <<daemon, service, version, call, jobs, pool>>

\* The loop over the containers: one Recreate after the other.
RebuildNext ==
    /\ pc = "rebuild" /\ jobs = {} /\ todo # <<>>
    /\ jobs' = {[name |-> Head(todo), step |-> "rename", old |-> 0]}
    /\ todo' = Tail(todo)
    /\ UNCHANGED <<daemon, config, call, pc, pool, outcome>>

\* rename: the newest container gets the service's own name.
Rename ==
    /\ pc = "rebuild" /\ jobs = {} /\ todo = <<>>
    /\ LET b == Newest
       IN  \/ /\ b.name = <<>> \/ Named(<<>>) = {}
              /\ boxes' = (boxes \ {b}) \cup {[b EXCEPT !.name = <<>>]}
              /\ GoOn
           \/ /\ (b.name # <<>> /\ Named(<<>>) # {}) \/ Faults
              /\ Return("fail") /\ UNCHANGED boxes
    /\ UNCHANGED <<created, config, call, jobs, pool, todo>>

-----------------------------------------------------------------------------
Job == \E j \in jobs :
    \/ Look(j) \/ RecreateRename(j) \/ RecreateCreate(j) \/ RecreateRemove(j)
    \/ StartJob(j) \/ StopJob(j) \/ RestartJob(j) \/ KillJob(j) \/ DeleteJob(j)

Over == pc = "idle" /\ calls = MaxCalls /\ UNCHANGED vars

Next ==
    \/ Begin \/ Crash \/ CreateOne \/ EachContainer \/ Job \/ Collect \/ Join
    \/ ShouldRebuild \/ RebuildNext \/ Rename \/ Over

Spec == Init /\ [][Next]_vars

-----------------------------------------------------------------------------
(* Properties.                                                             *)

\* Nothing but delete takes the last container away: whatever fails, and
\* wherever the machine crashes, a service that had a container keeps one.
NeverGone == [][op # "delete" /\ boxes # {} => boxes' # {}]_vars

\* When up or create succeeds, did not spare containers and lost no error to the garbage
\* collector, all of the service's containers have its configuration, those
\* included that an earlier call left half recreated.
SyncedOnSuccess ==
    result = "nil" /\ op \in {"up", "create"} /\ recreate # "never" /\ ~lost =>
        boxes # {} /\ \A b \in boxes : ~OutOfSync(b)

\* As long as no call failed, in what it reported or in an error it lost, a
\* service has one container, under the name that the power commands and the
\* console switch look for, however often it was recreated.
OneContainer == pc = "idle" /\ clean => \A b \in boxes : b.name = <<>>
=============================================================================
