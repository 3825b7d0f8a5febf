-------------------------- MODULE ProjectTraverse --------------------------
(***************************************************************************)
(* How a libcompose project runs one operation (up, run, start, stop ...)  *)
(* on its services: Project.traverse walks the dependency graph depth      *)
(* first and starts one goroutine per service, every goroutine waits for   *)
(* the services it depends on and then acts, and a service that answers    *)
(* ErrRestart (the network service, once it is up) makes traverse reload   *)
(* the configuration and walk again.  The main goroutine and the service   *)
(* goroutines interleave.                                                  *)
(*                                                                         *)
(* A list the code iterates over is a set here when only its members       *)
(* matter: Go ranges over maps in a random order, and a goroutine may wait *)
(* for its dependencies in any order.                                      *)
(***************************************************************************)
EXTENDS Integers, Sequences

CONSTANTS
    Service,            \* names a service may have
    Network, Docker, Syslog,    \* names DependentServices adds by itself
    Initial,            \* the services configured before the first callback
    Versions,           \* possible contents of the configuration files
    MissingChoices,     \* sets of services whose image may not be there yet
    Reloader,           \* services labelled io.rancher.os.reloadconfig=true
    Special,            \* console and engine: loaded again by every callback
    Ops,                \* the operations a run considers
    Selections,         \* service lists a caller may pass ({} selects all)
    MaxEdits            \* bound: callbacks that find edited configuration

Config == [links: SUBSET Service, after: SUBSET Service,
           before: SUBSET Service, syslog: BOOLEAN, system: BOOLEAN]

\* The methods of a project; "list" is the first half of Delete.
Operations == {"build", "create", "start", "restart", "up", "run",
               "stop", "kill", "pause", "unpause", "log", "pull", "list", "delete"}

ASSUME ConstantsAssumption ==
    /\ Initial \subseteq Service
    /\ Versions \subseteq [Service -> Config]
    /\ MissingChoices \subseteq SUBSET Service
    /\ Special \subseteq Service
    /\ Ops \subseteq Operations
    /\ Selections \subseteq SUBSET Service
    /\ MaxEdits \in Nat

VARIABLES
    \* the project: ServiceConfigs, p.reload, ServiceFactory.Deps, the images
    keys, config, reload, deps, missing, edits,
    \* one call of perform
    op, selected, phase, result,
    \* the main goroutine: traverse and startService
    wrappers, launched, path, todo, toWait, restart, firstError,
    \* the service wrappers, and the goroutine that runs each of them
    wstate, werr, wdone, ignored, gpc, gwait

project == <<keys, config, reload, deps, missing, edits>>
call    == <<op, selected>>
walk    == <<launched, path, todo>>
wrapper == <<wstate, werr, wdone, ignored>>
routine == <<gpc, gwait>>
vars    == <<project, call, phase, result, wrappers, walk, toWait, restart,
             firstError, wrapper, routine>>

-----------------------------------------------------------------------------
(* The dependencies of a service.                                          *)

Rel(targets, opt) == {[target |-> t, optional |-> opt] : t \in targets}

\* The services that are depended on without being named: appendLink adds one
\* only when the project has it, network only while the image is missing.
Implied(s) ==
    {n \in keys : \/ n = Syslog /\ config[s].syslog
                  \/ n = Docker /\ ~config[s].system
                  \/ n = Network /\ config[s].system /\ s \in missing}

\* Links, depends_on, volumes_from and shared namespaces are required, as are
\* the implied services; the after and before labels are optional.
DependentServices(s) ==
    Rel(config[s].links \cup Implied(s), FALSE) \cup Rel(deps[s] \cap keys, TRUE)

\* The wrappers that the goroutine of s waits for.
Awaited(s) == {t \in wrappers \ ignored[s] :
                  \E r \in DependentServices(s) : r.target = t}

\* What ServiceFactory.Deps holds after the services in created were created.
DepsAfterCreate(created) ==
    [t \in Service |->
        deps[t] \cup (IF t \in created THEN config[t].after ELSE {})
                \cup {s \in created : t \in config[s].before}]

isSelected(s) == selected = {} \/ s \in selected

OnPath(s) == \E i \in 1..Len(path) : path[i] = s

\* wrapper.Do(wrappers, ...): the goroutines wait for what they depend on.
Waits == op \in {"build", "create", "start", "restart", "up", "run"}
HasCycleAction == op \in {"up", "run"}
Pulls == op \in {"build", "create", "up", "run", "pull"}

\* Mutant: checkReload forgets to look at the label.
Outcomes_AlwaysReload(s) == {"fail", IF op = "up" THEN "restart" ELSE "nil"}

\* The errors an action may end with: service.Up ends in checkReload.
Outcomes(s) == {"fail", IF op = "up" /\ s \in Reloader THEN "restart" ELSE "nil"}

-----------------------------------------------------------------------------
Init ==
    /\ keys = Initial
    /\ config \in Versions
    /\ reload = Initial             \* left there by AddConfig
    /\ deps = [s \in Service |-> {}]
    /\ missing \in MissingChoices
    /\ edits = 0
    /\ op \in Ops
    /\ selected \in Selections
    /\ phase = "start"
    /\ result = "none"
    /\ wrappers = {}
    /\ launched = {} /\ path = <<>> /\ todo = [s \in Service |-> {}]
    /\ toWait = {} /\ restart = FALSE /\ firstError = "nil"
    /\ wstate = [s \in Service |-> "unknown"]
    /\ werr = [s \in Service |-> "nil"]
    /\ wdone = [s \in Service |-> 0]
    /\ ignored = [s \in Service |-> {}]
    /\ gpc = [s \in Service |-> "idle"]
    /\ gwait = [s \in Service |-> {}]

Return(r) == phase' = "returned" /\ result' = r

\* The image of s is pulled, and with it that of services that share it.
Pull(s) == /\ s \in missing
           /\ \E shared \in SUBSET missing : missing' = missing \ (shared \cup {s})

-----------------------------------------------------------------------------
(* traverse and startService, on the caller's goroutine.                   *)

\* What Reset leaves in the error of a wrapper that is kept.
ResetErr(e) == IF e = "restart" THEN "nil" ELSE e

\* The head of traverse: Reset every wrapper there is, load the new ones (all
\* of them at the start, the reloaded ones later), check the selection.
LoadWrappers ==
    /\ phase \in {"start", "restart"}
    /\ LET list == IF phase = "start" THEN keys ELSE reload
           created == {s \in wrappers : wstate[s] # "executed"} \cup list
       IN  /\ wrappers' = wrappers \cup list
           /\ deps' = DepsAfterCreate(created)
           /\ wstate' = [s \in Service |->
                            IF s \in list THEN "unknown" ELSE wstate[s]]
           /\ werr' = [s \in Service |->
                            IF s \in list THEN "nil" ELSE ResetErr(werr[s])]
           /\ wdone' = [s \in Service |->
                            IF s \in list THEN 1
                            ELSE IF s \in wrappers THEN wdone[s] + 1
                            ELSE wdone[s]]
           /\ ignored' = [s \in Service |->
                            IF s \in list THEN {} ELSE ignored[s]]
           /\ \/ /\ selected \subseteq wrappers \cup list
                 /\ phase' = "walk"
                 /\ UNCHANGED result
              \/ /\ ~ selected \subseteq wrappers \cup list
                 /\ Return("nosuch")
    /\ reload' = {}
    /\ launched' = {} /\ path' = <<>> /\ todo' = [s \in Service |-> {}]
    /\ toWait' = {} /\ restart' = FALSE /\ firstError' = "nil"
    /\ UNCHANGED <<keys, config, missing, edits, call, routine>>

\* startService enters s: mark it launched and read its dependencies.
Enter(s, rest) ==
    /\ launched' = launched \cup {s}
    /\ path' = Append(path, s)
    /\ todo' = [rest EXCEPT ![s] = DependentServices(s)]

\* The loop of traverse over the wrappers picks a service not yet launched.
StartRoot(s) ==
    /\ phase = "walk" /\ path = <<>>
    /\ s \in wrappers \ launched
    /\ Enter(s, todo)
    /\ UNCHANGED <<project, call, phase, result, wrappers, toWait, restart,
                   firstError, wrapper, routine>>

Top == path[Len(path)]
Drop(r) == [todo EXCEPT ![Top] = @ \ {r}]
Visiting(r) == phase = "walk" /\ path # <<>> /\ r \in todo[Top]

\* A dependency that is not in the project, or whose subtree is done.
SkipDep(r) ==
    /\ Visiting(r)
    /\ ~OnPath(r.target)
    /\ r.target \notin wrappers \/ r.target \in launched
    /\ todo' = Drop(r)
    /\ UNCHANGED <<project, call, phase, result, wrappers, launched, path,
                   toWait, restart, firstError, wrapper, routine>>

DescendDep(r) ==
    /\ Visiting(r)
    /\ r.target \in wrappers \ launched
    /\ Enter(r.target, Drop(r))
    /\ UNCHANGED <<project, call, phase, result, wrappers, toWait, restart,
                   firstError, wrapper, routine>>

\* Mutant: the cycle is logged but IgnoreDep is not called.
IgnoreCycle_NotRecorded(r) ==
    /\ Visiting(r) /\ OnPath(r.target) /\ r.optional
    /\ todo' = Drop(r)
    /\ UNCHANGED <<project, call, phase, result, wrappers, launched, path, toWait,
                   restart, firstError, wrapper, routine>>

\* A cycle through an optional dependency is cut here; for up and run the
\* target is created first, and an error of that ends the whole call.
IgnoreCycle(r) ==
    /\ Visiting(r)
    /\ OnPath(r.target)
    /\ r.optional
    /\ ignored' = [ignored EXCEPT ![Top] = @ \cup {r.target}]
    /\ todo' = Drop(r)
    /\ UNCHANGED missing \/ (HasCycleAction /\ Pull(r.target))
    /\ UNCHANGED <<phase, result>> \/ (HasCycleAction /\ Return("fail"))
    /\ UNCHANGED <<keys, config, reload, deps, edits, call, wrappers, launched,
                   path, toWait, restart, firstError, wstate, werr, wdone,
                   routine>>

\* A cycle through a required dependency ends the call at once; goroutines
\* that were started before it keep running.
RequiredCycle(r) ==
    /\ Visiting(r)
    /\ OnPath(r.target)
    /\ ~r.optional
    /\ Return("cycle")
    /\ UNCHANGED <<project, call, wrappers, walk, toWait, restart, firstError,
                   wrapper, routine>>

\* The end of startService: `go action` for a selected service, Ignore for
\* any other.
Dispatch ==
    /\ phase = "walk" /\ path # <<>>
    /\ todo[Top] = {}
    /\ path' = SubSeq(path, 1, Len(path) - 1)
    /\ \/ /\ isSelected(Top)
          /\ gpc' = [gpc EXCEPT ![Top] = "begin"]
          /\ UNCHANGED <<wstate, wdone>>
       \/ /\ ~isSelected(Top)
          /\ wstate' = [wstate EXCEPT ![Top] = "executed"]
          /\ wdone' = [wdone EXCEPT ![Top] = @ - 1]
          /\ UNCHANGED gpc
    /\ UNCHANGED <<project, call, phase, result, wrappers, launched, todo,
                   toWait, restart, firstError, werr, ignored, gwait>>

WalkDone ==
    /\ phase = "walk" /\ path = <<>>
    /\ wrappers \subseteq launched
    /\ phase' = "wait"
    /\ toWait' = {s \in wrappers : isSelected(s)}
    /\ UNCHANGED <<project, call, result, wrappers, walk, restart, firstError,
                   wrapper, routine>>

\* Mutant: the error of the wrapper that is waited for last is returned.
WaitWrapper_LastError(s) ==
    /\ phase = "wait" /\ s \in toWait /\ wdone[s] = 0
    /\ toWait' = toWait \ {s}
    /\ restart' = (restart \/ werr[s] = "restart")
    /\ firstError' = IF werr[s] = "fail" THEN "fail" ELSE "nil"
    /\ UNCHANGED <<project, call, phase, result, wrappers, walk, wrapper,
                   routine>>

\* The loop that waits for every selected wrapper and collects the errors.
WaitWrapper(s) ==
    /\ phase = "wait"
    /\ s \in toWait
    /\ wdone[s] = 0
    /\ toWait' = toWait \ {s}
    /\ restart' = (restart \/ werr[s] = "restart")
    /\ firstError' = IF werr[s] = "fail" THEN "fail" ELSE firstError
    /\ UNCHANGED <<project, call, phase, result, wrappers, walk, wrapper,
                   routine>>

WaitDone ==
    /\ phase = "wait"
    /\ toWait = {}
    /\ \/ restart /\ phase' = "callback" /\ UNCHANGED result
       \/ ~restart /\ Return(firstError)
    /\ UNCHANGED <<project, call, wrappers, walk, toWait, restart, firstError,
                   wrapper, routine>>

\* ReloadCallback: console and engine may be loaded again, and what was edited
\* since the last callback is added; AddConfig puts each in p.reload.
ReloadCallback ==
    /\ phase = "callback"
    /\ \E special \in SUBSET Special, edited \in SUBSET Service,
          v \in Versions, m \in MissingChoices :
          LET loaded == special \cup edited
          IN  /\ edited # {} => edits < MaxEdits
              /\ edits' = IF edited = {} THEN edits ELSE edits + 1
              /\ keys' = keys \cup loaded
              /\ config' = [s \in Service |->
                               IF s \in loaded THEN v[s] ELSE config[s]]
              /\ reload' = reload \cup loaded
              /\ missing' = (missing \ loaded) \cup (m \cap loaded)
    /\ phase' = "restart"
    /\ UNCHANGED <<deps, call, result, wrappers, walk, toWait, restart,
                   firstError, wrapper, routine>>

-----------------------------------------------------------------------------
(* serviceWrapper.Do, on the goroutine of service s.                       *)

main == <<phase, result, wrappers, walk, toWait, restart, firstError>>

\* The deferred done.Done().
Done(s) ==
    /\ wdone' = [wdone EXCEPT ![s] = @ - 1]
    /\ gpc' = [gpc EXCEPT ![s] = "idle"]
    /\ gwait' = [gwait EXCEPT ![s] = {}]

\* Mutant: the state is not set before the action runs.
StartAction_StateUnset(s) ==
    /\ gpc' = [gpc EXCEPT ![s] = "act"]
    /\ UNCHANGED wstate

\* The state is set before the action runs.
StartAction(s) ==
    /\ wstate' = [wstate EXCEPT ![s] = "executed"]
    /\ gpc' = [gpc EXCEPT ![s] = "act"]

\* A wrapper executed in an earlier round has nothing to do in this one.
BeginExecuted(s) ==
    /\ gpc[s] = "begin"
    /\ wstate[s] = "executed"
    /\ Done(s)
    /\ UNCHANGED <<project, call, main, wstate, werr, ignored>>

\* Mutant: Do does not look whether the wrapper was executed before.
BeginWait_Again(s) ==
    /\ gpc[s] = "begin" /\ Waits
    /\ gpc' = [gpc EXCEPT ![s] = "deps"]
    /\ gwait' = [gwait EXCEPT ![s] = Awaited(s)]
    /\ UNCHANGED <<project, call, main, wrapper>>

\* waitForDeps reads the dependencies again: an image may be there by now.
BeginWait(s) ==
    /\ gpc[s] = "begin"
    /\ wstate[s] # "executed"
    /\ Waits
    /\ gpc' = [gpc EXCEPT ![s] = "deps"]
    /\ gwait' = [gwait EXCEPT ![s] = Awaited(s)]
    /\ UNCHANGED <<project, call, main, wrapper>>

BeginAction(s) ==
    /\ gpc[s] = "begin"
    /\ wstate[s] # "executed"
    /\ ~Waits
    /\ StartAction(s)
    /\ UNCHANGED <<project, call, main, werr, wdone, ignored, gwait>>

\* Mutant: the error of the dependency is not looked at.
WaitDep_NoErrCheck(s, t) ==
    /\ gpc[s] = "deps" /\ t \in gwait[s] /\ wdone[t] = 0
    /\ gwait' = [gwait EXCEPT ![s] = @ \ {t}]
    /\ UNCHANGED <<project, call, main, gpc, wrapper>>

\* One Wait of waitForDeps; only ErrRestart keeps the service from acting.
WaitDep(s, t) ==
    /\ gpc[s] = "deps"
    /\ t \in gwait[s]
    /\ wdone[t] = 0
    /\ IF werr[t] = "restart"
       THEN Done(s) /\ werr' = [werr EXCEPT ![s] = "restart"]
       ELSE /\ gwait' = [gwait EXCEPT ![s] = @ \ {t}]
            /\ UNCHANGED <<gpc, werr, wdone>>
    /\ UNCHANGED <<project, call, main, wstate, ignored>>

DepsReady(s) ==
    /\ gpc[s] = "deps"
    /\ gwait[s] = {}
    /\ StartAction(s)
    /\ UNCHANGED <<project, call, main, werr, wdone, ignored, gwait>>

\* The action pulls or builds the image.
PullImage(s) ==
    /\ gpc[s] = "act"
    /\ Pulls
    /\ Pull(s)
    /\ UNCHANGED <<keys, config, reload, deps, edits, call, main, wrapper,
                   routine>>

Finish(s) ==
    /\ gpc[s] = "act"
    /\ \E e \in Outcomes(s) : werr' = [werr EXCEPT ![s] = e]
    /\ Done(s)
    /\ UNCHANGED <<project, call, main, wstate, ignored>>

-----------------------------------------------------------------------------
Relationship == [target : Service, optional : BOOLEAN]

Main ==
    \/ LoadWrappers
    \/ \E s \in Service : StartRoot(s)
    \/ \E r \in Relationship : \/ SkipDep(r) \/ DescendDep(r)
                               \/ IgnoreCycle(r) \/ RequiredCycle(r)
    \/ Dispatch \/ WalkDone
    \/ \E s \in Service : WaitWrapper(s)
    \/ WaitDone \/ ReloadCallback

Goroutine(s) ==
    \/ BeginExecuted(s) \/ BeginWait(s) \/ BeginAction(s)
    \/ \E t \in Service : WaitDep(s, t)
    \/ DepsReady(s) \/ PullImage(s) \/ Finish(s)

\* The call returned and every goroutine it started has ended.
AllDone ==
    /\ phase = "returned"
    /\ \A s \in Service : gpc[s] = "idle"
    /\ UNCHANGED vars

Next == Main \/ (\E s \in Service : Goroutine(s)) \/ AllDone

Spec == Init /\ [][Next]_vars

\* Go schedules every goroutine that can run, and the calls an action makes to
\* the Docker daemon answer.
FairSpec == Spec /\ WF_vars(Main) /\ \A s \in Service : WF_vars(Goroutine(s))

-----------------------------------------------------------------------------
(* Properties.                                                             *)

\* The values of the variables.  That wdone stays within 0..1 says that no
\* WaitGroup is ever counted down twice or reset while somebody is at work.
TypeOK ==
    /\ keys \in SUBSET Service /\ config \in [Service -> Config]
    /\ reload \in SUBSET Service /\ deps \in [Service -> SUBSET Service]
    /\ missing \in SUBSET Service /\ edits \in 0..MaxEdits
    /\ op \in Ops /\ selected \in SUBSET Service
    /\ phase \in {"start", "walk", "wait", "callback", "restart", "returned"}
    /\ result \in {"none", "nil", "fail", "cycle", "nosuch"}
    /\ wrappers \in SUBSET Service /\ launched \in SUBSET wrappers
    /\ path \in Seq(launched)
    /\ todo \in [Service -> SUBSET Relationship]
    /\ toWait \in SUBSET wrappers
    /\ restart \in BOOLEAN /\ firstError \in {"nil", "fail"}
    /\ wstate \in [Service -> {"unknown", "executed"}]
    /\ werr \in [Service -> {"nil", "fail", "restart"}]
    /\ wdone \in [Service -> 0..1]
    /\ ignored \in [Service -> SUBSET Service]
    /\ gpc \in [Service -> {"idle", "begin", "deps", "act"}]
    /\ gwait \in [Service -> SUBSET Service]

\* Whom the goroutine of s still has to wait for.
WaitsFor(s) == IF gpc[s] = "begin" /\ Waits THEN Awaited(s) ELSE gwait[s]

\* No set of goroutines waits on itself: in any set of services there is one
\* whose goroutine waits for none of the others.  startService walks the graph
\* once and the goroutines read the dependencies a second time, later.
NoWaitCycle ==
    \A C \in SUBSET Service :
        C # {} => \E s \in C : WaitsFor(s) \cap C = {}

\* Whoever is waited for, by a goroutine or by traverse, and has not called
\* done.Done() yet has been started, so that it will.
NoLostWait ==
    \A t \in Service :
        ( /\ wdone[t] > 0
          /\ \/ \E s \in Service : gpc[s] # "idle" /\ t \in WaitsFor(s)
             \/ phase = "wait" /\ t \in toWait )
        => gpc[t] # "idle"

\* Nobody waits for ever: neither in a circle nor for a goroutine that was never
\* started (startService, waitForDeps).
WaitsEnd == NoWaitCycle /\ NoLostWait

\* The dependencies of s that startService did not cut at an optional cycle.
MustPrecede(s) ==
    {r.target : r \in {q \in DependentServices(s) :
        q.target \in wrappers /\ (q.optional => q.target \notin ignored[s])}}

\* A service acts only when everything it depends on has acted, in this round
\* or an earlier one, and none of it asked for a reload that is still to come.
\* A required dependency counts even when an optional one on the same service
\* was cut at a cycle, in this round or in an earlier one.
DependencyOrder ==
    \A s \in Service : (gpc[s] = "act" /\ Waits) =>
        \A t \in MustPrecede(s) :
            wstate[t] = "executed" /\ wdone[t] = 0 /\ werr[t] # "restart"

\* What the call has done about each service, in the words of ServiceRounds,
\* and whom each has to come after.
RoundStates ==
    [s \in Service |->
        IF s \notin wrappers THEN "absent"
        ELSE IF wstate[s] # "executed" THEN "pending"
        ELSE IF ~isSelected(s) THEN "skipped"
        ELSE IF gpc[s] = "act" THEN "acting" ELSE "acted"]

RoundNeeds == [s \in Service |-> IF Waits THEN MustPrecede(s) ELSE {}]

\* The goroutines, the two readings of the dependencies and the reloads keep the
\* promise of ServiceRounds: a service acts once each time it is loaded, after
\* what it depends on, rounds do not overlap, and no error gets lost.
Rounds == INSTANCE ServiceRounds WITH
             state <- RoundStates, error <- werr, needs <- RoundNeeds,
             answer <- result
ActsInRounds == Rounds!RoundsSpec

\* When traverse resets its wrappers, and when it reports anything but a cycle
\* or a failed cycle action, no goroutine of the call is running any more.
QuietRounds ==
    (phase \in {"callback", "restart"} \/ result = "nil") =>
        \A s \in Service : gpc[s] = "idle"

\* When the call succeeds, every selected service of the final configuration
\* has acted in some round, and the error it left there is nil.
SuccessIsComplete ==
    result = "nil" =>
        /\ keys = wrappers /\ selected \subseteq wrappers
        /\ \A s \in wrappers :
              isSelected(s) => wstate[s] = "executed" /\ werr[s] = "nil"

\* The error a service left is there until the service is loaded anew: no other
\* round, wait or reload forgets it before traverse has reported it.
ErrorsKept ==
    [][\A s \in wrappers :
          werr[s] = "fail" /\ s \notin reload => werr'[s] = "fail"]_vars

\* When the walk ends without an error, the required dependencies have no
\* cycle, whatever order the maps were walked in.
RequiredTargets(s) ==
    {r.target : r \in {q \in DependentServices(s) : ~q.optional}} \cap wrappers

RequiredAcyclic ==
    phase \in {"wait", "callback"} =>
        \A C \in SUBSET wrappers :
            C # {} => \E s \in C : RequiredTargets(s) \cap C = {}

\* The call returns: the rounds end, because a service that asked for a reload
\* is not executed again unless its configuration was edited.
Termination == <>(phase = "returned")

\* Every goroutine the call started ends, also after an early return.
GoroutinesEnd == <>[](\A s \in Service : gpc[s] = "idle")
=============================================================================
