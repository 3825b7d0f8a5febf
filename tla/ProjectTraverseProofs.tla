----------------------- MODULE ProjectTraverseProofs -----------------------
(***************************************************************************)
(* The safety properties of ProjectTraverse hold for every set of          *)
(* services, every configuration and every number of reloads.  IInv is the *)
(* inductive invariant; every conjunct but the last two is about how far   *)
(* the walk and the goroutines have come, Ordered and Acyclic are the      *)
(* reason why the properties hold.                                         *)
(***************************************************************************)
EXTENDS ProjectTraverse, SequenceTheorems, TLAPS

\* The services whose goroutine was started, or which were ignored, this round.
Disp == {s \in launched : ~OnPath(s)}

\* The dependencies that are not optional (see RequiredIs).
Required(s) == Rel(config[s].links \cup Implied(s), FALSE)

\* The phases in which the configuration the walk reads is the current one.
InRound == phase \in {"walk", "wait", "callback", "returned"}

\* Where the caller's goroutine is, and what it knows there.
Shape ==
    /\ phase \in {"start", "restart", "wait", "callback"} => path = <<>>
    /\ phase = "start" => wrappers = {} /\ launched = {}
    /\ phase \in {"wait", "callback", "restart"} => launched = wrappers
    /\ phase \in {"walk", "wait", "callback"} => keys = wrappers
    /\ phase = "restart" => keys = wrappers \cup reload
    /\ phase \in {"walk", "wait", "callback", "restart"} =>
           selected \subseteq wrappers
    /\ wrappers \subseteq keys /\ reload \subseteq keys
    /\ (result # "none") <=> (phase = "returned")
    /\ result = "nil" => keys = wrappers /\ selected \subseteq wrappers
    /\ \A i, j \in 1..Len(path) : path[i] = path[j] => i = j

\* A wrapper's counter is one exactly until its goroutine, or Ignore, ends.
Running ==
    /\ \A s \in Service : gpc[s] # "idle" => s \in Disp /\ isSelected(s)
    /\ \A s \in Disp : wdone[s] = 1 <=> gpc[s] # "idle"
    /\ \A s \in wrappers \ Disp : wdone[s] = 1
    /\ \A s \in Service : gpc[s] # "deps" => gwait[s] = {}
    /\ \A s \in Service : gpc[s] = "act" => wstate[s] = "executed"
    /\ \A s \in Disp : gpc[s] = "idle" =>
           wstate[s] = "executed" \/ werr[s] = "restart"
    /\ phase \in {"callback", "restart"} => \A s \in Service : gpc[s] = "idle"
    /\ result = "nil" => \A s \in Service : gpc[s] = "idle"

\* What the waiting loop of traverse has collected so far.
Collected ==
    /\ phase = "wait" => \A s \in wrappers \ toWait : isSelected(s) =>
           /\ wdone[s] = 0
           /\ werr[s] = "restart" => restart
           /\ werr[s] = "fail" => firstError = "fail"
    /\ result = "nil" => \A s \in wrappers :
           isSelected(s) => wstate[s] = "executed" /\ werr[s] = "nil"

\* A service that failed was executed, and is not at work a second time.
Failed ==
    \A s \in Service :
        /\ werr[s] = "fail" => wstate[s] = "executed"
        /\ gpc[s] = "deps" => wstate[s] = "unknown"
        /\ gpc[s] = "act" => werr[s] # "fail"

\* No service ignores a required dependency; while it is being walked, one it
\* ignores is still to be looked at and is below it on the path.
RequiredKept ==
    /\ \A s \in wrappers : ignored[s] \subseteq wrappers
    /\ \A s \in wrappers : (~OnPath(s) /\ (phase = "restart" => s \notin reload)) =>
           \A r \in Required(s) : r.target \notin ignored[s]
    /\ \A i \in 1..Len(path) : \A r \in Required(path[i]) :
           r.target \in ignored[path[i]] =>
               r \in todo[path[i]] /\ \E j \in 1..i : path[j] = r.target

\* Every dependency of a service on the path was handled, is still to be
\* handled, or is being handled one level up.
Walked ==
    \A i \in 1..Len(path) : \A r \in DependentServices(path[i]) :
        r.target \in wrappers =>
            \/ r \in todo[path[i]]
            \/ r.target \in Disp
            \/ r.optional /\ r.target \in ignored[path[i]]
            \/ i < Len(path) /\ r.target = path[i + 1]

\* Whom s may still wait for, however much of its dependencies it has read.
MayAwait(s) == Awaited(s) \cup gwait[s]

\* A goroutine waits for services that were dispatched before it.
Closed == InRound => \A s \in Disp : MayAwait(s) \subseteq Disp

\* What the goroutine of s no longer waits for has acted.
Ordered ==
    \A s \in Service : (gpc[s] \in {"deps", "act"} /\ Waits) =>
        \A t \in Awaited(s) \ gwait[s] :
            wstate[t] = "executed" /\ wdone[t] = 0 /\ werr[t] # "restart"

Acyclic ==
    InRound => \A C \in SUBSET Disp :
                   C # {} => \E s \in C : MayAwait(s) \cap C = {}

IInv == /\ TypeOK /\ Shape /\ Running /\ Collected /\ Failed /\ RequiredKept
        /\ Walked /\ Closed /\ Ordered /\ Acyclic

-----------------------------------------------------------------------------
(* Lemmas about the operators.                                             *)

\* A relationship DependentServices reports is between services of the model.
LEMMA DependentServicesType ==
    ASSUME TypeOK, NEW s \in Service
    PROVE  DependentServices(s) \subseteq Relationship
<1>1. config[s] \in Config /\ deps[s] \subseteq Service /\ keys \subseteq Service
  BY DEF TypeOK
<1>2. config[s].links \cup Implied(s) \subseteq Service
  BY <1>1 DEF Config, Implied
<1>3. ASSUME NEW T \in SUBSET Service, NEW b \in BOOLEAN
      PROVE  Rel(T, b) \subseteq Relationship
  BY DEF Rel, Relationship
<1> QED
  BY <1>1, <1>2, <1>3 DEF DependentServices

\* Within a round dependencies are only ever lost, when an image arrives.
LEMMA DependenciesShrink ==
    ASSUME NEW s \in Service, missing' \subseteq missing,
           UNCHANGED <<keys, config, deps>>
    PROVE  /\ DependentServices(s)' \subseteq DependentServices(s)
           /\ Required(s)' \subseteq Required(s)
BY DEF DependentServices, Implied, Rel, Required

\* The action of an optional cycle may pull an image, and no more than that.
LEMMA CycleShrinks ==
    ASSUME NEW r, IgnoreCycle(r)
    PROVE  /\ missing' \subseteq missing /\ UNCHANGED <<keys, config, deps>>
           /\ \A x \in Service : /\ DependentServices(x)' \subseteq DependentServices(x)
                                /\ Required(x)' \subseteq Required(x)
<1>1. missing' \subseteq missing /\ UNCHANGED <<keys, config, deps>>
  BY DEF IgnoreCycle, Pull
<1> QED
  BY <1>1, DependenciesShrink

\* The last element of a non-empty path, and what is left without it.
LEMMA PathTop ==
    ASSUME TypeOK, path # <<>>
    PROVE  /\ Len(path) \in Nat \ {0}
           /\ Top \in launched /\ Top \in wrappers /\ Top \in Service
           /\ OnPath(Top)
BY DEF TypeOK, Top, OnPath

\* Every step of traverse, startService and the goroutines keeps the types.
LEMMA TypeNext == ASSUME IInv, [Next]_vars PROVE TypeOK'
<1> USE DEF project, call, walk, wrapper, routine, main
<1>0. /\ TypeOK /\ Shape /\ Running
  BY DEF IInv
<1>1. CASE LoadWrappers
  <2>1. wdone' \in [Service -> 0..1]
    BY <1>0, <1>1 DEF LoadWrappers, TypeOK, Disp, OnPath, Shape, Running
  <2>2. deps' \in [Service -> SUBSET Service]
    BY <1>0, <1>1 DEF LoadWrappers, TypeOK, DepsAfterCreate, Config
  <2>3. wstate' \in [Service -> {"unknown", "executed"}]
    BY <1>0, <1>1 DEF LoadWrappers, TypeOK
  <2>4. werr' \in [Service -> {"nil", "fail", "restart"}]
    BY <1>0, <1>1 DEF LoadWrappers, TypeOK, ResetErr
  <2>5. ignored' \in [Service -> SUBSET Service]
    BY <1>0, <1>1 DEF LoadWrappers, TypeOK
  <2>6. wrappers' \in SUBSET Service /\ path' \in Seq(launched')
    BY <1>0, <1>1 DEF LoadWrappers, TypeOK
  <2>7. /\ phase' \in {"walk", "returned"}
        /\ result' \in {result, "nosuch"}
    BY <1>1 DEF LoadWrappers, Return
  <2>8. /\ UNCHANGED <<keys, config, missing, edits, op, selected, gpc, gwait>>
        /\ reload' = {} /\ launched' = {} /\ toWait' = {} /\ restart' = FALSE
        /\ firstError' = "nil" /\ todo' = [s \in Service |-> {}]
    BY <1>1 DEF LoadWrappers
  <2> QED
    BY <1>0, <2>1, <2>2, <2>3, <2>4, <2>5, <2>6, <2>7, <2>8 DEF TypeOK
<1>2. ASSUME NEW s \in Service, StartRoot(s) PROVE TypeOK'
  BY <1>0, <1>2, DependentServicesType DEF StartRoot, Enter, TypeOK
<1>3. ASSUME NEW r \in Relationship, SkipDep(r) PROVE TypeOK'
  BY <1>0, <1>3 DEF SkipDep, Drop, TypeOK
<1>4. ASSUME NEW r \in Relationship, DescendDep(r) PROVE TypeOK'
  <2>1. r.target \in Service
    BY DEF Relationship
  <2>2. Drop(r) \in [Service -> SUBSET Relationship]
    BY <1>0 DEF Drop, TypeOK
  <2>3. todo' \in [Service -> SUBSET Relationship]
    BY <1>0, <1>4, <2>1, <2>2, DependentServicesType DEF DescendDep, Enter
  <2>4. path' \in Seq(launched') /\ launched' \in SUBSET wrappers
    BY <1>0, <1>4, <2>1 DEF DescendDep, Enter, TypeOK
  <2> QED
    BY <1>0, <1>4, <2>3, <2>4 DEF DescendDep, TypeOK
<1>5. ASSUME NEW r \in Relationship, IgnoreCycle(r) PROVE TypeOK'
  BY <1>0, <1>5 DEF IgnoreCycle, Drop, Return, Pull, TypeOK, Relationship
<1>6. ASSUME NEW r \in Relationship, RequiredCycle(r) PROVE TypeOK'
  BY <1>0, <1>6 DEF RequiredCycle, Return, TypeOK
<1>7. CASE Dispatch
  <2>1. wdone[Top] = 1
    BY <1>0, <1>7, PathTop DEF Dispatch, Running, Disp, TypeOK
  <2>2. path' \in Seq(launched')
    BY <1>0, <1>7 DEF Dispatch, TypeOK
  <2>3. wdone' \in [Service -> 0..1]
    BY <1>0, <1>7, <2>1 DEF Dispatch, TypeOK
  <2>4. /\ gpc' \in [Service -> {"idle", "begin", "deps", "act"}]
        /\ wstate' \in [Service -> {"unknown", "executed"}]
    <3>1. CASE isSelected(Top)
      BY <1>0, <1>7, <3>1 DEF Dispatch, TypeOK
    <3>2. CASE ~isSelected(Top)
      BY <1>0, <1>7, <3>2 DEF Dispatch, TypeOK
    <3> QED
      BY <3>1, <3>2
  <2> QED
    BY <1>0, <1>7, <2>2, <2>3, <2>4 DEF Dispatch, TypeOK
<1>8. CASE WalkDone
  BY <1>0, <1>8 DEF WalkDone, TypeOK
<1>9. ASSUME NEW s \in Service, WaitWrapper(s) PROVE TypeOK'
  BY <1>0, <1>9 DEF WaitWrapper, TypeOK
<1>10. CASE WaitDone
  BY <1>0, <1>10 DEF WaitDone, Return, TypeOK
<1>11. CASE ReloadCallback
  BY <1>0, <1>11, ConstantsAssumption DEF ReloadCallback, TypeOK
<1>12. ASSUME NEW s \in Service, Goroutine(s) PROVE TypeOK'
  <2>0. gpc[s] # "idle" => wdone[s] = 1
    BY <1>0 DEF Running
  <2>1. CASE BeginExecuted(s)
    BY <1>0, <2>0, <2>1 DEF BeginExecuted, Done, TypeOK
  <2>2. CASE BeginWait(s)
    BY <1>0, <2>2 DEF BeginWait, Awaited, TypeOK
  <2>3. CASE BeginAction(s)
    BY <1>0, <2>3 DEF BeginAction, StartAction, TypeOK
  <2>4. ASSUME NEW t \in Service, WaitDep(s, t) PROVE TypeOK'
    <3>1. CASE werr[t] = "restart"
      BY <1>0, <2>0, <2>4, <3>1 DEF WaitDep, Done, TypeOK
    <3>2. CASE werr[t] # "restart"
      BY <1>0, <2>4, <3>2 DEF WaitDep, TypeOK
    <3> QED
      BY <3>1, <3>2
  <2>5. CASE DepsReady(s)
    BY <1>0, <2>5 DEF DepsReady, StartAction, TypeOK
  <2>6. CASE PullImage(s)
    BY <1>0, <2>6 DEF PullImage, Pull, TypeOK
  <2>7. CASE Finish(s)
    BY <1>0, <2>0, <2>7 DEF Finish, Done, Outcomes, TypeOK
  <2> QED
    BY <1>12, <2>1, <2>2, <2>3, <2>4, <2>5, <2>6, <2>7 DEF Goroutine
<1>13. CASE UNCHANGED vars
  BY <1>0, <1>13 DEF vars, TypeOK
<1> QED
  BY <1>1, <1>2, <1>3, <1>4, <1>5, <1>6, <1>7, <1>8, <1>9, <1>10, <1>11,
     <1>12, <1>13 DEF Next, Main, AllDone

\* startService puts s on the path: what was dispatched stays so.
LEMMA EnterPath ==
    ASSUME TypeOK, NEW s \in wrappers \ launched,
           launched' = launched \cup {s}, path' = Append(path, s)
    PROVE  /\ Disp' = Disp
           /\ ~OnPath(s)
           /\ \A x : OnPath(x)' <=> OnPath(x) \/ x = s
           /\ Len(path) \in Nat /\ Len(path') = Len(path) + 1
           /\ path'[Len(path) + 1] = s
           /\ \A i \in 1..Len(path) : path'[i] = path[i]
<1>1. /\ path \in Seq(launched) /\ Len(path) \in Nat
      /\ Len(path') = Len(path) + 1
      /\ path'[Len(path) + 1] = s
      /\ \A i \in 1..Len(path) : path'[i] = path[i]
  BY DEF TypeOK
<1>2. ~OnPath(s)
  BY <1>1 DEF OnPath
<1>3. \A x : OnPath(x)' <=> OnPath(x) \/ x = s
  BY <1>1 DEF OnPath
<1> QED
  BY <1>1, <1>2, <1>3 DEF Disp

\* A sequence without its last element.
LEMMA WithoutLast ==
    ASSUME NEW S, NEW q \in Seq(S), NEW n \in Nat, Len(q) = n + 1
    PROVE  /\ Len(SubSeq(q, 1, n)) = n
           /\ \A i \in 1..n : SubSeq(q, 1, n)[i] = q[i]
<1>1. n \in Int /\ 1 \in Int /\ \A i \in 1..n : q[i] \in S
  OBVIOUS
<1>2. /\ Len(SubSeq(q, 1, n)) = IF 1 <= n THEN n - 1 + 1 ELSE 0
      /\ \A i \in 1..(n - 1 + 1) : SubSeq(q, 1, n)[i] = q[1 + i - 1]
  BY <1>1, SubSeqProperties
<1>3. n - 1 + 1 = n /\ \A i \in 1..n : 1 + i - 1 = i
  OBVIOUS
<1> QED
  BY <1>2, <1>3

\* startService returns from the service on top of the path.
LEMMA DispatchPath ==
    ASSUME TypeOK, Shape, Dispatch
    PROVE  /\ Disp' = Disp \cup {Top}
           /\ Top \notin Disp /\ Top \in wrappers /\ Top \in Service
           /\ \A x : OnPath(x)' <=> OnPath(x) /\ x # Top
           /\ Len(path) \in Nat /\ Len(path) > 0 /\ Len(path') = Len(path) - 1
           /\ path[Len(path)] = Top
           /\ \A i \in 1..Len(path') : path'[i] = path[i]
<1>1. /\ Len(path) \in Nat /\ Len(path) > 0 /\ Len(path') = Len(path) - 1
      /\ path[Len(path)] = Top
      /\ Top \in launched /\ Top \in wrappers /\ Top \in Service
      /\ \A i \in 1..Len(path') : path'[i] = path[i]
  <2>1. /\ path \in Seq(launched) /\ path # <<>>
        /\ path' = SubSeq(path, 1, Len(path) - 1)
    BY DEF TypeOK, Dispatch
  <2>2. Len(path) \in Nat /\ Len(path) > 0
    BY <2>1
  <2>3. /\ Len(path') = Len(path) - 1
        /\ \A i \in 1..Len(path') : path'[i] = path[i]
    <3>1. Len(path) - 1 \in Nat /\ Len(path) = (Len(path) - 1) + 1
      BY <2>2
    <3> QED
      BY <2>1, <3>1, WithoutLast
  <2> QED
    BY <2>1, <2>2, <2>3, PathTop DEF Top
<1>2. Top \notin Disp
  BY PathTop DEF Dispatch, Disp
<1>3. \A i \in 1..Len(path) : path[i] = Top => i = Len(path)
  BY <1>1 DEF Shape
<1>4. \A x : OnPath(x)' <=> OnPath(x) /\ x # Top
  BY <1>1, <1>3 DEF OnPath
<1>5. launched' = launched
  BY DEF Dispatch
<1> QED
  BY <1>1, <1>2, <1>4, <1>5 DEF Disp

\* What a goroutine leaves alone: everything that is not its own, but for an
\* image that it may pull.
LEMMA GoroutineFrame ==
    ASSUME TypeOK, NEW s \in Service, Goroutine(s)
    PROVE  /\ UNCHANGED <<keys, config, reload, deps, edits, op, selected, main, ignored>>
           /\ missing' \subseteq missing
           /\ gpc[s] # "idle"
           /\ \A x \in Service \ {s} :
                 /\ gpc'[x] = gpc[x] /\ gwait'[x] = gwait[x]
                 /\ wdone'[x] = wdone[x]
                 /\ wstate'[x] = wstate[x] /\ werr'[x] = werr[x]
<1> USE DEF project, call, wrapper, routine, TypeOK
<1>1. CASE BeginExecuted(s)
  BY <1>1 DEF BeginExecuted, Done
<1>2. CASE BeginWait(s)
  BY <1>2 DEF BeginWait
<1>3. CASE BeginAction(s)
  BY <1>3 DEF BeginAction, StartAction
<1>4. ASSUME NEW t \in Service, WaitDep(s, t)
      PROVE  /\ UNCHANGED <<keys, config, reload, deps, edits, op, selected, main, ignored>>
             /\ missing' \subseteq missing
             /\ gpc[s] # "idle"
             /\ \A x \in Service \ {s} :
                   /\ gpc'[x] = gpc[x] /\ gwait'[x] = gwait[x]
                   /\ wdone'[x] = wdone[x]
                   /\ wstate'[x] = wstate[x] /\ werr'[x] = werr[x]
  BY <1>4 DEF WaitDep, Done
<1>5. CASE DepsReady(s)
  BY <1>5 DEF DepsReady, StartAction
<1>6. CASE PullImage(s)
  BY <1>6 DEF PullImage, Pull
<1>7. CASE Finish(s)
  BY <1>7 DEF Finish, Done
<1> QED
  BY <1>1, <1>2, <1>3, <1>4, <1>5, <1>6, <1>7 DEF Goroutine

\* Every step keeps path, launched and the wrappers in step with the phase.
LEMMA ShapeNext == ASSUME IInv, [Next]_vars PROVE Shape'
<1> USE DEF project, call, walk, wrapper, routine, main
<1>0. /\ TypeOK /\ Shape /\ TypeOK'
  BY TypeNext DEF IInv
<1>1. CASE LoadWrappers
  BY <1>0, <1>1 DEF LoadWrappers, Return, Shape, TypeOK
<1>2. ASSUME NEW s \in Service, StartRoot(s) PROVE Shape'
  <2>1. \A i, j \in 1..Len(path') : path'[i] = path'[j] => i = j
    BY <1>0, <1>2, EnterPath DEF StartRoot, Enter, Shape, OnPath
  <2> QED
    BY <1>0, <1>2, <2>1 DEF StartRoot, Enter, Shape
<1>3. ASSUME NEW r \in Relationship, SkipDep(r) PROVE Shape'
  BY <1>0, <1>3 DEF SkipDep, Shape
<1>4. ASSUME NEW r \in Relationship, DescendDep(r) PROVE Shape'
  <2>1. \A i, j \in 1..Len(path') : path'[i] = path'[j] => i = j
    BY <1>0, <1>4, EnterPath DEF DescendDep, Enter, Shape, OnPath
  <2> QED
    BY <1>0, <1>4, <2>1 DEF DescendDep, Enter, Visiting, Shape
<1>5. ASSUME NEW r \in Relationship, IgnoreCycle(r) PROVE Shape'
  BY <1>0, <1>5 DEF IgnoreCycle, Visiting, Return, Shape
<1>6. ASSUME NEW r \in Relationship, RequiredCycle(r) PROVE Shape'
  BY <1>0, <1>6 DEF RequiredCycle, Visiting, Return, Shape
<1>7. CASE Dispatch
  <2>1. \A i, j \in 1..Len(path') : path'[i] = path'[j] => i = j
    BY <1>0, <1>7, DispatchPath DEF Shape
  <2> QED
    BY <1>0, <1>7, <2>1 DEF Dispatch, Shape
<1>8. CASE WalkDone
  <2>1. launched = wrappers
    BY <1>0, <1>8 DEF WalkDone, TypeOK
  <2> QED
    BY <1>0, <1>8, <2>1 DEF WalkDone, Shape
<1>9. ASSUME NEW s \in Service, WaitWrapper(s) PROVE Shape'
  BY <1>0, <1>9 DEF WaitWrapper, Shape
<1>10. CASE WaitDone
  BY <1>0, <1>10 DEF WaitDone, Return, Shape, TypeOK
<1>11. CASE ReloadCallback
  <2>1. PICK loaded : keys' = keys \cup loaded /\ reload' = reload \cup loaded
    BY <1>11 DEF ReloadCallback
  <2>2. /\ phase = "callback" /\ phase' = "restart"
        /\ UNCHANGED <<result, path, launched, wrappers, selected>>
    BY <1>11 DEF ReloadCallback
  <2>3. /\ path = <<>> /\ launched = wrappers /\ keys = wrappers
        /\ selected \subseteq wrappers /\ reload \subseteq keys
        /\ result = "none"
    BY <1>0, <2>2 DEF Shape
  <2>4. path' = <<>> /\ Len(path') = 0
    BY <2>2, <2>3
  <2> QED
    BY <2>1, <2>2, <2>3, <2>4 DEF Shape
<1>12. ASSUME NEW s \in Service, Goroutine(s) PROVE Shape'
  BY <1>0, <1>12, GoroutineFrame DEF Shape
<1>13. CASE UNCHANGED vars
  BY <1>0, <1>13 DEF vars, Shape
<1> QED
  BY <1>1, <1>2, <1>3, <1>4, <1>5, <1>6, <1>7, <1>8, <1>9, <1>10, <1>11,
     <1>12, <1>13 DEF Next, Main, AllDone

\* Steps that leave the path alone leave the dispatched services alone.
LEMMA SamePath ==
    ASSUME UNCHANGED <<path, launched>>
    PROVE  Disp' = Disp /\ \A x : OnPath(x)' <=> OnPath(x)
BY DEF Disp, OnPath

\* Every step keeps a goroutine running only for a dispatched wrapper whose
\* WaitGroup it has still to count down.
LEMMA RunningNext == ASSUME IInv, [Next]_vars PROVE Running'
<1> USE DEF project, call, walk, wrapper, routine, main
<1>0. /\ TypeOK /\ Shape /\ Running /\ Collected /\ TypeOK' /\ Shape'
  BY TypeNext, ShapeNext DEF IInv
<1>a. Disp \subseteq wrappers /\ wrappers \subseteq Service
  BY <1>0 DEF Disp, TypeOK
<1>1. CASE LoadWrappers
  <2>1. Disp' = {}
    BY <1>1 DEF LoadWrappers, Disp
  <2>2. \A s \in Service : gpc[s] = "idle" /\ gwait[s] = {}
    BY <1>0, <1>1 DEF LoadWrappers, Running, Shape, Disp
  <2>3. \A s \in wrappers : wdone[s] = 0
    BY <1>0, <1>1, <2>2 DEF LoadWrappers, Running, Shape, Disp, OnPath, TypeOK
  <2>4. \A s \in wrappers' : wdone'[s] = 1
    BY <1>0, <1>1, <2>3 DEF LoadWrappers, TypeOK
  <2>5. UNCHANGED <<gpc, gwait>> /\ result' # "nil"
    BY <1>0, <1>1 DEF LoadWrappers, Return, Shape
  <2> QED
    BY <2>1, <2>2, <2>4, <2>5 DEF Running
<1>2. ASSUME NEW s \in Service, StartRoot(s) PROVE Running'
  <2>1. Disp' = Disp
    BY <1>0, <1>2, EnterPath DEF StartRoot, Enter
  <2> QED
    BY <1>0, <1>2, <2>1 DEF StartRoot, Running, isSelected
<1>3. ASSUME NEW r \in Relationship, SkipDep(r) PROVE Running'
  BY <1>0, <1>3, SamePath DEF SkipDep, Running, isSelected
<1>4. ASSUME NEW r \in Relationship, DescendDep(r) PROVE Running'
  <2>1. Disp' = Disp
    BY <1>0, <1>4, EnterPath DEF DescendDep, Enter
  <2> QED
    BY <1>0, <1>4, <2>1 DEF DescendDep, Running, isSelected
<1>5. ASSUME NEW r \in Relationship, IgnoreCycle(r) PROVE Running'
  <2>1. phase' \notin {"callback", "restart"} /\ result' # "nil"
    BY <1>0, <1>5 DEF IgnoreCycle, Visiting, Return, Shape
  <2> QED
    BY <1>0, <1>5, <2>1, SamePath DEF IgnoreCycle, Running, isSelected
<1>6. ASSUME NEW r \in Relationship, RequiredCycle(r) PROVE Running'
  BY <1>0, <1>6, SamePath DEF RequiredCycle, Return, Running, isSelected
<1>7. CASE Dispatch
  <2>0. phase' = "walk" /\ result' # "nil" /\ UNCHANGED <<wrappers, gwait, werr, selected>>
    BY <1>0, <1>7 DEF Dispatch, Shape
  <2>1. gpc[Top] = "idle" /\ wdone[Top] = 1 /\ gwait[Top] = {}
    BY <1>0, <1>7, DispatchPath DEF Running
  <2>2. \A x \in Service \ {Top} :
           gpc'[x] = gpc[x] /\ wdone'[x] = wdone[x] /\ wstate'[x] = wstate[x]
    BY <1>0, <1>7 DEF Dispatch, TypeOK
  <2>3. CASE isSelected(Top)
    <3>1. gpc'[Top] = "begin" /\ wdone'[Top] = 1 /\ gwait'[Top] = {}
      BY <1>0, <1>7, <2>1, <2>3, DispatchPath DEF Dispatch, TypeOK
    <3> QED
      BY <1>0, <1>7, <1>a, <2>0, <2>2, <2>3, <3>1, DispatchPath DEF Running, isSelected
  <2>4. CASE ~isSelected(Top)
    <3>1. gpc'[Top] = "idle" /\ wdone'[Top] = 0 /\ wstate'[Top] = "executed"
      BY <1>0, <1>7, <2>1, <2>4, DispatchPath DEF Dispatch, TypeOK
    <3> QED
      BY <1>0, <1>7, <1>a, <2>0, <2>1, <2>2, <2>4, <3>1, DispatchPath DEF Running, isSelected
  <2> QED
    BY <2>3, <2>4
<1>8. CASE WalkDone
  BY <1>0, <1>8, SamePath DEF WalkDone, Running, isSelected
<1>9. ASSUME NEW s \in Service, WaitWrapper(s) PROVE Running'
  BY <1>0, <1>9, SamePath DEF WaitWrapper, Running, isSelected
<1>10. CASE WaitDone
  <2>1. \A s \in Service : gpc[s] = "idle"
    BY <1>0, <1>a, <1>10 DEF WaitDone, Running, Collected
  <2> QED
    BY <1>0, <1>10, <2>1, SamePath DEF WaitDone, Running, isSelected
<1>11. CASE ReloadCallback
  BY <1>0, <1>11, SamePath DEF ReloadCallback, Running, isSelected
<1>12. ASSUME NEW s \in Service, Goroutine(s) PROVE Running'
  <2>0. /\ s \in Disp /\ isSelected(s) /\ wdone[s] = 1
        /\ phase' \notin {"callback", "restart"} /\ result' # "nil"
        /\ Disp' = Disp /\ wrappers' = wrappers /\ \A x : isSelected(x)' <=> isSelected(x)
    BY <1>0, <1>12, GoroutineFrame, SamePath DEF Running, isSelected
  <2>f. \A x \in Service \ {s} :
            /\ gpc'[x] = gpc[x] /\ gwait'[x] = gwait[x]
            /\ wdone'[x] = wdone[x]
            /\ wstate'[x] = wstate[x] /\ werr'[x] = werr[x]
    BY <1>0, <1>12, GoroutineFrame
  <2>r. ASSUME /\ wdone'[s] = 1 <=> gpc'[s] # "idle"
               /\ gpc'[s] # "deps" => gwait'[s] = {}
               /\ gpc'[s] = "act" => wstate'[s] = "executed"
               /\ gpc'[s] = "idle" => wstate'[s] = "executed" \/ werr'[s] = "restart"
        PROVE  Running'
    BY <1>0, <1>a, <2>0, <2>f, <2>r DEF Running
  <2>1. CASE BeginExecuted(s)
    BY <1>0, <2>0, <2>1, <2>r DEF BeginExecuted, Done, TypeOK
  <2>2. CASE BeginWait(s)
    BY <1>0, <2>0, <2>2, <2>r DEF BeginWait, TypeOK
  <2>3. CASE BeginAction(s)
    <3>1. gwait[s] = {}
      BY <1>0, <2>3 DEF BeginAction, Running
    <3> QED
      BY <1>0, <2>0, <2>3, <3>1, <2>r DEF BeginAction, StartAction, TypeOK
  <2>4. ASSUME NEW t \in Service, WaitDep(s, t) PROVE Running'
    BY <1>0, <2>0, <2>4, <2>r DEF WaitDep, Done, TypeOK
  <2>5. CASE DepsReady(s)
    BY <1>0, <2>0, <2>5, <2>r DEF DepsReady, StartAction, TypeOK
  <2>6. CASE PullImage(s)
    <3>1. gwait[s] = {} /\ wstate[s] = "executed"
      BY <1>0, <2>6 DEF PullImage, Pull, Running
    <3> QED
      BY <1>0, <2>0, <2>6, <3>1, <2>r DEF PullImage, Pull, TypeOK
  <2>7. CASE Finish(s)
    <3>1. wstate[s] = "executed"
      BY <1>0, <2>7 DEF Finish, Running
    <3> QED
      BY <1>0, <2>0, <2>7, <3>1, <2>r DEF Finish, Done, TypeOK
  <2> QED
    BY <1>12, <2>1, <2>2, <2>3, <2>4, <2>5, <2>6, <2>7 DEF Goroutine
<1>13. CASE UNCHANGED vars
  BY <1>0, <1>13, SamePath DEF vars, Running, isSelected
<1> QED
  BY <1>1, <1>2, <1>3, <1>4, <1>5, <1>6, <1>7, <1>8, <1>9, <1>10, <1>11,
     <1>12, <1>13 DEF Next, Main, AllDone

\* Every step keeps what traverse collected in agreement with the errors that
\* the wrappers hold.
LEMMA CollectedNext == ASSUME IInv, [Next]_vars PROVE Collected'
<1> USE DEF project, call, walk, wrapper, routine, main
<1>0. /\ TypeOK /\ Shape /\ Running /\ Collected /\ TypeOK' /\ Shape'
  BY TypeNext, ShapeNext DEF IInv
<1>a. ASSUME phase' # "wait", result' # "nil" PROVE Collected'
  BY <1>a DEF Collected
<1>1. CASE LoadWrappers
  BY <1>0, <1>1, <1>a DEF LoadWrappers, Return, Shape
<1>2. ASSUME NEW s \in Service, StartRoot(s) PROVE Collected'
  BY <1>0, <1>2, <1>a DEF StartRoot, Shape
<1>3. ASSUME NEW r \in Relationship, SkipDep(r) PROVE Collected'
  BY <1>0, <1>3, <1>a DEF SkipDep, Visiting, Shape
<1>4. ASSUME NEW r \in Relationship, DescendDep(r) PROVE Collected'
  BY <1>0, <1>4, <1>a DEF DescendDep, Visiting, Shape
<1>5. ASSUME NEW r \in Relationship, IgnoreCycle(r) PROVE Collected'
  BY <1>0, <1>5, <1>a DEF IgnoreCycle, Visiting, Return, Shape
<1>6. ASSUME NEW r \in Relationship, RequiredCycle(r) PROVE Collected'
  BY <1>0, <1>6, <1>a DEF RequiredCycle, Return
<1>7. CASE Dispatch
  BY <1>0, <1>7, <1>a DEF Dispatch, Shape
<1>8. CASE WalkDone
  BY <1>0, <1>8 DEF WalkDone, Collected, Shape, isSelected
<1>9. ASSUME NEW s \in Service, WaitWrapper(s) PROVE Collected'
  <2>1. phase' = "wait" /\ result' # "nil"
    BY <1>0, <1>9 DEF WaitWrapper, Shape
  <2> QED
    BY <1>0, <1>9, <2>1 DEF WaitWrapper, Collected, isSelected, TypeOK
<1>10. CASE WaitDone
  <2>1. Disp = wrappers /\ wrappers \subseteq Service
    BY <1>0, <1>10 DEF WaitDone, Shape, Disp, OnPath, TypeOK
  <2>2. \A s \in wrappers : isSelected(s) =>
           /\ wstate[s] = "executed" \/ werr[s] = "restart"
           /\ werr[s] = "restart" => restart
           /\ werr[s] = "fail" => firstError = "fail"
    BY <1>0, <1>10, <2>1 DEF WaitDone, Running, Collected
  <2>3. result' = "nil" => ~restart /\ firstError = "nil"
    BY <1>0, <1>10 DEF WaitDone, Return, Shape
  <2>4. result' = "nil" => \A s \in wrappers :
           isSelected(s) => wstate[s] = "executed" /\ werr[s] = "nil"
    BY <1>0, <2>1, <2>2, <2>3 DEF TypeOK
  <2> QED
    BY <1>0, <1>10, <2>4 DEF WaitDone, Return, Collected, isSelected
<1>11. CASE ReloadCallback
  BY <1>0, <1>11, <1>a DEF ReloadCallback, Shape
<1>12. ASSUME NEW s \in Service, Goroutine(s) PROVE Collected'
  <2>1. gpc[s] # "idle" /\ wdone[s] = 1 /\ result # "nil"
    BY <1>0, <1>12, GoroutineFrame DEF Running
  <2> QED
    BY <1>0, <1>12, <2>1, GoroutineFrame DEF Collected, isSelected, TypeOK
<1>13. CASE UNCHANGED vars
  BY <1>0, <1>13 DEF vars, Collected, isSelected
<1> QED
  BY <1>1, <1>2, <1>3, <1>4, <1>5, <1>6, <1>7, <1>8, <1>9, <1>10, <1>11,
     <1>12, <1>13 DEF Next, Main, AllDone

\* What a goroutine does to its own wrapper keeps Failed, and a failure that is
\* there stays.
LEMMA GoroutineFails ==
    ASSUME TypeOK, Running, Failed, NEW s \in Service, Goroutine(s)
    PROVE  Failed' /\ (werr[s] = "fail" => werr'[s] = "fail")
<1> USE DEF wrapper, routine, TypeOK, Failed
<1>1. CASE BeginExecuted(s)
  BY <1>1 DEF BeginExecuted, Done
<1>2. CASE BeginWait(s)
  BY <1>2 DEF BeginWait
<1>3. CASE BeginAction(s)
  BY <1>3 DEF BeginAction, StartAction
<1>4. ASSUME NEW t \in Service, WaitDep(s, t)
      PROVE  Failed' /\ (werr[s] = "fail" => werr'[s] = "fail")
  BY <1>4 DEF WaitDep, Done
<1>5. CASE DepsReady(s)
  BY <1>5 DEF DepsReady, StartAction
<1>6. CASE PullImage(s)
  BY <1>6 DEF PullImage
<1>7. CASE Finish(s)
  <2>1. wstate[s] = "executed"
    BY <1>7 DEF Finish, Running
  <2> QED
    BY <1>7, <2>1 DEF Finish, Done
<1> QED
  BY <1>1, <1>2, <1>3, <1>4, <1>5, <1>6, <1>7 DEF Goroutine

\* The steps of traverse and startService leave the errors alone, but for those
\* of LoadWrappers.
LEMMA MainKeepsErrors ==
    ASSUME Main, ~LoadWrappers
    PROVE  werr' = werr
BY DEF Main, StartRoot, SkipDep, DescendDep, IgnoreCycle, RequiredCycle,
       Dispatch, WalkDone, WaitWrapper, WaitDone, ReloadCallback, wrapper

\* Every step keeps failures with services that were executed.
LEMMA FailedNext == ASSUME IInv, [Next]_vars PROVE Failed'
<1>0. TypeOK /\ Shape /\ Running /\ Failed
  BY DEF IInv
<1>1. CASE LoadWrappers
  <2>1. \A s \in Service : gpc[s] = "idle"
    BY <1>0, <1>1 DEF LoadWrappers, Shape, Running, Disp
  <2> QED
    BY <1>0, <1>1, <2>1 DEF LoadWrappers, Failed, TypeOK, ResetErr, routine
<1>2. CASE Dispatch
  <2>1. Top \in Service
    BY <1>0, <1>2, PathTop DEF Dispatch, TypeOK
  <2> QED
    BY <1>0, <1>2, <2>1 DEF Dispatch, Failed, Running, TypeOK
<1>3. ASSUME NEW s \in Service, Goroutine(s) PROVE Failed'
  BY <1>0, <1>3, GoroutineFails
<1>4. CASE UNCHANGED <<wstate, werr, gpc>>
  BY <1>0, <1>4 DEF Failed
<1>5. Main => LoadWrappers \/ Dispatch \/ UNCHANGED <<wstate, werr, gpc>>
  BY DEF Main, StartRoot, SkipDep, DescendDep, IgnoreCycle, RequiredCycle,
         WalkDone, WaitWrapper, WaitDone, ReloadCallback, wrapper, routine
<1> QED
  BY <1>1, <1>2, <1>3, <1>4, <1>5 DEF Next, AllDone, vars, wrapper, routine

-----------------------------------------------------------------------------
(* Dependencies.                                                           *)

\* The after and before labels have no part in the required dependencies.
LEMMA RequiredIs ==
    \A s : Required(s) = {r \in DependentServices(s) : ~r.optional}
<1>1. \A T, b : \A r \in Rel(T, b) : r.optional = b
  BY DEF Rel
<1> QED
  BY <1>1 DEF Required, DependentServices

\* Nothing but the project's own state decides what a service depends on.
LEMMA SameProject ==
    ASSUME UNCHANGED <<keys, config, deps, missing>>
    PROVE  \A s : /\ DependentServices(s)' = DependentServices(s)
                  /\ Required(s)' = Required(s)
BY DEF DependentServices, Implied, Rel, Required

\* A goroutine's step changes no dependency but for one that an image, pulled
\* by the action, makes needless.
LEMMA GoroutineShrinks ==
    ASSUME TypeOK, NEW s \in Service, Goroutine(s)
    PROVE  \A x \in Service :
               /\ DependentServices(x)' \subseteq DependentServices(x)
               /\ Required(x)' \subseteq Required(x)
               /\ Awaited(x)' \subseteq Awaited(x)
<1>1. \A x \in Service : /\ DependentServices(x)' \subseteq DependentServices(x)
                        /\ Required(x)' \subseteq Required(x)
  BY GoroutineFrame, DependenciesShrink
<1>2. UNCHANGED <<wrappers, ignored>>
  BY GoroutineFrame DEF main
<1> QED
  BY <1>1, <1>2 DEF Awaited

\* Every step keeps this: a dependency startService is done with has been
\* launched, was cut, or is not in the project.
LEMMA WalkedNext == ASSUME IInv, [Next]_vars PROVE Walked'
<1> USE DEF project, call, walk, wrapper, routine, main
<1>0. /\ TypeOK /\ Shape /\ Walked
  BY DEF IInv
<1>a. ASSUME path' = <<>> PROVE Walked'
  BY <1>a DEF Walked
<1>b. ASSUME UNCHANGED <<keys, config, deps, missing, wrappers, path, launched, todo, ignored>>
      PROVE  Walked'
  BY <1>0, <1>b, SameProject, SamePath DEF Walked
<1>1. CASE LoadWrappers
  BY <1>1, <1>a DEF LoadWrappers
<1>2. ASSUME NEW s \in Service, StartRoot(s) PROVE Walked'
  <2>1. Len(path) = 0 /\ Len(path') = 1 /\ path'[1] = s
    BY <1>0, <1>2, EnterPath DEF StartRoot, Enter
  <2>2. todo'[s] = DependentServices(s)'
    BY <1>0, <1>2, SameProject DEF StartRoot, Enter, TypeOK
  <2> QED
    BY <2>1, <2>2 DEF Walked
<1>3. ASSUME NEW r \in Relationship, SkipDep(r) PROVE Walked'
  <2>1. /\ Top \in Service /\ UNCHANGED <<wrappers, path, launched, ignored>>
        /\ \A x \in Service : DependentServices(x)' = DependentServices(x)
        /\ Disp' = Disp
    BY <1>0, <1>3, PathTop, SameProject, SamePath DEF SkipDep, Visiting
  <2>2. \A x \in Service : todo[x] \ {r} \subseteq todo'[x]
    BY <1>0, <1>3 DEF SkipDep, Drop, TypeOK
  <2>3. r.target \in wrappers => r.target \in Disp
    BY <1>3 DEF SkipDep, Disp
  <2>4. \A i \in 1..Len(path) : path[i] \in Service
    BY <1>0 DEF TypeOK
  <2> QED
    BY <1>0, <2>1, <2>2, <2>3, <2>4 DEF Walked
<1>4. ASSUME NEW r \in Relationship, DescendDep(r) PROVE Walked'
  <2> DEFINE t == r.target
  <2>1. /\ t \in Service /\ t \in wrappers \ launched /\ Top \in Service
        /\ UNCHANGED <<wrappers, ignored>>
        /\ launched' = launched \cup {t} /\ path' = Append(path, t)
    BY <1>0, <1>4, PathTop DEF DescendDep, Enter, Visiting, Relationship
  <2>2. /\ \A x \in Service : DependentServices(x)' = DependentServices(x)
    BY <1>0, <1>4, SameProject DEF DescendDep
  <2>3. /\ Disp' = Disp /\ ~OnPath(t) /\ Len(path) \in Nat
        /\ Len(path') = Len(path) + 1 /\ path'[Len(path) + 1] = t
        /\ \A i \in 1..Len(path) : path'[i] = path[i] /\ path[i] # t
    BY <1>0, <2>1, EnterPath DEF OnPath
  <2>4. /\ todo'[t] = DependentServices(t)
        /\ \A x \in Service \ {t, Top} : todo'[x] = todo[x]
        /\ Top # t => todo'[Top] = todo[Top] \ {r}
    BY <1>0, <1>4, <2>1 DEF DescendDep, Enter, Drop, TypeOK
  <2>5. \A i \in 1..Len(path) : path[i] \in Service /\ (path[i] = Top => i = Len(path))
    BY <1>0, <1>4 DEF TypeOK, Shape, Top, DescendDep, Visiting
  <2>6. ASSUME NEW i \in 1..Len(path'), NEW q \in DependentServices(path'[i]),
               q.target \in wrappers
        PROVE  \/ q \in todo'[path'[i]]
               \/ q.target \in Disp
               \/ q.optional /\ q.target \in ignored[path'[i]]
               \/ i < Len(path') /\ q.target = path'[i + 1]
    <3>1. CASE i = Len(path) + 1
      BY <2>3, <2>4, <2>6, <3>1
    <3>2. CASE i \in 1..Len(path)
      <4>1. \/ q \in todo[path[i]]
            \/ q.target \in Disp
            \/ q.optional /\ q.target \in ignored[path[i]]
            \/ i < Len(path) /\ q.target = path[i + 1]
        BY <1>0, <2>3, <2>6, <3>2 DEF Walked
      <4>2. CASE path[i] = Top
        BY <2>3, <2>4, <2>5, <3>2, <4>1, <4>2
      <4>3. CASE path[i] # Top
        BY <2>3, <2>4, <2>5, <3>2, <4>1, <4>3
      <4> QED
        BY <4>2, <4>3
    <3> QED
      BY <2>3, <3>1, <3>2
  <2>7. \A i \in 1..Len(path') : path'[i] \in Service
    BY <2>1, <2>3, <2>5
  <2> HIDE DEF t
  <2> QED
    BY <2>1, <2>2, <2>3, <2>6, <2>7 DEF Walked
<1>5. ASSUME NEW r \in Relationship, IgnoreCycle(r) PROVE Walked'
  <2>1. /\ Top \in Service /\ UNCHANGED <<wrappers, path, launched>>
        /\ \A x \in Service : DependentServices(x)' \subseteq DependentServices(x)
        /\ Disp' = Disp
    BY <1>0, <1>5, PathTop, CycleShrinks, SamePath DEF IgnoreCycle, Visiting
  <2>2. /\ \A x \in Service : ignored[x] \subseteq ignored'[x]
        /\ \A x \in Service \ {Top} : todo'[x] = todo[x]
        /\ todo'[Top] = todo[Top] \ {r}
        /\ r.optional /\ r.target \in ignored'[Top]
    BY <1>0, <1>5, <2>1 DEF IgnoreCycle, Drop, TypeOK
  <2>4. \A i \in 1..Len(path) : path[i] \in Service
    BY <1>0 DEF TypeOK
  <2> QED
    BY <1>0, <2>1, <2>2, <2>4 DEF Walked
<1>6. ASSUME NEW r \in Relationship, RequiredCycle(r) PROVE Walked'
  BY <1>6, <1>b DEF RequiredCycle
<1>7. CASE Dispatch
  <2>1. /\ UNCHANGED <<wrappers, todo, ignored>>
        /\ \A x \in Service : DependentServices(x)' = DependentServices(x)
    BY <1>0, <1>7, SameProject DEF Dispatch
  <2>4. \A i \in 1..Len(path) : path[i] \in Service
    BY <1>0 DEF TypeOK
  <2> QED
    BY <1>0, <1>7, <2>1, <2>4, DispatchPath DEF Walked
<1>8. CASE WalkDone
  BY <1>8, <1>b DEF WalkDone
<1>9. ASSUME NEW s \in Service, WaitWrapper(s) PROVE Walked'
  BY <1>9, <1>b DEF WaitWrapper
<1>10. CASE WaitDone
  BY <1>10, <1>b DEF WaitDone
<1>11. CASE ReloadCallback
  BY <1>0, <1>11, <1>a DEF ReloadCallback, Shape
<1>12. ASSUME NEW s \in Service, Goroutine(s) PROVE Walked'
  <2>1. UNCHANGED <<wrappers, path, launched, todo, ignored>> /\ Disp' = Disp
    BY <1>0, <1>12, GoroutineFrame, SamePath
  <2>2. \A i \in 1..Len(path) : path[i] \in Service
    BY <1>0 DEF TypeOK
  <2> QED
    BY <1>0, <1>12, <2>1, <2>2, GoroutineShrinks DEF Walked
<1>13. CASE UNCHANGED vars
  BY <1>13, <1>b DEF vars
<1> QED
  BY <1>1, <1>2, <1>3, <1>4, <1>5, <1>6, <1>7, <1>8, <1>9, <1>10, <1>11,
     <1>12, <1>13 DEF Next, Main, AllDone

\* Every step keeps the required dependencies out of what IgnoreDep cut.
LEMMA RequiredKeptNext == ASSUME IInv, [Next]_vars PROVE RequiredKept'
<1> USE DEF project, call, walk, wrapper, routine, main
<1>0. /\ TypeOK /\ Shape /\ RequiredKept /\ Walked
  BY DEF IInv
<1>p. \A i \in 1..Len(path) : path[i] \in Service /\ OnPath(path[i])
  BY <1>0 DEF TypeOK, OnPath
<1>w. wrappers \subseteq Service
  BY <1>0 DEF TypeOK
<1>b. ASSUME UNCHANGED <<keys, config, deps, missing, wrappers, path, todo, ignored>>,
             phase' # "restart", phase # "restart"
      PROVE  RequiredKept'
  <2>1. \A x : OnPath(x)' <=> OnPath(x)
    BY <1>b DEF OnPath
  <2> QED
    BY <1>0, <1>b, <2>1, SameProject DEF RequiredKept
<1>1. CASE LoadWrappers
  <2> DEFINE list == IF phase = "start" THEN keys ELSE reload
  <2>1. /\ wrappers' = wrappers \cup list /\ path' = <<>> /\ phase' # "restart"
        /\ \A s \in Service : ignored'[s] = IF s \in list THEN {} ELSE ignored[s]
    BY <1>0, <1>1 DEF LoadWrappers, Return, TypeOK
  <2>2. \A s \in Service : Required(s)' = Required(s)
    BY <1>1 DEF LoadWrappers, Required, Implied, Rel
  <2>3. \A s \in wrappers \ list : phase = "restart" /\ ~OnPath(s) /\ s \notin reload
    BY <1>0, <1>1 DEF LoadWrappers, Shape, OnPath
  <2>4. wrappers \cup list \subseteq Service
    BY <1>0 DEF TypeOK
  <2> HIDE DEF list
  <2>5. \A s \in wrappers' : ignored'[s] \subseteq wrappers'
    BY <1>0, <2>1, <2>4 DEF RequiredKept
  <2>6. \A s \in wrappers' : \A r \in Required(s)' : r.target \notin ignored'[s]
    BY <1>0, <2>1, <2>2, <2>3, <2>4 DEF RequiredKept
  <2> QED
    BY <2>1, <2>5, <2>6 DEF RequiredKept
<1>2. ASSUME NEW s \in Service, StartRoot(s) PROVE RequiredKept'
  <2>1. /\ s \in wrappers \ launched /\ phase = "walk" /\ phase' = "walk"
        /\ launched' = launched \cup {s} /\ path' = Append(path, s) /\ path = <<>>
        /\ UNCHANGED <<wrappers, ignored>>
        /\ \A x : Required(x)' = Required(x)
    BY <1>2, SameProject DEF StartRoot, Enter
  <2>2. /\ ~OnPath(s) /\ \A x : OnPath(x)' <=> OnPath(x) \/ x = s
        /\ Len(path') = 1 /\ path'[1] = s
    BY <1>0, <2>1, EnterPath
  <2>3. \A r \in Required(s) : r.target \notin ignored[s]
    BY <1>0, <2>1, <2>2 DEF RequiredKept
  <2> QED
    BY <1>0, <2>1, <2>2, <2>3 DEF RequiredKept
<1>3. ASSUME NEW r \in Relationship, SkipDep(r) PROVE RequiredKept'
  <2>1. /\ phase = "walk" /\ phase' = "walk" /\ ~OnPath(r.target)
        /\ UNCHANGED <<wrappers, ignored, path>>
        /\ \A x : OnPath(x)' <=> OnPath(x)
        /\ \A x : Required(x)' = Required(x)
    BY <1>3, SameProject, SamePath DEF SkipDep, Visiting
  <2>2. \A x \in Service : todo[x] \ {r} \subseteq todo'[x]
    BY <1>0, <1>3 DEF SkipDep, Drop, TypeOK
  <2>3. \A i \in 1..Len(path) : \A j \in 1..i : path[j] # r.target
    BY <1>0, <2>1 DEF OnPath, TypeOK
  <2> QED
    BY <1>0, <1>p, <2>1, <2>2, <2>3 DEF RequiredKept
<1>4. ASSUME NEW r \in Relationship, DescendDep(r) PROVE RequiredKept'
  <2> DEFINE t == r.target
  <2>1. /\ t \in Service /\ t \in wrappers \ launched
        /\ UNCHANGED <<wrappers, ignored>> /\ phase = "walk" /\ phase' = "walk"
        /\ launched' = launched \cup {t} /\ path' = Append(path, t)
        /\ \A x : Required(x)' = Required(x)
    BY <1>0, <1>4, SameProject DEF DescendDep, Enter, Visiting, Relationship
  <2>2. /\ ~OnPath(t) /\ \A x : OnPath(x)' <=> OnPath(x) \/ x = t
        /\ Len(path) \in Nat
        /\ Len(path') = Len(path) + 1 /\ path'[Len(path) + 1] = t
        /\ \A i \in 1..Len(path) : path'[i] = path[i]
    BY <1>0, <2>1, EnterPath
  <2>3. \A x \in Service \ {t} : todo[x] \ {r} \subseteq todo'[x]
    BY <1>0, <1>4 DEF DescendDep, Enter, Drop, TypeOK
  <2>4. \A q \in Required(t) : q.target \notin ignored[t]
    BY <1>0, <2>1, <2>2 DEF RequiredKept
  <2>5. \A i \in 1..Len(path) : path[i] # t /\ \A j \in 1..i : path[j] # t
    BY <2>2 DEF OnPath
  <2>6. ASSUME NEW i \in 1..Len(path'), NEW q \in Required(path'[i]),
               q.target \in ignored[path'[i]]
        PROVE  q \in todo'[path'[i]] /\ \E j \in 1..i : path'[j] = q.target
    <3>1. CASE i = Len(path) + 1
      BY <2>2, <2>4, <2>6, <3>1
    <3>2. CASE i \in 1..Len(path)
      <4>1. q \in todo[path[i]] /\ \E j \in 1..i : path[j] = q.target
        BY <1>0, <2>2, <2>6, <3>2 DEF RequiredKept
      <4>2. q # r
        BY <2>5, <3>2, <4>1
      <4>3. path[i] \in Service \ {t} /\ path'[i] = path[i]
        BY <1>p, <2>2, <2>5, <3>2
      <4> HIDE DEF t
      <4>4. q \in todo'[path'[i]]
        BY <2>3, <4>1, <4>2, <4>3
      <4>5. \A j \in 1..i : path'[j] = path[j]
        BY <2>2, <3>2
      <4> QED
        BY <4>1, <4>4, <4>5
    <3> QED
      BY <2>2, <3>1, <3>2
  <2> HIDE DEF t
  <2> QED
    BY <1>0, <2>1, <2>2, <2>6 DEF RequiredKept
<1>5. ASSUME NEW r \in Relationship, IgnoreCycle(r) PROVE RequiredKept'
  <2>1. /\ phase = "walk" /\ phase' # "restart" /\ OnPath(r.target) /\ r.optional
        /\ UNCHANGED <<wrappers, path, launched>>
        /\ \A x : OnPath(x)' <=> OnPath(x)
        /\ \A x \in Service : Required(x)' \subseteq Required(x)
    BY <1>5, CycleShrinks, SamePath DEF IgnoreCycle, Visiting, Return
  <2>2. /\ Top \in Service /\ Top \in wrappers /\ OnPath(Top)
        /\ Len(path) \in Nat \ {0} /\ Top = path[Len(path)]
    BY <1>0, <1>5, PathTop DEF IgnoreCycle, Visiting, Top
  <2>3. /\ \A x \in Service \ {Top} : ignored'[x] = ignored[x]
        /\ ignored'[Top] = ignored[Top] \cup {r.target}
        /\ \A x \in Service : todo[x] \ {r} \subseteq todo'[x]
    BY <1>0, <1>5, <2>2 DEF IgnoreCycle, Drop, TypeOK
  <2>4. r.target \in wrappers /\ r.target \notin Disp
    BY <1>0, <2>1 DEF OnPath, Disp, TypeOK
  <2>5. \A q \in Required(Top) : q.target = r.target => q \in todo[Top]
    BY <1>0, <2>2, <2>4, RequiredIs DEF Walked
  <2>6. \A i \in 1..Len(path) : path[i] = Top => i = Len(path)
    BY <1>0, <2>2 DEF Shape
  <2>7. ASSUME NEW i \in 1..Len(path), NEW q \in Required(path[i]),
               q.target \in ignored'[path[i]]
        PROVE  q \in todo'[path[i]] /\ \E j \in 1..i : path[j] = q.target
    <3>1. q # r
      BY <2>1, <2>7, RequiredIs
    <3>2. CASE q.target \in ignored[path[i]]
      BY <1>0, <1>p, <2>3, <2>7, <3>1, <3>2 DEF RequiredKept
    <3>3. CASE q.target \notin ignored[path[i]]
      <4>1. path[i] = Top /\ i = Len(path) /\ q.target = r.target
        BY <1>p, <2>3, <2>6, <2>7, <3>3
      <4>2. \E j \in 1..i : path[j] = q.target
        BY <2>1, <4>1 DEF OnPath
      <4> QED
        BY <2>2, <2>3, <2>5, <2>7, <3>1, <4>1, <4>2
    <3> QED
      BY <3>2, <3>3
  <2>8. \A s \in wrappers : ignored'[s] \subseteq wrappers
    BY <1>0, <1>w, <2>2, <2>3, <2>4 DEF RequiredKept
  <2>9. \A s \in wrappers : ~OnPath(s) =>
           \A q \in Required(s) : q.target \notin ignored'[s]
    BY <1>0, <1>w, <2>1, <2>2, <2>3 DEF RequiredKept
  <2> QED
    BY <1>p, <1>w, <2>1, <2>7, <2>8, <2>9 DEF RequiredKept
<1>6. ASSUME NEW r \in Relationship, RequiredCycle(r) PROVE RequiredKept'
  BY <1>6, <1>b DEF RequiredCycle, Visiting, Return
<1>7. CASE Dispatch
  <2>1. /\ UNCHANGED <<wrappers, todo, ignored>> /\ todo[Top] = {}
        /\ phase = "walk" /\ phase' = "walk"
        /\ \A x : Required(x)' = Required(x)
    BY <1>7, SameProject DEF Dispatch
  <2>2. \A q \in Required(Top) : q.target \notin ignored[Top]
    BY <1>0, <1>7, <2>1, DispatchPath DEF RequiredKept
  <2> QED
    BY <1>0, <1>7, <1>p, <2>1, <2>2, DispatchPath DEF RequiredKept
<1>8. CASE WalkDone
  BY <1>8, <1>b DEF WalkDone
<1>9. ASSUME NEW s \in Service, WaitWrapper(s) PROVE RequiredKept'
  BY <1>9, <1>b DEF WaitWrapper
<1>10. CASE WaitDone
  BY <1>10, <1>b DEF WaitDone, Return
<1>11. CASE ReloadCallback
  <2>1. /\ phase = "callback" /\ path = <<>> /\ path' = <<>>
        /\ UNCHANGED <<wrappers, ignored>> /\ wrappers \subseteq keys
    BY <1>0, <1>11 DEF ReloadCallback, Shape
  <2>2. PICK loaded \in SUBSET Service :
           /\ keys' = keys \cup loaded
           /\ reload' = reload \cup loaded
           /\ \A s \in Service \ loaded :
                  config'[s] = config[s] /\ (s \in missing' => s \in missing)
    <3>1. PICK special \in SUBSET Special, edited \in SUBSET Service,
               v \in Versions, m \in MissingChoices :
              /\ keys' = keys \cup (special \cup edited)
              /\ config' = [s \in Service |->
                     IF s \in special \cup edited THEN v[s] ELSE config[s]]
              /\ reload' = reload \cup (special \cup edited)
              /\ missing' = (missing \ (special \cup edited))
                               \cup (m \cap (special \cup edited))
      BY <1>11 DEF ReloadCallback
    <3>2. special \cup edited \in SUBSET Service
      BY ConstantsAssumption
    <3> QED
      BY <3>1, <3>2
  <2>3. ASSUME NEW s \in wrappers, s \notin reload', NEW q \in Required(s)'
        PROVE  q.target \notin ignored[s]
    <3>1. s \in Service \ loaded
      BY <1>w, <2>2, <2>3
    <3>2. q.target \in config[s].links \cup Implied(s)' /\ q.optional = FALSE
      BY <2>2, <2>3, <3>1 DEF Required, Rel
    <3>3. Implied(s)' \cap keys \subseteq Implied(s)
      BY <2>2, <3>1 DEF Implied
    <3>4. SUFFICES ASSUME q.target \in keys PROVE q.target \notin ignored[s]
      BY <1>0, <2>1 DEF RequiredKept
    <3>5. [target |-> q.target, optional |-> FALSE] \in Required(s)
      BY <3>1, <3>2, <3>3, <3>4 DEF Required, Rel
    <3>6. ~OnPath(s)
      BY <2>1 DEF OnPath
    <3> QED
      BY <1>0, <2>1, <3>5, <3>6 DEF RequiredKept
  <2>4. phase' = "restart"
    BY <1>11 DEF ReloadCallback
  <2> QED
    BY <1>0, <2>1, <2>3, <2>4 DEF RequiredKept
<1>12. ASSUME NEW s \in Service, Goroutine(s) PROVE RequiredKept'
  <2>1. /\ UNCHANGED <<wrappers, path, launched, todo, ignored, phase, reload>>
        /\ \A x : OnPath(x)' <=> OnPath(x)
    BY <1>0, <1>12, GoroutineFrame, SamePath
  <2> QED
    BY <1>0, <1>12, <1>p, <1>w, <2>1, GoroutineShrinks DEF RequiredKept
<1>13. CASE UNCHANGED vars
  <2>1. \A x : OnPath(x)' <=> OnPath(x)
    BY <1>13 DEF vars, OnPath
  <2> QED
    BY <1>0, <1>13, <2>1, SameProject DEF vars, RequiredKept
<1> QED
  BY <1>1, <1>2, <1>3, <1>4, <1>5, <1>6, <1>7, <1>8, <1>9, <1>10, <1>11,
     <1>12, <1>13 DEF Next, Main, AllDone

-----------------------------------------------------------------------------
(* Who waits for whom.                                                     *)

\* A step of a goroutine never adds anyone it may have to wait for.
LEMMA GoroutineAwaitsLess ==
    ASSUME TypeOK, NEW s \in Service, Goroutine(s), NEW x \in Service
    PROVE  MayAwait(x)' \subseteq MayAwait(x)
<1>1. Awaited(x)' \subseteq Awaited(x)
  BY GoroutineShrinks
<1>2. gwait'[x] \subseteq gwait[x] \cup Awaited(x)
  <2>1. CASE x # s
    BY <2>1, GoroutineFrame
  <2>2. CASE x = s
    <3> USE DEF TypeOK, routine
    <3>1. CASE BeginExecuted(s)
      BY <2>2, <3>1 DEF BeginExecuted, Done
    <3>2. CASE BeginWait(s)
      BY <2>2, <3>2 DEF BeginWait
    <3>3. CASE BeginAction(s)
      BY <2>2, <3>3 DEF BeginAction
    <3>4. ASSUME NEW t \in Service, WaitDep(s, t) PROVE gwait'[x] \subseteq gwait[x]
      BY <2>2, <3>4 DEF WaitDep, Done
    <3>5. CASE DepsReady(s)
      BY <2>2, <3>5 DEF DepsReady
    <3>6. CASE PullImage(s)
      BY <2>2, <3>6 DEF PullImage, Pull
    <3>7. CASE Finish(s)
      BY <2>2, <3>7 DEF Finish, Done
    <3> QED
      BY <3>1, <3>2, <3>3, <3>4, <3>5, <3>6, <3>7 DEF Goroutine
  <2> QED
    BY <2>1, <2>2
<1> QED
  BY <1>1, <1>2 DEF MayAwait

\* But for a new round and a new dispatch, no step adds to what is waited for.
LEMMA AwaitsLess ==
    ASSUME IInv, [Next]_vars, ~LoadWrappers, ~Dispatch, ~ReloadCallback
    PROVE  /\ Disp' = Disp /\ (InRound' => InRound)
           /\ \A x \in Service : MayAwait(x)' \subseteq MayAwait(x)
<1> USE DEF project, call, walk, wrapper, routine, main
<1>0. TypeOK
  BY DEF IInv
<1> DEFINE Goal == /\ Disp' = Disp /\ (InRound' => InRound)
                   /\ \A x \in Service : MayAwait(x)' \subseteq MayAwait(x)
<1>a. ASSUME UNCHANGED <<keys, config, deps, wrappers, gwait>>, missing' \subseteq missing,
             \A x \in Service : ignored[x] \subseteq ignored'[x]
      PROVE  \A x \in Service : MayAwait(x)' \subseteq MayAwait(x)
  BY <1>a, DependenciesShrink DEF MayAwait, Awaited
<1>2. ASSUME NEW s \in Service, StartRoot(s) PROVE Goal
  BY <1>0, <1>2, <1>a, EnterPath DEF StartRoot, Enter, InRound
<1>3. ASSUME NEW r \in Relationship, SkipDep(r) PROVE Goal
  BY <1>3, <1>a, SamePath DEF SkipDep, InRound
<1>4. ASSUME NEW r \in Relationship, DescendDep(r) PROVE Goal
  BY <1>0, <1>4, <1>a, EnterPath DEF DescendDep, Enter, InRound
<1>5. ASSUME NEW r \in Relationship, IgnoreCycle(r) PROVE Goal
  <2>1. \A x \in Service : ignored[x] \subseteq ignored'[x]
    BY <1>0, <1>5 DEF IgnoreCycle, TypeOK
  <2> QED
    BY <1>5, <1>a, <2>1, CycleShrinks, SamePath DEF IgnoreCycle, Visiting, InRound
<1>6. ASSUME NEW r \in Relationship, RequiredCycle(r) PROVE Goal
  BY <1>6, <1>a, SamePath DEF RequiredCycle, Visiting, InRound
<1>8. CASE WalkDone
  BY <1>8, <1>a, SamePath DEF WalkDone, InRound
<1>9. ASSUME NEW s \in Service, WaitWrapper(s) PROVE Goal
  BY <1>9, <1>a, SamePath DEF WaitWrapper, InRound
<1>10. CASE WaitDone
  BY <1>10, <1>a, SamePath DEF WaitDone, InRound
<1>12. ASSUME NEW s \in Service, Goroutine(s) PROVE Goal
  BY <1>0, <1>12, GoroutineFrame, GoroutineAwaitsLess, SamePath DEF InRound
<1>13. CASE UNCHANGED vars
  BY <1>13, <1>a, SamePath DEF vars, InRound
<1> QED
  BY <1>2, <1>3, <1>4, <1>5, <1>6, <1>8, <1>9, <1>10, <1>12, <1>13
     DEF Next, Main, AllDone

\* A service is dispatched after everyone it may have to wait for.
LEMMA DispatchAwaits ==
    ASSUME IInv, Dispatch
    PROVE  /\ \A x \in Service : MayAwait(x)' = MayAwait(x)
           /\ MayAwait(Top) \subseteq Disp
<1>0. TypeOK /\ Shape /\ Walked /\ Running
  BY DEF IInv
<1>1. \A x \in Service : MayAwait(x)' = MayAwait(x)
  BY SameProject DEF Dispatch, project, MayAwait, Awaited
<1>2. gwait[Top] = {} /\ todo[Top] = {}
  BY <1>0, DispatchPath DEF Running, Dispatch
<1>3. Awaited(Top) \subseteq Disp
  BY <1>0, <1>2, DispatchPath DEF Walked, Awaited
<1> QED
  BY <1>1, <1>2, <1>3 DEF MayAwait

\* Every step keeps this: whoever a dispatched service waits for is dispatched.
LEMMA ClosedNext == ASSUME IInv, [Next]_vars PROVE Closed'
<1>0. TypeOK /\ Closed /\ Disp \subseteq Service
  BY DEF IInv, TypeOK, Disp
<1>1. CASE LoadWrappers
  BY <1>1 DEF LoadWrappers, Closed, Disp
<1>2. CASE Dispatch
  <2>1. InRound
    BY <1>2 DEF Dispatch, InRound
  <2> QED
    BY <1>0, <1>2, <2>1, DispatchPath, DispatchAwaits DEF Closed, IInv
<1>3. CASE ReloadCallback
  BY <1>3 DEF ReloadCallback, Closed, InRound
<1>4. CASE ~LoadWrappers /\ ~Dispatch /\ ~ReloadCallback
  BY <1>0, <1>4, AwaitsLess DEF Closed
<1> QED
  BY <1>1, <1>2, <1>3, <1>4

\* Every step keeps what dispatched services may wait for free of cycles: a
\* service enters the relation after all it may wait for.
LEMMA AcyclicNext == ASSUME IInv, [Next]_vars PROVE Acyclic'
<1>0. TypeOK /\ Shape /\ Closed /\ Acyclic /\ Disp \subseteq Service
  BY DEF IInv, TypeOK, Disp
<1>1. CASE LoadWrappers
  BY <1>1 DEF LoadWrappers, Acyclic, Disp
<1>2. CASE Dispatch
  <2>1. InRound
    BY <1>2 DEF Dispatch, InRound
  <2>2. /\ Disp' = Disp \cup {Top} /\ Top \notin Disp /\ Top \in Service
        /\ MayAwait(Top) \subseteq Disp
        /\ \A x \in Service : MayAwait(x)' = MayAwait(x)
    BY <1>0, <1>2, DispatchPath, DispatchAwaits
  <2>3. ASSUME NEW C \in SUBSET (Disp \cup {Top}), C # {}
        PROVE  \E s \in C : MayAwait(s) \cap C = {}
    <3>1. CASE C = {Top}
      BY <2>2, <3>1
    <3>2. CASE C # {Top}
      <4>1. C \ {Top} \in SUBSET Disp /\ C \ {Top} # {}
        BY <2>3, <3>2
      <4>2. PICK s \in C \ {Top} : MayAwait(s) \cap (C \ {Top}) = {}
        BY <1>0, <2>1, <4>1 DEF Acyclic
      <4>3. MayAwait(s) \subseteq Disp
        BY <1>0, <2>1, <4>1, <4>2 DEF Closed
      <4> QED
        BY <2>2, <4>2, <4>3
    <3> QED
      BY <3>1, <3>2
  <2> QED
    BY <1>0, <2>2, <2>3 DEF Acyclic
<1>3. CASE ReloadCallback
  BY <1>3 DEF ReloadCallback, Acyclic, InRound
<1>4. CASE ~LoadWrappers /\ ~Dispatch /\ ~ReloadCallback
  <2>1. /\ Disp' = Disp /\ (InRound' => InRound)
        /\ \A x \in Service : MayAwait(x)' \subseteq MayAwait(x)
    BY <1>4, AwaitsLess
  <2>2. ASSUME InRound, NEW C \in SUBSET Disp, C # {}
        PROVE  \E s \in C : MayAwait(s)' \cap C = {}
    <3>1. PICK s \in C : MayAwait(s) \cap C = {}
      BY <1>0, <2>2 DEF Acyclic
    <3> QED
      BY <1>0, <2>1, <2>2, <3>1
  <2> QED
    BY <2>1, <2>2 DEF Acyclic
<1> QED
  BY <1>1, <1>2, <1>3, <1>4

-----------------------------------------------------------------------------
(* In which order the services act.                                        *)

\* Everything t has to do before somebody that depends on it may act.
Acted(t) == wstate[t] = "executed" /\ wdone[t] = 0 /\ werr[t] # "restart"

\* Every step keeps this: a service that acts has only such dependencies left
\* that acted, or that it still waits for.
LEMMA OrderedNext == ASSUME IInv, [Next]_vars PROVE Ordered'
<1> USE DEF project, call, walk, wrapper, routine, main
<1>0. /\ TypeOK /\ Shape /\ Running /\ Closed /\ Ordered
      /\ Disp \subseteq Service /\ wrappers \subseteq Service
  BY DEF IInv, TypeOK, Disp
<1>r. ASSUME NEW s \in Service, gpc[s] # "idle"
      PROVE  s \in Disp /\ InRound /\ Awaited(s) \subseteq Disp /\ gwait[s] \subseteq Disp
  <2>1. s \in Disp /\ phase \notin {"callback", "restart"}
    BY <1>0, <1>r DEF Running
  <2>2. InRound
    BY <1>0, <2>1 DEF InRound, TypeOK, Shape, Disp
  <2> QED
    BY <1>0, <2>1, <2>2 DEF Closed, MayAwait
<1>a. ASSUME UNCHANGED <<keys, config, deps, wrappers, op, wstate, werr, wdone, gpc, gwait>>,
             missing' \subseteq missing,
             \A x \in Service : ignored[x] \subseteq ignored'[x]
      PROVE  Ordered'
  <2>1. \A x \in Service : Awaited(x)' \subseteq Awaited(x)
    BY <1>a, DependenciesShrink DEF Awaited
  <2> QED
    BY <1>0, <1>a, <2>1 DEF Ordered, Waits
<1>b. ASSUME \A x \in Service : gpc'[x] = "idle" PROVE Ordered'
  BY <1>b DEF Ordered
<1>1. CASE LoadWrappers
  <2>1. \A x \in Service : gpc[x] = "idle"
    BY <1>0, <1>1 DEF LoadWrappers, Running, Shape, Disp
  <2> QED
    BY <1>1, <1>b, <2>1 DEF LoadWrappers
<1>2. ASSUME NEW s \in Service, StartRoot(s) PROVE Ordered'
  BY <1>2, <1>a DEF StartRoot
<1>3. ASSUME NEW r \in Relationship, SkipDep(r) PROVE Ordered'
  BY <1>3, <1>a DEF SkipDep
<1>4. ASSUME NEW r \in Relationship, DescendDep(r) PROVE Ordered'
  BY <1>4, <1>a DEF DescendDep
<1>5. ASSUME NEW r \in Relationship, IgnoreCycle(r) PROVE Ordered'
  <2>1. \A x \in Service : ignored[x] \subseteq ignored'[x]
    BY <1>0, <1>5 DEF IgnoreCycle, TypeOK
  <2> QED
    BY <1>5, <1>a, <2>1, CycleShrinks DEF IgnoreCycle
<1>6. ASSUME NEW r \in Relationship, RequiredCycle(r) PROVE Ordered'
  BY <1>6, <1>a DEF RequiredCycle
<1>7. CASE Dispatch
  <2>1. /\ \A x \in Service : Awaited(x)' = Awaited(x)
        /\ UNCHANGED <<op, gwait, werr>>
    BY <1>7, SameProject DEF Dispatch, Awaited
  <2>2. \A x \in Service \ {Top} :
           gpc'[x] = gpc[x] /\ wdone'[x] = wdone[x] /\ wstate'[x] = wstate[x]
    BY <1>0, <1>7 DEF Dispatch, TypeOK
  <2>3. Top \notin Disp /\ gpc'[Top] \in {"idle", "begin"} /\ Top \in Service
    BY <1>0, <1>7, DispatchPath DEF Running, Dispatch, TypeOK
  <2>4. ASSUME NEW s \in Service, gpc'[s] \in {"deps", "act"}, Waits,
               NEW t \in Awaited(s) \ gwait[s]
        PROVE  Acted(t)'
    <3>1. s # Top /\ gpc[s] \in {"deps", "act"}
      BY <2>2, <2>3, <2>4
    <3>2. t \in Disp /\ Acted(t)
      BY <1>0, <1>r, <2>4, <3>1 DEF Ordered, Acted
    <3> QED
      BY <1>0, <2>1, <2>2, <2>3, <3>2 DEF Acted
  <2> QED
    BY <2>1, <2>4 DEF Ordered, Acted, Waits
<1>8. CASE WalkDone
  BY <1>8, <1>a DEF WalkDone
<1>9. ASSUME NEW s \in Service, WaitWrapper(s) PROVE Ordered'
  BY <1>9, <1>a DEF WaitWrapper
<1>10. CASE WaitDone
  BY <1>10, <1>a DEF WaitDone
<1>11. CASE ReloadCallback
  BY <1>0, <1>11, <1>b DEF ReloadCallback, Running
<1>12. ASSUME NEW s \in Service, Goroutine(s) PROVE Ordered'
  <2>1. /\ \A x \in Service : Awaited(x)' \subseteq Awaited(x)
        /\ op' = op /\ gpc[s] # "idle" /\ wdone[s] = 1
    BY <1>0, <1>12, GoroutineShrinks, GoroutineFrame DEF Running
  <2>f. \A x \in Service \ {s} :
            /\ gpc'[x] = gpc[x] /\ gwait'[x] = gwait[x]
            /\ wdone'[x] = wdone[x]
            /\ wstate'[x] = wstate[x] /\ werr'[x] = werr[x]
    BY <1>0, <1>12, GoroutineFrame
  <2>k. \A t \in Service : Acted(t) => Acted(t)'
    BY <2>1, <2>f DEF Acted
  <2>r. ASSUME (gpc'[s] \in {"deps", "act"} /\ Waits) =>
                   \A t \in Awaited(s)' \ gwait'[s] : Acted(t)
        PROVE  Ordered'
    <3>1. ASSUME NEW x \in Service, gpc'[x] \in {"deps", "act"}, Waits,
                 NEW t \in Awaited(x)' \ gwait'[x]
          PROVE  Acted(t)'
      <4>1. t \in Service
        BY <1>0, <2>1, <3>1 DEF Awaited
      <4>2. CASE x = s
        BY <2>k, <2>r, <3>1, <4>1, <4>2
      <4>3. CASE x # s
        BY <1>0, <2>1, <2>f, <2>k, <3>1, <4>1, <4>3 DEF Ordered, Acted
      <4> QED
        BY <4>2, <4>3
    <3> QED
      BY <2>1, <3>1 DEF Ordered, Acted, Waits
  <2>o. (gpc[s] \in {"deps", "act"} /\ Waits) =>
            \A t \in Awaited(s) \ gwait[s] : Acted(t)
    BY <1>0 DEF Ordered, Acted
  <2>2. CASE BeginExecuted(s)
    BY <1>0, <2>2, <2>r DEF BeginExecuted, Done, TypeOK
  <2>3. CASE BeginWait(s)
    BY <1>0, <2>1, <2>3, <2>r DEF BeginWait, TypeOK
  <2>4. CASE BeginAction(s)
    BY <2>4, <2>r DEF BeginAction
  <2>5. ASSUME NEW t \in Service, WaitDep(s, t) PROVE Ordered'
    <3>1. CASE werr[t] = "restart"
      BY <1>0, <2>5, <2>r, <3>1 DEF WaitDep, Done, TypeOK
    <3>2. CASE werr[t] # "restart"
      <4>1. t \in Disp /\ wdone[t] = 0
        BY <1>r, <2>1, <2>5 DEF WaitDep
      <4>2. Acted(t)
        BY <1>0, <3>2, <4>1 DEF Running, Acted
      <4>3. gpc[s] = "deps" /\ gwait'[s] = gwait[s] \ {t}
        BY <1>0, <2>5, <3>2 DEF WaitDep, TypeOK
      <4> QED
        BY <2>1, <2>o, <2>r, <4>2, <4>3
    <3> QED
      BY <3>1, <3>2
  <2>6. CASE DepsReady(s)
    BY <2>1, <2>6, <2>o, <2>r DEF DepsReady
  <2>7. CASE PullImage(s)
    BY <2>1, <2>7, <2>o, <2>r DEF PullImage, Pull
  <2>8. CASE Finish(s)
    BY <1>0, <2>8, <2>r DEF Finish, Done, TypeOK
  <2> QED
    BY <1>12, <2>2, <2>3, <2>4, <2>5, <2>6, <2>7, <2>8 DEF Goroutine
<1>13. CASE UNCHANGED vars
  BY <1>13, <1>a DEF vars
<1> QED
  BY <1>1, <1>2, <1>3, <1>4, <1>5, <1>6, <1>7, <1>8, <1>9, <1>10, <1>11,
     <1>12, <1>13 DEF Next, Main, AllDone

-----------------------------------------------------------------------------
(* The theorems.                                                           *)

\* The inductive invariant holds when perform is called.
LEMMA IInvInit == Init => IInv
<1> SUFFICES ASSUME Init PROVE IInv
  OBVIOUS
<1>1. TypeOK
  <2>1. /\ keys \in SUBSET Service /\ reload \in SUBSET Service
        /\ config \in [Service -> Config] /\ missing \in SUBSET Service
        /\ selected \in SUBSET Service /\ edits \in 0..MaxEdits
        /\ op \in Ops
    BY ConstantsAssumption DEF Init
  <2>2. path \in Seq(launched)
    BY DEF Init
  <2>4. /\ launched \in SUBSET wrappers
        /\ wrappers \in SUBSET Service /\ toWait \in SUBSET wrappers
    BY DEF Init
  <2>5. phase = "start" /\ result = "none" /\ restart = FALSE /\ firstError = "nil"
    BY DEF Init
  <2>3. /\ deps \in [Service -> SUBSET Service]
        /\ todo \in [Service -> SUBSET Relationship]
        /\ wstate \in [Service -> {"unknown", "executed"}]
        /\ werr \in [Service -> {"nil", "fail", "restart"}]
        /\ wdone \in [Service -> 0..1]
        /\ ignored \in [Service -> SUBSET Service]
        /\ gpc \in [Service -> {"idle", "begin", "deps", "act"}]
        /\ gwait \in [Service -> SUBSET Service]
    BY DEF Init
  <2> QED
    BY <2>1, <2>2, <2>3, <2>4, <2>5 DEF TypeOK
<1>2. Shape /\ Disp = {} /\ wrappers = {} /\ Len(path) = 0
  BY DEF Init, Shape, Disp
<1>3. Running /\ Collected /\ Failed
  BY <1>2 DEF Init, Running, Collected, Failed
<1>4. RequiredKept /\ Walked
  BY <1>2 DEF RequiredKept, Walked
<1>5. Closed /\ Ordered /\ Acyclic
  BY <1>2 DEF Init, Closed, Ordered, Acyclic
<1> QED
  BY <1>1, <1>2, <1>3, <1>4, <1>5 DEF IInv

\* IInv holds in every state of every behaviour of traverse.
THEOREM Invariance == Spec => []IInv
<1>1. IInv /\ [Next]_vars => IInv'
  BY TypeNext, ShapeNext, RunningNext, CollectedNext, FailedNext,
     RequiredKeptNext, WalkedNext, ClosedNext, OrderedNext, AcyclicNext DEF IInv
<1> QED
  BY IInvInit, <1>1, PTL DEF Spec

\* Type correctness: no WaitGroup of a service wrapper leaves 0..1, so that
\* done.Done() in Do and Ignore never panics and Reset never finds a wrapper
\* that is still at work.
THEOREM TypeCorrect == Spec => []TypeOK
<1>1. IInv => TypeOK
  BY DEF IInv
<1> QED
  BY Invariance, <1>1, PTL

\* Goroutines in waitForDeps never wait on each other in a circle, for every
\* graph of dependencies and every order the walk may take.
THEOREM NoDeadlock == Spec => []NoWaitCycle
<1>1. IInv => NoWaitCycle
  <2> SUFFICES ASSUME IInv, NEW C \in SUBSET Service, C # {}
               PROVE  \E s \in C : WaitsFor(s) \cap C = {}
    BY DEF NoWaitCycle
  <2>1. TypeOK /\ Running /\ Shape /\ Acyclic
    BY DEF IInv
  <2>2. \A s \in C : WaitsFor(s) \subseteq MayAwait(s)
    BY DEF WaitsFor, MayAwait
  <2>3. CASE \E s \in C : gpc[s] = "idle"
    BY <2>1, <2>3 DEF Running, WaitsFor
  <2>4. CASE \A s \in C : gpc[s] # "idle"
    <3>1. C \in SUBSET Disp /\ phase \notin {"callback", "restart"}
      BY <2>1, <2>4 DEF Running
    <3>2. InRound
      BY <2>1, <3>1 DEF InRound, TypeOK, Shape, Disp
    <3>3. PICK s \in C : MayAwait(s) \cap C = {}
      BY <2>1, <3>1, <3>2 DEF Acyclic
    <3> QED
      BY <2>2, <3>3
  <2> QED
    BY <2>3, <2>4
<1> QED
  BY Invariance, <1>1, PTL

\* Whoever is waited for has a goroutine that will call done.Done().
THEOREM WaitsAreServed == Spec => []NoLostWait
<1>1. IInv => NoLostWait
  <2> SUFFICES ASSUME IInv, NEW t \in Service, wdone[t] > 0, gpc[t] = "idle"
               PROVE  /\ ~ \E s \in Service : gpc[s] # "idle" /\ t \in WaitsFor(s)
                      /\ ~ (phase = "wait" /\ t \in toWait)
    BY DEF NoLostWait
  <2>1. TypeOK /\ Running /\ Shape /\ Closed
    BY DEF IInv
  <2>2. t \notin Disp
    BY <2>1 DEF Running, TypeOK, Disp
  <2>3. ASSUME NEW s \in Service, gpc[s] # "idle", t \in WaitsFor(s) PROVE FALSE
    <3>1. s \in Disp /\ phase \notin {"callback", "restart"}
      BY <2>1, <2>3 DEF Running
    <3>2. InRound
      BY <2>1, <3>1 DEF InRound, TypeOK, Shape, Disp
    <3>3. WaitsFor(s) \subseteq MayAwait(s)
      BY DEF WaitsFor, MayAwait
    <3> QED
      BY <2>1, <2>2, <2>3, <3>1, <3>2, <3>3 DEF Closed
  <2>4. ~ (phase = "wait" /\ t \in toWait)
    BY <2>1, <2>2 DEF Shape, TypeOK, Disp, OnPath
  <2> QED
    BY <2>3, <2>4
<1> QED
  BY Invariance, <1>1, PTL

\* Both together: no goroutine of a call, and not the call itself, waits for ever
\* (startService, waitForDeps, traverse).
THEOREM NobodyIsStuck == Spec => []WaitsEnd
<1>1. NoWaitCycle /\ NoLostWait => WaitsEnd
  BY DEF WaitsEnd
<1> QED
  BY NoDeadlock, WaitsAreServed, <1>1, PTL

\* wrapper.Do calls its action after the actions of all the service depends
\* on, required dependencies without exception.
THEOREM ActsInOrder == Spec => []DependencyOrder
<1>1. IInv => DependencyOrder
  <2> SUFFICES ASSUME IInv, NEW s \in Service, gpc[s] = "act", Waits,
                      NEW t \in MustPrecede(s)
               PROVE  wstate[t] = "executed" /\ wdone[t] = 0 /\ werr[t] # "restart"
    BY DEF DependencyOrder
  <2>1. /\ TypeOK /\ Running /\ RequiredKept /\ Ordered
    BY DEF IInv
  <2>2. s \in Disp /\ ~OnPath(s) /\ s \in wrappers /\ gwait[s] = {}
        /\ phase # "restart"
    BY <2>1 DEF Running, Disp, TypeOK
  <2>3. PICK r \in DependentServices(s) :
            r.target = t /\ t \in wrappers /\ (r.optional => t \notin ignored[s])
    BY DEF MustPrecede
  <2>4. ~r.optional => t \notin ignored[s]
    BY <2>1, <2>2, <2>3, RequiredIs DEF RequiredKept
  <2>5. t \in Awaited(s)
    BY <2>3, <2>4 DEF Awaited
  <2> QED
    BY <2>1, <2>2, <2>5 DEF Ordered
<1> QED
  BY Invariance, <1>1, PTL

\* traverse resets wrappers, and reports success, only when no goroutine runs.
THEOREM RoundsAreQuiet == Spec => []QuietRounds
<1>1. IInv => QuietRounds
  BY DEF IInv, Running, QuietRounds
<1> QED
  BY Invariance, <1>1, PTL

\* A call that returns nil has run every selected service without an error.
THEOREM SuccessMeansAll == Spec => []SuccessIsComplete
<1>1. IInv => SuccessIsComplete
  <2> SUFFICES ASSUME IInv, result = "nil"
               PROVE  /\ keys = wrappers /\ selected \subseteq wrappers
                      /\ \A s \in wrappers : isSelected(s) =>
                             wstate[s] = "executed" /\ werr[s] = "nil"
    BY DEF SuccessIsComplete
  <2>1. Shape /\ Collected
    BY DEF IInv
  <2> QED
    BY <2>1 DEF Shape, Collected
<1> QED
  BY Invariance, <1>1, PTL

\* Between two rounds, and within one, no error of a service is forgotten
\* before the service is loaded anew.
THEOREM NoErrorForgotten == Spec => ErrorsKept
<1> DEFINE Kept == \A s \in wrappers :
                      werr[s] = "fail" /\ s \notin reload => werr'[s] = "fail"
<1>1. IInv /\ [Next]_vars => [Kept]_vars
  <2> SUFFICES ASSUME IInv, Next PROVE Kept
    OBVIOUS
  <2>0. /\ TypeOK /\ Shape /\ Running /\ Failed
        /\ wrappers \subseteq Service
    BY DEF IInv, TypeOK
  <2>1. CASE LoadWrappers
    <3>1. wrappers # {} => phase = "restart"
      BY <2>0, <2>1 DEF LoadWrappers, Shape
    <3> QED
      BY <2>0, <2>1, <3>1 DEF LoadWrappers, ResetErr
  <2>2. CASE Main /\ ~LoadWrappers
    BY <2>2, MainKeepsErrors
  <2>3. ASSUME NEW s \in Service, Goroutine(s) PROVE Kept
    BY <2>0, <2>3, GoroutineFails, GoroutineFrame
  <2>4. CASE AllDone
    BY <2>4 DEF AllDone, vars, wrapper
  <2> QED
    BY <2>1, <2>2, <2>3, <2>4 DEF Next
<1> QED
  BY Invariance, <1>1, PTL DEF Spec, ErrorsKept

\* A walk that ends has met no cycle of required dependencies because there
\* is none: cycle detection does not depend on where the walk began.
THEOREM CyclesAreFound == Spec => []RequiredAcyclic
<1>1. IInv => RequiredAcyclic
  <2> SUFFICES ASSUME IInv, phase \in {"wait", "callback"},
                      NEW C \in SUBSET wrappers, C # {}
               PROVE  \E s \in C : RequiredTargets(s) \cap C = {}
    BY DEF RequiredAcyclic
  <2>1. TypeOK /\ Shape /\ RequiredKept /\ Acyclic
    BY DEF IInv
  <2>2. Disp = wrappers /\ InRound /\ \A s : ~OnPath(s)
    BY <2>1 DEF Shape, Disp, OnPath, InRound
  <2>3. PICK s \in C : MayAwait(s) \cap C = {}
    BY <2>1, <2>2 DEF Acyclic
  <2>4. RequiredTargets(s) \subseteq MayAwait(s)
    BY <2>1, <2>2, <2>3, RequiredIs DEF RequiredTargets, RequiredKept, MayAwait, Awaited
  <2> QED
    BY <2>3, <2>4
<1> QED
  BY Invariance, <1>1, PTL

-----------------------------------------------------------------------------
(* ProjectTraverse implements ServiceRounds.                               *)

\* An error is one that an action answered, and what the waiting loop reports is
\* the error of a service.
Blamed ==
    /\ \A s \in Service : s \notin wrappers \/ ~isSelected(s) => werr[s] = "nil"
    /\ phase \in {"walk", "wait"} /\ firstError = "fail" =>
           \E s \in Service : werr[s] = "fail"

\* Every step keeps errors with the services that made them.
LEMMA BlamedNext == ASSUME IInv, Blamed, [Next]_vars PROVE Blamed'
<1> USE DEF project, call, walk, wrapper, routine, main
<1>0. /\ TypeOK /\ Shape /\ Running /\ Failed
      /\ Disp \subseteq wrappers /\ wrappers \subseteq Service
  BY DEF IInv, TypeOK, Disp
<1>1. CASE LoadWrappers
  BY <1>0, <1>1 DEF LoadWrappers, Blamed, ResetErr, isSelected
<1>2. ASSUME UNCHANGED <<wrappers, werr, selected, firstError>>,
             phase' \in {"walk", "wait"} => phase \in {"walk", "wait"}
      PROVE  Blamed'
  BY <1>2 DEF Blamed, isSelected
<1>3. ASSUME NEW s \in Service, WaitWrapper(s) PROVE Blamed'
  BY <1>0, <1>3 DEF WaitWrapper, Blamed, isSelected
<1>4. Main => \/ LoadWrappers \/ \E s \in Service : WaitWrapper(s)
              \/ /\ UNCHANGED <<wrappers, werr, selected, firstError>>
                 /\ phase' \in {"walk", "wait"} => phase \in {"walk", "wait"}
  BY DEF Main, StartRoot, SkipDep, DescendDep, IgnoreCycle, RequiredCycle,
         Visiting, Return, Dispatch, WalkDone, WaitDone, ReloadCallback
<1>5. ASSUME NEW s \in Service, Goroutine(s) PROVE Blamed'
  <2>1. /\ UNCHANGED <<wrappers, selected, firstError, phase>>
        /\ gpc[s] # "idle" /\ \A x \in Service \ {s} : werr'[x] = werr[x]
        /\ werr[s] = "fail" => werr'[s] = "fail"
    BY <1>0, <1>5, GoroutineFrame, GoroutineFails
  <2>2. s \in wrappers /\ isSelected(s)
    BY <1>0, <2>1 DEF Running
  <2> QED
    BY <2>1, <2>2 DEF Blamed, isSelected
<1>6. CASE UNCHANGED vars
  BY <1>2, <1>6 DEF vars
<1> QED
  BY <1>1, <1>2, <1>3, <1>4, <1>5, <1>6 DEF Next, AllDone

\* The mapping gives each service a set of services to come after.
LEMMA NeedsType == ASSUME TypeOK' PROVE RoundNeeds' \in Rounds!Needs
BY DEF TypeOK, RoundNeeds, Rounds!Needs, MustPrecede

\* It changes with the wrappers, their states and their goroutines only, and
\* with what the dependencies are read from.
LEMMA SameRounds ==
    /\ UNCHANGED <<wrappers, wstate, selected, gpc>> => RoundStates' = RoundStates
    /\ UNCHANGED <<keys, config, deps, missing, wrappers, ignored, op>> =>
           RoundNeeds' = RoundNeeds
<1>1. ASSUME UNCHANGED <<wrappers, wstate, selected, gpc>>
      PROVE  RoundStates' = RoundStates
  BY <1>1 DEF RoundStates, isSelected
<1>2. ASSUME UNCHANGED <<keys, config, deps, missing, wrappers, ignored, op>>
      PROVE  RoundNeeds' = RoundNeeds
  <2>1. \A s : MustPrecede(s)' = MustPrecede(s)
    BY <1>2, SameProject DEF MustPrecede
  <2> QED
    BY <1>2, <2>1 DEF RoundNeeds, Waits
<1> QED
  BY <1>1, <1>2

\* Within a round nobody gets more to come after.
LEMMA FewerNeeds ==
    ASSUME UNCHANGED <<keys, config, deps, wrappers, op>>, missing' \subseteq missing,
           \A x \in Service : ignored[x] \subseteq ignored'[x]
    PROVE  \A s \in Service : RoundNeeds'[s] \subseteq RoundNeeds[s]
<1>1. \A s \in Service : MustPrecede(s)' \subseteq MustPrecede(s)
  BY DependenciesShrink DEF MustPrecede
<1> QED
  BY <1>1 DEF RoundNeeds, Waits

\* A service that goroutine or walk moves on is the only one that moves.
LEMMA OneMoves ==
    ASSUME TypeOK, NEW s \in Service, UNCHANGED <<wrappers, selected>>,
           \A x \in Service \ {s} : gpc'[x] = gpc[x] /\ wstate'[x] = wstate[x]
    PROVE  RoundStates' = [RoundStates EXCEPT ![s] = RoundStates'[s]]
BY DEF RoundStates, isSelected

\* The head of traverse begins a round.
LEMMA LoadSimulates ==
    ASSUME IInv, LoadWrappers PROVE \E new \in SUBSET Service : Rounds!Load(new)
<1>0. TypeOK /\ Shape /\ Running /\ TypeOK'
  BY TypeNext DEF IInv, Next, Main
<1> DEFINE list == IF phase = "start" THEN keys ELSE reload
<1>1. list \in SUBSET Service
  BY <1>0 DEF TypeOK
<1>2. /\ wrappers' = wrappers \cup list
      /\ wstate' = [s \in Service |-> IF s \in list THEN "unknown" ELSE wstate[s]]
      /\ werr' = [s \in Service |-> IF s \in list THEN "nil" ELSE ResetErr(werr[s])]
      /\ gpc' = gpc /\ selected' = selected /\ phase \in {"start", "restart"}
      /\ result' \in {result, "nosuch"}
  BY DEF LoadWrappers, routine, call, Return
<1>3. result = "none" /\ \A s \in Service : gpc[s] = "idle"
  BY <1>0, <1>2 DEF Running, Shape, Disp
<1> HIDE DEF list
<1>4. Rounds!Quiet
  BY <1>3 DEF Rounds!Quiet, RoundStates
<1>5. RoundStates' = [s \in Service |-> IF s \in list THEN "pending" ELSE RoundStates[s]]
  BY <1>1, <1>2, <1>3 DEF RoundStates, isSelected
<1>6. werr' = [s \in Service |->
                  IF s \in list \/ werr[s] = "restart" THEN "nil" ELSE werr[s]]
  BY <1>2 DEF ResetErr
<1>7. RoundNeeds' \in Rounds!Needs
  BY <1>0, NeedsType
<1>8. Rounds!Load(list)
  BY <1>2, <1>3, <1>4, <1>5, <1>6, <1>7 DEF Rounds!Load
<1> QED
  BY <1>1, <1>8

\* The other steps of traverse and startService, one kind at a time.
LEMMA MainSimulates ==
    ASSUME IInv, Blamed, Main, ~LoadWrappers
    PROVE  Rounds!RoundsNext \/ UNCHANGED Rounds!rounds
<1> USE DEF project, call, walk, wrapper, routine, Rounds!rounds
<1>0. /\ TypeOK /\ Shape /\ Running /\ Collected /\ wrappers \subseteq Service
      /\ TypeOK' /\ (phase # "returned" => result = "none")
  BY TypeNext DEF IInv, Next, TypeOK, Shape
<1>n. RoundNeeds' \in Rounds!Needs
  BY <1>0, NeedsType
<1>1. ASSUME UNCHANGED <<keys, config, deps, missing, wrappers, ignored, op,
                         wstate, selected, gpc>>
      PROVE  RoundStates' = RoundStates /\ RoundNeeds' = RoundNeeds
  BY <1>1, SameRounds
<1>2. CASE \/ \E s \in Service : StartRoot(s)
           \/ \E r \in Relationship : SkipDep(r) \/ DescendDep(r)
           \/ WalkDone \/ \E s \in Service : WaitWrapper(s)
  BY <1>1, <1>2 DEF StartRoot, SkipDep, DescendDep, WalkDone, WaitWrapper
<1>3. ASSUME NEW r \in Relationship, IgnoreCycle(r) PROVE Rounds!Relax
  <2>1. \A x \in Service : ignored[x] \subseteq ignored'[x]
    BY <1>0, <1>3 DEF IgnoreCycle, TypeOK
  <2>2. \A s \in Service : RoundNeeds'[s] \subseteq RoundNeeds[s]
    BY <1>3, <2>1, CycleShrinks, FewerNeeds DEF IgnoreCycle
  <2>3. RoundStates' = RoundStates
    BY <1>3, SameRounds DEF IgnoreCycle
  <2>4. result' = result \/ (result = "none" /\ result' = "fail")
    BY <1>0, <1>3 DEF IgnoreCycle, Return, Visiting
  <2> QED
    BY <1>3, <1>n, <2>2, <2>3, <2>4 DEF Rounds!Relax, IgnoreCycle
<1>4. ASSUME NEW r \in Relationship, RequiredCycle(r) PROVE Rounds!Fail
  BY <1>0, <1>1, <1>4 DEF RequiredCycle, Return, Visiting, Rounds!Fail
<1>5. CASE Dispatch
  <2>1. Top \in wrappers /\ gpc[Top] = "idle" /\ Top \in Service
    BY <1>0, <1>5, DispatchPath DEF Running, Dispatch, TypeOK
  <2>2. RoundNeeds' = RoundNeeds /\ UNCHANGED <<werr, result>>
    BY <1>5, SameRounds DEF Dispatch
  <2>3. RoundStates' = [RoundStates EXCEPT ![Top] = RoundStates'[Top]]
    BY <1>0, <1>5, <2>1, OneMoves DEF Dispatch, TypeOK
  <2>4. CASE isSelected(Top)
    <3>1. RoundStates'[Top] = RoundStates[Top]
      BY <1>0, <1>5, <2>1, <2>4 DEF Dispatch, RoundStates, TypeOK, isSelected
    <3>2. RoundStates' = RoundStates
      BY <2>1, <2>3, <3>1 DEF RoundStates
    <3> QED
      BY <2>2, <3>2
  <2>5. CASE ~isSelected(Top)
    <3>1. RoundStates'[Top] = "skipped" /\ RoundStates[Top] \in {"pending", "skipped"}
      BY <1>0, <1>5, <2>1, <2>5 DEF Dispatch, RoundStates, TypeOK, isSelected
    <3>2. CASE RoundStates[Top] = "pending"
      BY <2>1, <2>2, <2>3, <3>1, <3>2
         DEF Rounds!RoundsNext, Rounds!Skip, Rounds!Move
    <3>3. CASE RoundStates[Top] = "skipped"
      <4>1. RoundStates' = RoundStates
        BY <2>1, <2>3, <3>1, <3>3 DEF RoundStates
      <4> QED
        BY <2>2, <4>1
    <3> QED
      BY <3>1, <3>2, <3>3
  <2> QED
    BY <2>4, <2>5
<1>6. CASE WaitDone
  <2>1. RoundStates' = RoundStates /\ RoundNeeds' = RoundNeeds /\ werr' = werr
    BY <1>1, <1>6 DEF WaitDone
  <2>2. CASE restart
    BY <1>6, <2>1, <2>2 DEF WaitDone
  <2>3. CASE ~restart
    <3>1. result = "none" /\ result' = firstError /\ phase = "wait" /\ toWait = {}
      BY <1>0, <1>6, <2>3 DEF WaitDone, Return
    <3>2. Disp = wrappers
      BY <1>0, <3>1 DEF Shape, Disp, OnPath
    <3>3. \A s \in Service : gpc[s] = "idle"
      BY <1>0, <3>1, <3>2 DEF Running, Collected, TypeOK
    <3>4. Rounds!Quiet
      BY <3>1, <3>3 DEF Rounds!Quiet, RoundStates
    <3>5. CASE firstError = "fail"
      BY <2>1, <3>1, <3>4, <3>5 DEF Rounds!RoundsNext, Rounds!Fail, Blamed
    <3>6. CASE firstError = "nil"
      <4>1. \A s \in Service : werr[s] = "nil"
        BY <1>0, <2>3, <3>1, <3>6 DEF Collected, Blamed, TypeOK
      <4>2. \A s \in wrappers : wstate[s] = "executed"
        BY <1>0, <3>2, <3>3, <4>1 DEF Running
      <4>3. \A s \in Service : RoundStates[s] \in {"acted", "skipped", "absent"}
        BY <3>3, <4>2 DEF RoundStates
      <4> QED
        BY <2>1, <3>1, <3>4, <3>6, <4>1, <4>3
           DEF Rounds!RoundsNext, Rounds!Succeed, Rounds!Settled
    <3> QED
      BY <1>0, <3>5, <3>6 DEF TypeOK
  <2> QED
    BY <2>2, <2>3
<1>7. CASE ReloadCallback
  <2>1. Rounds!Quiet
    BY <1>0, <1>7 DEF ReloadCallback, Running, Rounds!Quiet, RoundStates
  <2>2. RoundStates' = RoundStates /\ UNCHANGED <<werr, result>>
    BY <1>7, SameRounds DEF ReloadCallback
  <2> QED
    BY <1>n, <2>1, <2>2 DEF Rounds!RoundsNext, Rounds!Reconfigure
<1> QED
  BY <1>2, <1>3, <1>4, <1>5, <1>6, <1>7 DEF Main, Rounds!RoundsNext

\* What a service has to come after, its goroutine waits for: none of it was
\* cut that is required.
LEMMA NeedsAreAwaited ==
    ASSUME IInv, NEW s \in Service, gpc[s] # "idle"
    PROVE  MustPrecede(s) \subseteq Awaited(s)
<1>1. TypeOK /\ Running /\ RequiredKept
  BY DEF IInv
<1>2. ~OnPath(s) /\ s \in wrappers /\ phase # "restart"
  BY <1>1 DEF Running, Disp, TypeOK
<1>3. \A r \in DependentServices(s) : ~r.optional => r.target \notin ignored[s]
  BY <1>1, <1>2, RequiredIs DEF RequiredKept
<1> QED
  BY <1>3 DEF MustPrecede, Awaited

\* A goroutine acts, puts its service off, ends its action or pulls an image;
\* its other steps cannot be seen.
LEMMA GoroutineSimulates ==
    ASSUME IInv, NEW s \in Service, Goroutine(s)
    PROVE  Rounds!RoundsNext \/ UNCHANGED Rounds!rounds
<1> USE DEF project, call, wrapper, routine, main, Rounds!rounds
<1>0. TypeOK /\ Running /\ Failed /\ Ordered /\ TypeOK'
  BY TypeNext DEF IInv, Next
<1>f. /\ UNCHANGED <<keys, config, deps, op, selected, wrappers, ignored, result>>
      /\ missing' \subseteq missing /\ gpc[s] # "idle"
      /\ \A x \in Service \ {s} : /\ gpc'[x] = gpc[x] /\ wstate'[x] = wstate[x]
                                   /\ werr'[x] = werr[x]
  BY <1>0, GoroutineFrame
<1>s. s \in wrappers /\ isSelected(s)
  BY <1>0, <1>f DEF Running, Disp, TypeOK
<1>m. RoundStates' = [RoundStates EXCEPT ![s] = RoundStates'[s]]
  BY <1>0, <1>f, OneMoves
<1>n. ASSUME UNCHANGED missing PROVE RoundNeeds' = RoundNeeds
  BY <1>f, <1>n, SameRounds
<1>u. ASSUME UNCHANGED <<missing, werr>>, RoundStates'[s] = RoundStates[s]
      PROVE  UNCHANGED Rounds!rounds
  <2>1. RoundStates' = RoundStates
    BY <1>m, <1>u DEF RoundStates
  <2> QED
    BY <1>f, <1>n, <1>u, <2>1
<1>a. ASSUME StartAction(s), UNCHANGED <<missing, werr>>, wstate[s] # "executed",
             Waits => gpc[s] = "deps" /\ gwait[s] = {}
      PROVE  Rounds!Act(s)
  <2>1. RoundStates[s] = "pending" /\ RoundStates'[s] = "acting"
    BY <1>0, <1>a, <1>f, <1>s DEF StartAction, RoundStates, TypeOK, isSelected
  <2>2. \A t \in RoundNeeds[s] : Waits /\ t \in Awaited(s)
    BY <1>f, NeedsAreAwaited DEF RoundNeeds
  <2>3. \A t \in RoundNeeds[s] : /\ wstate[t] = "executed" /\ wdone[t] = 0
                                  /\ werr[t] # "restart" /\ t \in wrappers
    BY <1>0, <1>a, <2>2 DEF Ordered, Awaited
  <2>4. \A t \in RoundNeeds[s] : gpc[t] = "idle"
    BY <1>0, <2>3 DEF Running, TypeOK
  <2>5. \A t \in RoundNeeds[s] :
            RoundStates[t] \in Rounds!Settled /\ werr[t] # "restart"
    BY <1>0, <2>3, <2>4 DEF RoundStates, Rounds!Settled, TypeOK
  <2> QED
    BY <1>a, <1>f, <1>m, <1>n, <2>1, <2>5 DEF Rounds!Act, Rounds!Move
<1>1. CASE BeginExecuted(s)
  <2>1. RoundStates'[s] = RoundStates[s]
    BY <1>0, <1>1, <1>f DEF BeginExecuted, Done, RoundStates, TypeOK, isSelected
  <2> QED
    BY <1>1, <1>u, <2>1 DEF BeginExecuted
<1>2. CASE BeginWait(s)
  <2>1. RoundStates'[s] = RoundStates[s]
    BY <1>0, <1>2, <1>f DEF BeginWait, RoundStates, TypeOK, isSelected
  <2> QED
    BY <1>2, <1>u, <2>1 DEF BeginWait
<1>3. CASE BeginAction(s)
  BY <1>3, <1>a DEF BeginAction, Rounds!RoundsNext
<1>4. ASSUME NEW t \in Service, WaitDep(s, t)
      PROVE  Rounds!RoundsNext \/ UNCHANGED Rounds!rounds
  <2>1. wstate'[s] = wstate[s] /\ gpc[s] = "deps" /\ gpc'[s] # "act"
        /\ UNCHANGED missing
    BY <1>0, <1>4 DEF WaitDep, Done, TypeOK
  <2>2. RoundStates'[s] = RoundStates[s]
    BY <1>f, <2>1 DEF RoundStates, isSelected
  <2>3. CASE werr[t] = "restart"
    <3>1. werr' = [werr EXCEPT ![s] = "restart"]
      BY <1>4, <2>3 DEF WaitDep
    <3>2. RoundStates' = RoundStates
      BY <1>m, <2>2 DEF RoundStates
    <3>3. RoundStates[s] = "pending"
      BY <1>0, <1>s, <2>1 DEF Failed, RoundStates
    <3> QED
      BY <1>f, <1>n, <2>1, <2>3, <3>1, <3>2, <3>3
         DEF Rounds!RoundsNext, Rounds!PutOff
  <2>4. CASE werr[t] # "restart"
    BY <1>4, <1>u, <2>1, <2>2, <2>4 DEF WaitDep
  <2> QED
    BY <2>3, <2>4
<1>5. CASE DepsReady(s)
  <2>1. wstate[s] # "executed"
    BY <1>0, <1>5 DEF DepsReady, Failed
  <2> QED
    BY <1>5, <1>a, <2>1 DEF DepsReady, Rounds!RoundsNext
<1>6. CASE PullImage(s)
  <2>1. \A x \in Service : RoundNeeds'[x] \subseteq RoundNeeds[x]
    BY <1>f, FewerNeeds
  <2>2. RoundStates' = RoundStates /\ UNCHANGED werr
    BY <1>6, <1>f, SameRounds DEF PullImage
  <2>3. RoundNeeds' \in Rounds!Needs
    BY <1>0, NeedsType
  <2> QED
    BY <1>f, <2>1, <2>2, <2>3 DEF Rounds!RoundsNext, Rounds!Relax
<1>7. CASE Finish(s)
  <2>1. RoundStates[s] = "acting" /\ RoundStates'[s] = "acted"
    BY <1>0, <1>7, <1>f, <1>s DEF Finish, Done, Running, RoundStates, TypeOK, isSelected
  <2>2. \E e \in {"nil", "fail", "restart"} : werr' = [werr EXCEPT ![s] = e]
    BY <1>7 DEF Finish, Outcomes
  <2> QED
    BY <1>7, <1>f, <1>m, <1>n, <2>1, <2>2
       DEF Finish, Rounds!RoundsNext, Rounds!End, Rounds!Move
<1> QED
  BY <1>1, <1>2, <1>3, <1>4, <1>5, <1>6, <1>7 DEF Goroutine

\* A call of a project is a call as ServiceRounds describes it: however traverse,
\* startService and the goroutines in Do interleave, and however the dependencies
\* look, a service acts once each time it is loaded, after all that it depends
\* on; rounds do not overlap; and nil is answered only when all is done.
THEOREM ImplementsRounds == Spec => ActsInRounds
<1>1. Init => Rounds!RoundsInit /\ Blamed
  BY DEF Init, Rounds!RoundsInit, Blamed, RoundStates, RoundNeeds, MustPrecede
<1>2. IInv /\ Blamed /\ [Next]_vars => Blamed'
  BY BlamedNext
<1>3. IInv /\ Blamed /\ [Next]_vars => [Rounds!RoundsNext]_Rounds!rounds
  <2> SUFFICES ASSUME IInv, Blamed, [Next]_vars
               PROVE  Rounds!RoundsNext \/ UNCHANGED Rounds!rounds
    OBVIOUS
  <2>1. CASE LoadWrappers
    BY <2>1, LoadSimulates DEF Rounds!RoundsNext
  <2>2. CASE Main /\ ~LoadWrappers
    BY <2>2, MainSimulates
  <2>3. ASSUME NEW s \in Service, Goroutine(s)
        PROVE  Rounds!RoundsNext \/ UNCHANGED Rounds!rounds
    BY <2>3, GoroutineSimulates
  <2>4. CASE UNCHANGED vars
    BY <2>4, SameRounds DEF vars, project, call, wrapper, routine, Rounds!rounds
  <2> QED
    BY <2>1, <2>2, <2>3, <2>4 DEF Next, AllDone
<1> QED
  BY Invariance, <1>1, <1>2, <1>3, PTL DEF Spec, ActsInRounds, Rounds!RoundsSpec
=============================================================================
