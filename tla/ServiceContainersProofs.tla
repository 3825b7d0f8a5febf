---------------------- MODULE ServiceContainersProofs ----------------------
(***************************************************************************)
(* What create, up and the other operations promise about the containers   *)
(* of a service, for every set of configurations and services and however  *)
(* many containers, calls and crashes there are.  In IInv, Control says    *)
(* which goroutines run in which operation; Ids and Kept are about the     *)
(* containers while they are recreated in parallel: a goroutine that is    *)
(* about to remove the old container has a new one which no other takes    *)
(* away.  Synced and Single lead to SyncedOnSuccess and OneContainer.      *)
(***************************************************************************)
EXTENDS ServiceContainers, FiniteSetTheorems, SequenceTheorems, WellFoundedInduction, TLAPS

Steps == {"look", "rename", "create", "remove", "start", "stop", "restart", "kill",
          "delete"}

\* A container, a goroutine: the names are what todo holds, of any type.
IsBox(b) ==
    /\ b = [id |-> b.id, name |-> b.name, version |-> b.version, up |-> b.up]
    /\ b.id \in 1..created /\ b.version \in Version /\ b.up \in BOOLEAN
IsJob(j) ==
    /\ j = [name |-> j.name, step |-> j.step, old |-> j.old]
    /\ j.step \in Steps /\ j.old \in 0..created

BoxTypes == \A b \in boxes : IsBox(b)
JobTypes == \A j \in jobs : IsJob(j)
CallTypes ==
    /\ created \in Nat /\ service \in Services /\ version \in Version
    /\ pc \in {"idle", "create", "up", "each", "creating", "starting", "waiting", "check",
               "rebuild"}
    /\ op \in {"up", "create", "start", "stop", "restart", "kill", "delete"}
    /\ recreate \in {"default", "never", "force"}
    /\ result \in {"none", "nil", "fail", "crash"}
    /\ calls \in Nat /\ crashes \in Nat
Flags == pool \in BOOLEAN /\ lost \in BOOLEAN /\ clean \in BOOLEAN

\* The containers, the goroutines and the calls are what they should be.
TypeOK == BoxTypes /\ JobTypes /\ CallTypes /\ Flags

Upping == {"create", "creating", "check", "rebuild", "up", "starting"}

\* The goroutines do what the operation is about.
Control ==
    /\ pc \in Upping => op \in {"up", "create"}
    /\ pc \in {"each", "waiting"} => op \notin {"up", "create"}
    /\ pc \in {"idle", "create", "each", "check", "up"} => jobs = {}
    /\ pc \in {"create", "each", "check", "up", "rebuild"} => ~pool
    /\ \A j \in jobs : /\ pc \in {"creating", "starting", "rebuild"} =>
                             j.step \in {"look", "rename", "create", "remove", "start"}
                       /\ pc \in {"waiting"} => j.step = op
                       /\ pc = "creating" => j.step # "start"
                       /\ pc = "rebuild" => j.step \in {"rename", "create", "remove"}
    /\ pc = "rebuild" => \A j, k \in jobs : j = k
    /\ result # "none" => pc = "idle"

\* Containers have IDs of their own, and goroutines names of their own.
Ids ==
    /\ \A b, c \in boxes : b.id = c.id => b = c
    /\ \A j, k \in jobs : j.name = k.name => j = k

\* The new container of a goroutine is not the old one of any other.
Kept ==
    /\ \A j \in jobs : j.step = "remove" =>
          \E b \in boxes : b.name = j.name /\ \A k \in jobs : k.old # b.id
    /\ pc \in Upping \ {"create"} => boxes # {}
    /\ result = "nil" /\ op \in {"up", "create"} => boxes # {}

\* While Create recreates, a goroutine takes care of each container that is out
\* of date; after that there is none.
Covers(j, b) == \/ b.name = j.name /\ j.step \in {"look", "rename", "create"}
                \/ b.id = j.old /\ j.step \in {"create", "remove"}
Covered(b) == \E j \in jobs : Covers(j, b)
Synced ==
    op \in {"up", "create"} /\ recreate # "never" /\ ~lost =>
        /\ pc = "creating" /\ ~pool => \A b \in boxes : OutOfSync(b) => Covered(b)
        /\ pc \in {"check", "rebuild", "up", "starting"} \/ result = "nil" =>
              \A b \in boxes : ~OutOfSync(b)

\* There is one container at most; it has the service's own name.
One == \A b, c \in boxes : b.id = c.id
Plain == One /\ \A b \in boxes : b.name = <<>>
Single ==
    /\ pc = "idle" /\ clean => Plain
    /\ pc # "idle" /\ clean /\ ~lost /\ ~pool =>
          /\ jobs = {} /\ pc # "rebuild" => Plain
          /\ jobs = {} /\ pc = "rebuild" =>
                One /\ (todo # <<>> => Plain /\ Head(todo) = <<>> /\ Tail(todo) = <<>>)
          /\ \A j \in jobs :
                /\ jobs = {j} /\ j.name = <<>>
                /\ pc = "rebuild" => todo = <<>>
                /\ j.step \notin {"create", "remove"} => Plain
                /\ j.step = "create" => \A b \in boxes : b.id = j.old
                /\ j.step = "remove" =>
                      /\ \A b \in boxes : b.id = j.old \/ b.name = <<>>
                      /\ \A b, c \in boxes : b.id # j.old /\ c.id # j.old => b.id = c.id

IInv == TypeOK /\ Control /\ Ids /\ Kept /\ Synced /\ Single


-----------------------------------------------------------------------------
(* Calls, and the steps between two goroutines.                            *)

\* Begin leaves the containers alone.
LEMMA BeginInv == IInv /\ Begin => IInv'
<1> SUFFICES ASSUME IInv, Begin PROVE IInv'
  OBVIOUS
<1> USE DEF IInv, TypeOK, Begin, daemon, Upping
<1>1. BoxTypes' /\ JobTypes'
  BY DEF BoxTypes, JobTypes, IsBox
<1>2. CallTypes' /\ Flags'
  <2>1. op' \in {"up", "create", "start", "stop", "restart", "kill", "delete"}
    BY ServiceAssumption
  <2>2. recreate' \in {"default", "never", "force"}
    BY ServiceAssumption
  <2>3. CallTypes'
    BY <2>1, <2>2 DEF CallTypes
  <2>4. Flags'
    BY DEF Flags
  <2> QED
    BY <2>3, <2>4
<1>3. Control' /\ Ids' /\ Kept'
  BY ServiceAssumption DEF Control, Ids, Kept
<1>4. Synced' /\ Single'
  BY DEF Synced, Single, Plain, One
<1> QED
  BY <1>1, <1>2, <1>3, <1>4

\* The containers are the ones there were, running or not.
SameBoxes ==
    /\ created' = created /\ BoxTypes'
    /\ \A c, d \in boxes' : c.id = d.id => c = d
    /\ \A c \in boxes' : \E b \in boxes :
          b.id = c.id /\ b.name = c.name /\ b.version = c.version
    /\ \A b \in boxes : \E c \in boxes' :
          b.id = c.id /\ b.name = c.name /\ b.version = c.version

\* To set whether each container runs gives the same containers.
LEMMA SwitchedSame ==
  ASSUME IInv, created' = created, NEW ups, ups \in [boxes -> BOOLEAN],
         boxes' = {[b EXCEPT !.up = ups[b]] : b \in boxes}
  PROVE  SameBoxes
<1> USE DEF IInv, TypeOK
<1> DEFINE New(b) == [id |-> b.id, name |-> b.name, version |-> b.version, up |-> ups[b]]
<1>1. ASSUME NEW b \in boxes PROVE [b EXCEPT !.up = ups[b]] = New(b) /\ IsBox(b)
  BY DEF BoxTypes, IsBox
<1>2. \A c \in boxes' : \E b \in boxes : c = New(b)
  BY <1>1
<1>3. \A b \in boxes : New(b) \in boxes'
  BY <1>1
<1>4. ASSUME NEW c \in boxes' PROVE IsBox(c)'
  <2>1. PICK b \in boxes : c = New(b)
    BY <1>2
  <2>2. ups[b] \in BOOLEAN
    OBVIOUS
  <2>3. c.up \in BOOLEAN
    BY <2>1, <2>2
  <2> QED
    BY <1>1, <2>1, <2>3 DEF IsBox
<1>5. \A c, d \in boxes' : c.id = d.id => c = d
  BY <1>2 DEF Ids
<1>6. \A c \in boxes' : \E b \in boxes :
         b.id = c.id /\ b.name = c.name /\ b.version = c.version
  BY <1>2
<1>7. \A b \in boxes : \E c \in boxes' :
         b.id = c.id /\ b.name = c.name /\ b.version = c.version
  BY <1>3
<1> QED
  BY <1>4, <1>5, <1>6, <1>7 DEF SameBoxes, BoxTypes

\* A crash leaves every container, running or not.
LEMMA CrashInv == IInv /\ Crash => IInv'
<1> SUFFICES ASSUME IInv, Crash PROVE IInv'
  OBVIOUS
<1> USE DEF IInv, TypeOK, Upping, Return, config
<1>1. JobTypes' /\ created' = created /\ pc' = "idle" /\ result' = "crash" /\ jobs' = {}
  BY DEF JobTypes, Crash
<1>2. SameBoxes
  <2>1. PICK again \in BOOLEAN : boxes' = {[b EXCEPT !.up = @ /\ again] : b \in boxes}
    BY DEF Crash
  <2> DEFINE ups == [b \in boxes |-> b.up /\ again]
  <2>2. ups \in [boxes -> BOOLEAN]
    OBVIOUS
  <2>3. boxes' = {[b EXCEPT !.up = ups[b]] : b \in boxes}
    BY <2>1
  <2> HIDE DEF ups
  <2> QED
    BY <1>1, <2>2, <2>3, SwitchedSame
<1>3. CallTypes' /\ Flags'
  <2>1. CallTypes'
    BY DEF CallTypes, Crash
  <2>2. Flags'
    BY DEF Flags, Crash
  <2> QED
    BY <2>1, <2>2
<1>4. Control'
  BY DEF Control, Crash
<1>5. Ids'
  BY <1>1, <1>2 DEF Ids, SameBoxes
<1>6. Kept' /\ Synced' /\ Single'
  BY DEF Synced, Single, Kept, Crash, CallTypes
<1> QED
  BY <1>1, <1>2, <1>3, <1>4, <1>5, <1>6 DEF SameBoxes

\* The container that is created is a new one, of the configuration there is.
LEMMA CreatedNew ==
  ASSUME IInv, NEW n, CreateContainer(n)
  PROVE  /\ BoxTypes' /\ created' \in Nat /\ created' = created + 1
         /\ \A b \in boxes : b.name # n
         /\ \A b, c \in boxes' : b.id = c.id => b = c
         /\ \E b \in boxes' : /\ b.id = created' /\ b.name = n /\ b.version = version
                              /\ boxes' = boxes \cup {b} /\ b \notin boxes
<1> USE DEF IInv, TypeOK
<1>1. PICK new : new = [id |-> created', name |-> n, version |-> version, up |-> FALSE]
  OBVIOUS
<1>2. created' = created + 1 /\ created \in Nat /\ boxes' = boxes \cup {new}
  BY <1>1 DEF CreateContainer, CallTypes
<1>3. IsBox(new)' /\ new.id = created' /\ new.name = n /\ new.version = version
  <2>1. new = [id |-> new.id, name |-> new.name, version |-> new.version, up |-> new.up]
    BY <1>1, Zenon
  <2>2. new.id = created' /\ new.version = version /\ new.name = n
    BY <1>1
  <2>3. new.up \in BOOLEAN
    BY <1>1
  <2>4. new.id \in 1..created'
    BY <1>2, <2>2
  <2> QED
    BY <2>1, <2>2, <2>3, <2>4 DEF IsBox, CallTypes
<1>4. ASSUME NEW b \in boxes PROVE IsBox(b)' /\ b.id # created' /\ IsBox(b)
  BY <1>2 DEF BoxTypes, IsBox
<1>5. BoxTypes'
  BY <1>2, <1>3, <1>4 DEF BoxTypes
<1>6. \A b, c \in boxes' : b.id = c.id => b = c
  BY <1>2, <1>3, <1>4 DEF Ids
<1>7. \A b \in boxes : b.name # n
  BY DEF CreateContainer, Named
<1> QED
  BY <1>2, <1>3, <1>4, <1>5, <1>6, <1>7

\* The first container of a service.
LEMMA CreateOneInv == IInv /\ CreateOne => IInv'
<1> SUFFICES ASSUME IInv, CreateOne PROVE IInv'
  OBVIOUS
<1> USE DEF IInv, TypeOK, CreateOne, CreateContainer, CreateFails, Created, Upping, Return,
            config, daemon, call, outcome
<1>1. BoxTypes' /\ JobTypes'
  <2>1. BoxTypes'
    BY CreatedNew DEF BoxTypes, IsBox
  <2>2. JobTypes'
    BY DEF JobTypes, Control
  <2> QED
    BY <2>1, <2>2
<1>2. CallTypes' /\ Flags'
  <2>1. CallTypes'
    BY DEF CallTypes
  <2>2. Flags'
    BY DEF Flags
  <2> QED
    BY <2>1, <2>2
<1>3. Control'
  BY DEF Control
<1>4. Ids' /\ Kept'
  BY DEF Ids, CallTypes, Kept, Control
<1>5. Synced'
  BY DEF Synced, OutOfSync, Control
<1>6. Single'
  BY DEF Synced, Single, Plain, One, CallTypes, Kept, Control
<1> QED
  BY <1>1, <1>2, <1>3, <1>4, <1>5, <1>6

\* One goroutine for each name there is.
LEMMA EachContainerInv == IInv /\ EachContainer => IInv'
<1> SUFFICES ASSUME IInv, EachContainer PROVE IInv'
  OBVIOUS
<1> USE DEF IInv, TypeOK, EachContainer, FirstStep, Upping, Return, config, daemon, call, outcome
<1>1. BoxTypes'
  BY DEF BoxTypes, IsBox
<1>2. JobTypes'
  BY DEF JobTypes, IsJob, Steps, Control, CallTypes
<1>3. CallTypes' /\ Flags'
  <2>1. CallTypes'
    BY DEF CallTypes
  <2>2. Flags'
    BY DEF Flags
  <2> QED
    BY <2>1, <2>2
<1>4. Control'
  BY DEF Control, CallTypes
<1>5. Ids' /\ Kept'
  BY DEF Ids, CallTypes, BoxTypes, IsBox, Kept, Control
<1>6. ASSUME pc' = "creating", NEW b \in boxes' PROVE Covered(b)'
  <2> DEFINE j == [name |-> b.name, step |-> "look", old |-> 0]
  <2>1. j \in jobs'
    BY <1>6 DEF CallTypes, Control
  <2>2. b.name = j.name /\ j.step = "look"
    OBVIOUS
  <2> QED
    BY <2>1, <2>2 DEF Covered, Covers
<1>7. Synced'
  BY <1>6 DEF Synced, OutOfSync, Control
<1>8. Single'
  BY DEF Single, Plain, One, CallTypes, Flags, Control
<1> QED
  BY <1>1, <1>2, <1>3, <1>4, <1>5, <1>7, <1>8

\* The garbage collector, and the end of the goroutines.
LEMMA JoinInv == IInv /\ (Collect \/ Join) => IInv'
<1> SUFFICES ASSUME IInv, Collect \/ Join PROVE IInv'
  OBVIOUS
<1> USE DEF IInv, TypeOK, Collect, Join, Created, Upping, Return, config, daemon, call, outcome
<1>1. BoxTypes' /\ JobTypes'
  BY DEF BoxTypes, JobTypes, IsBox, IsJob
<1>2. CallTypes' /\ Flags'
  <2>1. CallTypes'
    BY DEF CallTypes
  <2>2. Flags'
    BY DEF Flags
  <2> QED
    BY <2>1, <2>2
<1>3. Control'
  BY DEF Control
<1>4. Ids' /\ Kept'
  BY DEF Ids, Kept, Control, CallTypes
<1>5. Synced'
  BY DEF Synced, OutOfSync, Control, Covered, Covers
<1>6. Single'
  BY DEF Single, Plain, One, CallTypes, Control
<1> QED
  BY <1>1, <1>2, <1>3, <1>4, <1>5, <1>6

-----------------------------------------------------------------------------
(* The goroutines.                                                         *)

\* A goroutine that fails leaves the containers alone, and its error in the
\* pool; a rebuild ends.
LEMMA FailInv ==
  ASSUME IInv, NEW j \in jobs, Fail(j), UNCHANGED <<daemon, config, call, todo>>
  PROVE  IInv'
<1> USE DEF IInv, TypeOK, Fail, End, Upping, Return, config, daemon, call, outcome
<1>1. BoxTypes' /\ JobTypes'
  BY DEF BoxTypes, JobTypes, IsBox, IsJob
<1>2. CallTypes'
  BY DEF CallTypes
<1>3. Flags'
  BY DEF Flags
<1>4. Control'
  BY DEF Control
<1>5. Ids' /\ Kept'
  BY DEF Ids, Kept, Control, CallTypes
<1>6. Synced'
  BY DEF Synced, OutOfSync, Control
<1>7. Single'
  BY DEF Single, Control
<1> QED
  BY <1>1, <1>2, <1>3, <1>4, <1>5, <1>6, <1>7

\* A goroutine that ends, having switched its container on or off at most,
\* leaves no container out of date that only it covered.
LEMMA EndInv ==
  ASSUME IInv, NEW j \in jobs, End(j), Same, SameBoxes, UNCHANGED <<config, call, todo>>,
         pc = "creating" /\ recreate # "never" =>
            \A b \in boxes : OutOfSync(b) => ~Covers(j, b),
         j.step \in {"create", "remove"} => pc = "rebuild" /\ j.step = "create"
  PROVE  IInv'
<1> USE DEF IInv, TypeOK, End, Same, Upping, config, call, outcome
<1>1. BoxTypes' /\ JobTypes'
  BY DEF SameBoxes, JobTypes, IsJob
<1>2. CallTypes' /\ Flags'
  <2>1. CallTypes'
    BY DEF CallTypes, SameBoxes
  <2>2. Flags'
    BY DEF Flags
  <2> QED
    BY <2>1, <2>2
<1>3. Control'
  BY DEF Control
<1>4. Ids'
  BY DEF Ids, SameBoxes
<1>5. Kept'
  BY DEF Kept, SameBoxes
<1>6. Synced'
  <2>1. ASSUME pc = "creating", recreate # "never", NEW c \in boxes', OutOfSync(c)',
               \A b \in boxes : OutOfSync(b) => Covered(b)
        PROVE  Covered(c)'
    <3>1. PICK b \in boxes : b.id = c.id /\ b.name = c.name /\ b.version = c.version
      BY DEF SameBoxes
    <3>2. PICK k \in jobs : Covers(k, b)
      BY <2>1, <3>1 DEF OutOfSync, Covered
    <3>3. k \in jobs'
      BY <2>1, <3>1, <3>2 DEF OutOfSync
    <3> QED
      BY <3>1, <3>2, <3>3 DEF Covered, Covers
  <2>2. ASSUME \A b \in boxes : ~OutOfSync(b) PROVE \A c \in boxes' : ~OutOfSync(c)'
    BY <2>2 DEF OutOfSync, SameBoxes
  <2> QED
    BY <2>1, <2>2 DEF Synced
<1>7. ASSUME One PROVE One'
  BY <1>7 DEF One, SameBoxes
<1>8. ASSUME Plain PROVE Plain'
  BY <1>7, <1>8 DEF Plain, SameBoxes
<1>9. ASSUME \A b \in boxes : b.id = j.old PROVE One
  BY <1>9 DEF One
<1>10. Single'
  BY <1>7, <1>8, <1>9 DEF Single, Control, Plain
<1> QED
  BY <1>1, <1>2, <1>3, <1>4, <1>5, <1>6, <1>10

\* recreateIfNeeded goes on to recreate the container, or to start it.
LEMMA LookInv == ASSUME IInv, NEW j \in jobs, Look(j) PROVE IInv'
<1> USE DEF IInv, TypeOK, Upping
<1>1. UNCHANGED <<daemon, config, call, todo>> /\ j.step = "look"
  BY DEF Look
<1>2. SameBoxes
  BY <1>1 DEF SameBoxes, daemon, BoxTypes, IsBox, Ids
<1>3. CASE Fail(j)
  BY <1>1, <1>3, FailInv
<1>4. CASE End(j) /\ Same /\ pc # "starting" /\ recreate # "force"
                  /\ (recreate = "default" => \A b \in Named(j.name) : ~OutOfSync(b))
  <2>1. \A b \in boxes : OutOfSync(b) /\ recreate # "never" => ~Covers(j, b)
    BY <1>1, <1>4 DEF Named, Covers, CallTypes
  <2> QED
    BY <1>1, <1>2, <1>4, <2>1, EndInv
<1>5. ASSUME NEW st \in {"rename", "start"}, Goto(j, st), Same,
             st = "start" => pc = "starting"
      PROVE  IInv'
  <2>2. PICK k : k = [j EXCEPT !.step = st]
    OBVIOUS
  <2>3. IsJob(k) /\ k.name = j.name /\ k.old = j.old /\ k.step = st
    BY <2>2 DEF JobTypes, IsJob, Steps
  <2>4. jobs' = (jobs \ {j}) \cup {k}
    BY <1>5, <2>2 DEF Goto
  <2> USE DEF Same, daemon, config, call, outcome
  <2>5. BoxTypes' /\ JobTypes' /\ CallTypes' /\ Flags'
    <3>1. BoxTypes'
      BY <1>1 DEF BoxTypes, IsBox
    <3>2. JobTypes'
      BY <1>1, <2>3, <2>4 DEF JobTypes, IsJob
    <3>3. CallTypes'
      BY <1>1, <1>5 DEF CallTypes
    <3>4. Flags'
      BY <1>1, <1>5 DEF Flags
    <3> QED
      BY <3>1, <3>2, <3>3, <3>4
  <2>6. Control'
    <3>1. pc \in {"creating", "starting", "rebuild"} /\ (pc = "creating" => st # "start")
      BY <1>1, <1>5 DEF Control, CallTypes
    <3>2. pc = "rebuild" => jobs' = {k}
      BY <2>4 DEF Control
    <3> QED
      BY <1>1, <1>5, <2>3, <2>4, <3>1, <3>2 DEF Control
  <2>7. Ids'
    BY <1>1, <2>3, <2>4 DEF Ids
  <2>8. Kept'
    BY <1>1, <1>5, <2>3, <2>4 DEF Kept
  <2>9. Synced'
    <3>1. ASSUME pc = "creating", NEW b \in boxes, Covered(b) PROVE Covered(b)'
      BY <1>1, <1>5, <2>3, <2>4, <3>1 DEF Covered, Covers
    <3> QED
      BY <1>1, <1>5, <3>1 DEF Synced, OutOfSync
  <2>10. Single'
    BY <1>1, <1>5, <2>3, <2>4 DEF Single, Plain, One
  <2> QED
    BY <2>5, <2>6, <2>7, <2>8, <2>9, <2>10
<1> QED
  BY <1>3, <1>4, <1>5 DEF Look, Ready, CallTypes


\* Recreate renames the old container: it has its ID still, and the goroutine
\* remembers that.
LEMMA RecreateRenameInv == ASSUME IInv, NEW j \in jobs, RecreateRename(j) PROVE IInv'
<1> USE DEF IInv, TypeOK, Upping
<1>1. UNCHANGED <<created, config, call, todo>> /\ j.step = "rename"
  BY DEF RecreateRename
<1>2. CASE Fail(j) /\ UNCHANGED boxes
  BY <1>1, <1>2, FailInv DEF daemon
<1>3. ASSUME NEW b \in Named(j.name), Same,
             boxes' = (boxes \ {b}) \cup {[b EXCEPT !.name = Append(@, b.id)]},
             jobs' = (jobs \ {j}) \cup {[j EXCEPT !.step = "create", !.old = b.id]}
      PROVE  IInv'
  <2>1. PICK c : c = [b EXCEPT !.name = Append(@, b.id)]
    OBVIOUS
  <2>2. PICK k : k = [j EXCEPT !.step = "create", !.old = b.id]
    OBVIOUS
  <2>3. boxes' = (boxes \ {b}) \cup {c} /\ jobs' = (jobs \ {j}) \cup {k}
    BY <1>3, <2>1, <2>2
  <2>4. b \in boxes /\ b.name = j.name
    BY DEF Named
  <2>5. IsBox(c) /\ c.id = b.id /\ c.version = b.version
    <3>1. IsBox(b)
      BY <2>4 DEF BoxTypes
    <3>2. c = [id |-> b.id, name |-> Append(b.name, b.id), version |-> b.version, up |-> b.up]
      BY <2>1, <3>1 DEF IsBox
    <3>3. c.id = b.id /\ c.version = b.version /\ c.up = b.up
      BY <3>2
    <3>4. c = [id |-> c.id, name |-> c.name, version |-> c.version, up |-> c.up]
      BY <3>2, Zenon
    <3> QED
      BY <3>1, <3>3, <3>4 DEF IsBox
  <2>6. IsJob(k) /\ k.name = j.name /\ k.old = b.id /\ k.step = "create"
    <3>1. IsBox(b) /\ IsJob(j)
      BY <2>4 DEF BoxTypes, JobTypes
    <3>2. k = [name |-> j.name, step |-> "create", old |-> b.id]
      BY <2>2, <3>1 DEF IsJob
    <3>3. k.name = j.name /\ k.step = "create" /\ k.old = b.id
      BY <3>2
    <3>4. b.id \in 0..created
      BY <3>1 DEF IsBox, CallTypes
    <3>5. k = [name |-> k.name, step |-> k.step, old |-> k.old]
      BY <3>2, Zenon
    <3> QED
      BY <3>3, <3>4, <3>5 DEF IsJob, Steps
  <2> USE DEF Same, config, call, outcome
  <2>7. BoxTypes' /\ JobTypes' /\ CallTypes' /\ Flags'
    <3>1. BoxTypes'
      BY <1>1, <2>3, <2>5 DEF BoxTypes, IsBox
    <3>2. JobTypes'
      BY <1>1, <2>3, <2>6 DEF JobTypes, IsJob
    <3>3. CallTypes'
      BY <1>1, <1>3 DEF CallTypes
    <3>4. Flags'
      BY <1>1, <1>3 DEF Flags
    <3> QED
      BY <3>1, <3>2, <3>3, <3>4
  <2>8. Control'
    <3>1. pc \in {"creating", "starting", "rebuild"}
      BY <1>1 DEF Control, CallTypes
    <3>2. pc = "rebuild" => jobs' = {k}
      BY <2>3 DEF Control
    <3> QED
      BY <1>1, <1>3, <2>3, <2>6, <3>1, <3>2 DEF Control
  <2>9. Ids'
    <3>1. \A x, y \in boxes' : x.id = y.id => x = y
      BY <2>3, <2>4, <2>5 DEF Ids
    <3>2. \A x, y \in jobs' : x.name = y.name => x = y
      BY <2>3, <2>6 DEF Ids
    <3> QED
      BY <3>1, <3>2 DEF Ids
  <2>10. Kept'
    <3>1. ASSUME NEW x \in jobs', x.step = "remove"
          PROVE  \E w \in boxes' : w.name = x.name /\ \A y \in jobs' : y.old # w.id
      <4>1. x \in jobs /\ x.name # j.name
        BY <1>1, <2>3, <2>6, <3>1 DEF Ids
      <4>2. PICK w \in boxes : w.name = x.name /\ \A y \in jobs : y.old # w.id
        BY <3>1, <4>1 DEF Kept
      <4>3. w # b /\ w.id # b.id
        BY <2>4, <4>1, <4>2 DEF Ids
      <4>4. w \in boxes' /\ \A y \in jobs' : y.old # w.id
        BY <2>3, <2>6, <4>2, <4>3
      <4> QED
        BY <4>2, <4>4
    <3>2. boxes' # {}
      BY <2>3
    <3> QED
      BY <3>1, <3>2 DEF Kept
  <2>11. Synced'
    <3>1. ASSUME NEW x \in boxes', \A y \in boxes : OutOfSync(y) => Covered(y), OutOfSync(x)'
          PROVE  Covered(x)'
      <4>1. CASE x = c
        BY <2>3, <2>5, <2>6, <4>1 DEF Covered, Covers
      <4>2. CASE x # c
        <5>1. x \in boxes /\ OutOfSync(x)
          BY <1>1, <2>3, <3>1, <4>2 DEF OutOfSync
        <5>2. PICK y \in jobs : Covers(y, x)
          BY <3>1, <5>1 DEF Covered
        <5>3. CASE y = j
          BY <1>1, <2>3, <2>6, <5>2, <5>3 DEF Covered, Covers
        <5>4. CASE y # j
          BY <2>3, <5>2, <5>4 DEF Covered
        <5> QED
          BY <5>3, <5>4
      <4> QED
        BY <4>1, <4>2
    <3>2. ASSUME \A y \in boxes : ~OutOfSync(y) PROVE \A x \in boxes' : ~OutOfSync(x)'
      BY <1>1, <2>3, <2>4, <2>5, <3>2 DEF OutOfSync
    <3> QED
      BY <1>1, <1>3, <3>1, <3>2 DEF Synced
  <2>12. Single'
    <3>1. ASSUME One PROVE \A x \in boxes' : x.id = b.id
      BY <2>3, <2>4, <2>5, <3>1 DEF One
    <3>2. ASSUME jobs = {j} PROVE jobs' = {k}
      BY <2>3, <3>2
    <3> QED
      BY <1>1, <1>3, <2>3, <2>6, <3>1, <3>2 DEF Single, Control, Plain
  <2> QED
    BY <2>7, <2>8, <2>9, <2>10, <2>11, <2>12
<1> QED
  BY <1>1, <1>2, <1>3 DEF RecreateRename

\* Recreate creates the new container: no goroutine has its ID.
LEMMA RecreateCreateInv == ASSUME IInv, NEW j \in jobs, RecreateCreate(j) PROVE IInv'
<1> USE DEF IInv, TypeOK, Upping
<1>1. UNCHANGED <<config, call, todo>> /\ j.step = "create"
  BY DEF RecreateCreate
<1>2. CASE Fail(j) /\ UNCHANGED daemon
  BY <1>1, <1>2, FailInv
<1>3. CASE pc = "rebuild" /\ End(j) /\ Same /\ UNCHANGED daemon
  <2>1. SameBoxes
    BY <1>3 DEF SameBoxes, daemon, BoxTypes, IsBox, Ids
  <2> QED
    BY <1>1, <1>3, <2>1, EndInv
<1>4. ASSUME CreateContainer(j.name), Goto(j, "remove"), Same PROVE IInv'
  <2>1. PICK k : k = [j EXCEPT !.step = "remove"]
    OBVIOUS
  <2>2. jobs' = (jobs \ {j}) \cup {k}
    BY <1>4, <2>1 DEF Goto
  <2>3. IsJob(k) /\ k.name = j.name /\ k.old = j.old /\ k.step = "remove"
    BY <2>1 DEF JobTypes, IsJob, Steps
  <2>4. /\ BoxTypes' /\ created' \in Nat /\ created' = created + 1
        /\ \A b \in boxes : b.name # j.name
        /\ \A b, c \in boxes' : b.id = c.id => b = c
    BY <1>4, CreatedNew
  <2>5. PICK new \in boxes' : /\ new.id = created' /\ new.name = j.name
                              /\ new.version = version
                              /\ boxes' = boxes \cup {new} /\ new \notin boxes
    BY <1>4, CreatedNew
  <2>6. \A y \in jobs : y.old # new.id
    BY <2>4, <2>5 DEF JobTypes, IsJob, CallTypes
  <2> USE DEF Same, config, call, outcome
  <2>7. JobTypes' /\ CallTypes' /\ Flags'
    <3>1. ASSUME NEW y \in jobs' PROVE IsJob(y)'
      BY <2>2, <2>3, <2>4 DEF JobTypes, IsJob, CallTypes
    <3>2. CallTypes'
      BY <1>1, <1>4, <2>4 DEF CallTypes
    <3>3. Flags'
      BY <1>1, <1>4 DEF Flags
    <3> QED
      BY <3>1, <3>2, <3>3 DEF JobTypes
  <2>8. Control'
    <3>1. pc \in {"creating", "starting", "rebuild"}
      BY <1>1 DEF Control, CallTypes
    <3>2. pc = "rebuild" => jobs' = {k}
      BY <2>2 DEF Control
    <3> QED
      BY <1>1, <1>4, <2>2, <2>3, <3>1, <3>2 DEF Control
  <2>9. Ids'
    <3>1. \A x, y \in jobs' : x.name = y.name => x = y
      BY <2>2, <2>3 DEF Ids
    <3> QED
      BY <2>4, <3>1 DEF Ids
  <2>10. Kept'
    <3>1. ASSUME NEW x \in jobs', x.step = "remove"
          PROVE  \E w \in boxes' : w.name = x.name /\ \A y \in jobs' : y.old # w.id
      <4>1. \A y \in jobs' : \E z \in jobs : y.old = z.old
        BY <2>2, <2>3
      <4>2. CASE x = k
        BY <2>3, <2>5, <2>6, <4>1, <4>2
      <4>3. CASE x # k
        <5>1. x \in jobs
          BY <2>2, <4>3
        <5>2. PICK w \in boxes : w.name = x.name /\ \A y \in jobs : y.old # w.id
          BY <3>1, <5>1 DEF Kept
        <5> QED
          BY <2>5, <4>1, <5>2
      <4> QED
        BY <4>2, <4>3
    <3>2. boxes' # {}
      BY <2>5
    <3> QED
      BY <3>1, <3>2 DEF Kept
  <2>11. Synced'
    <3>1. ASSUME NEW x \in boxes', \A y \in boxes : OutOfSync(y) => Covered(y), OutOfSync(x)'
          PROVE  Covered(x)'
      <4>1. x \in boxes /\ OutOfSync(x)
        BY <1>1, <2>5, <3>1 DEF OutOfSync
      <4>2. PICK y \in jobs : Covers(y, x)
        BY <3>1, <4>1 DEF Covered
      <4>3. CASE y = j
        BY <1>1, <2>2, <2>3, <2>4, <4>1, <4>2, <4>3 DEF Covered, Covers
      <4>4. CASE y # j
        BY <2>2, <4>2, <4>4 DEF Covered
      <4> QED
        BY <4>3, <4>4
    <3>2. ASSUME \A y \in boxes : ~OutOfSync(y) PROVE \A x \in boxes' : ~OutOfSync(x)'
      BY <1>1, <2>5, <3>2 DEF OutOfSync
    <3> QED
      BY <1>1, <1>4, <3>1, <3>2 DEF Synced
  <2>12. Single'
    <3>1. ASSUME jobs = {j}, j.name = <<>>, \A b \in boxes : b.id = j.old
          PROVE  /\ jobs' = {k} /\ k.name = <<>>
                 /\ \A b \in boxes' : b.id = k.old \/ b.name = <<>>
                 /\ \A b, c \in boxes' : b.id # k.old /\ c.id # k.old => b.id = c.id
      BY <2>2, <2>3, <2>5, <3>1
    <3> QED
      BY <1>1, <1>4, <2>2, <2>3, <3>1 DEF Single, Control
  <2> QED
    BY <2>4, <2>7, <2>8, <2>9, <2>10, <2>11, <2>12
<1> QED
  BY <1>1, <1>2, <1>3, <1>4 DEF RecreateCreate, CreateFails


\* Recreate removes the old container: the new one, and those of the other
\* goroutines, are not it.
LEMMA RecreateRemoveInv == ASSUME IInv, NEW j \in jobs, RecreateRemove(j) PROVE IInv'
<1> USE DEF IInv, TypeOK, Upping
<1>1. UNCHANGED <<created, config, call, todo>> /\ j.step = "remove"
  BY DEF RecreateRemove
<1>2. CASE Fail(j) /\ UNCHANGED boxes
  BY <1>1, <1>2, FailInv DEF daemon
<1>3. ASSUME boxes' = {b \in boxes : b.id # j.old}, Ready(j) PROVE IInv'
  <2>1. PICK k : k = [j EXCEPT !.step = "start"]
    OBVIOUS
  <2>2. IsJob(k) /\ k.name = j.name /\ k.old = j.old /\ k.step = "start"
    BY <2>1 DEF JobTypes, IsJob, Steps
  <2>3. /\ Same
        /\ \/ pc = "starting" /\ jobs' = (jobs \ {j}) \cup {k}
           \/ pc # "starting" /\ jobs' = jobs \ {j}
    BY <1>3, <2>1 DEF Ready, Goto, End
  <2> USE DEF Same, config, call, outcome
  <2>4. BoxTypes' /\ JobTypes' /\ CallTypes' /\ Flags'
    <3>1. BoxTypes'
      BY <1>1, <1>3 DEF BoxTypes, IsBox
    <3>2. JobTypes'
      BY <1>1, <2>2, <2>3 DEF JobTypes, IsJob
    <3>3. CallTypes'
      BY <1>1, <2>3 DEF CallTypes
    <3>4. Flags'
      BY <1>1, <2>3 DEF Flags
    <3> QED
      BY <3>1, <3>2, <3>3, <3>4
  <2>5. pc \in {"creating", "starting", "rebuild"}
    BY <1>1 DEF Control, CallTypes
  <2>6. Control'
    BY <1>1, <2>2, <2>3, <2>5 DEF Control
  <2>7. Ids'
    <3>1. \A x, y \in boxes' : x.id = y.id => x = y
      BY <1>3 DEF Ids
    <3>2. \A x, y \in jobs' : x.name = y.name => x = y
      BY <2>2, <2>3 DEF Ids
    <3> QED
      BY <3>1, <3>2 DEF Ids
  <2>8. Kept'
    <3>1. \A y \in jobs' : \E z \in jobs : y.old = z.old
      BY <2>2, <2>3
    <3>2. ASSUME NEW x \in jobs, x.step = "remove"
          PROVE  \E w \in boxes' : w.name = x.name /\ \A y \in jobs' : y.old # w.id
      <4>1. PICK w \in boxes : w.name = x.name /\ \A y \in jobs : y.old # w.id
        BY <3>2 DEF Kept
      <4>2. w \in boxes'
        BY <1>3, <4>1
      <4> QED
        BY <3>1, <4>1, <4>2
    <3>3. boxes' # {}
      BY <1>1, <3>2
    <3>4. \A x \in jobs' : x.step = "remove" => x \in jobs
      BY <2>2, <2>3
    <3> QED
      BY <3>2, <3>3, <3>4 DEF Kept
  <2>9. Synced'
    <3>1. ASSUME NEW x \in boxes', \A y \in boxes : OutOfSync(y) => Covered(y), OutOfSync(x)'
          PROVE  Covered(x)'
      <4>1. x \in boxes /\ OutOfSync(x) /\ x.id # j.old
        BY <1>1, <1>3, <3>1 DEF OutOfSync
      <4>2. PICK y \in jobs : Covers(y, x)
        BY <3>1, <4>1 DEF Covered
      <4>3. y # j
        BY <1>1, <4>1, <4>2 DEF Covers
      <4> QED
        BY <2>3, <4>2, <4>3 DEF Covered
    <3>2. ASSUME \A y \in boxes : ~OutOfSync(y) PROVE \A x \in boxes' : ~OutOfSync(x)'
      BY <1>1, <1>3, <3>2 DEF OutOfSync
    <3> QED
      BY <1>1, <2>3, <3>1, <3>2 DEF Synced
  <2>10. Single'
    <3>1. ASSUME jobs = {j}, j.name = <<>>,
                 \A b \in boxes : b.id = j.old \/ b.name = <<>>,
                 \A b, c \in boxes : b.id # j.old /\ c.id # j.old => b.id = c.id
          PROVE  /\ Plain'
                 /\ pc = "starting" => jobs' = {k}
                 /\ pc # "starting" => jobs' = {}
      BY <1>3, <2>3, <3>1 DEF Plain, One
    <3> QED
      BY <1>1, <2>2, <2>3, <2>5, <3>1 DEF Single, Control, Plain
  <2> QED
    BY <2>4, <2>6, <2>7, <2>8, <2>9, <2>10
<1> QED
  BY <1>1, <1>2, <1>3 DEF RecreateRemove

\* Starting, stopping, restarting and killing leave every container there.
LEMMA SwitchInv ==
  ASSUME IInv, NEW j \in jobs, StartJob(j) \/ StopJob(j) \/ RestartJob(j) \/ KillJob(j)
  PROVE  IInv'
<1> USE DEF IInv, TypeOK
<1>1. /\ UNCHANGED <<created, config, call, todo>>
      /\ j.step \in {"start", "stop", "restart", "kill"}
  BY DEF StartJob, StopJob, RestartJob, KillJob
<1>2. CASE Fail(j) /\ UNCHANGED boxes
  BY <1>1, <1>2, FailInv DEF daemon
<1>3. ASSUME End(j), Same, NEW ups, ups \in [boxes -> BOOLEAN],
             boxes' = {[b EXCEPT !.up = ups[b]] : b \in boxes}
      PROVE  IInv'
  <2>1. SameBoxes
    BY <1>1, <1>3, SwitchedSame
  <2>2. \A b \in boxes : ~Covers(j, b)
    BY <1>1 DEF Covers
  <2> QED
    BY <1>1, <1>3, <2>1, <2>2, EndInv
<1>4. ASSUME NEW ok \in BOOLEAN, End(j), Same,
             boxes' = {[b EXCEPT !.up = @ \/ (ok /\ b.name = j.name)] : b \in boxes}
      PROVE  IInv'
  <2> DEFINE ups == [b \in boxes |-> b.up \/ (ok /\ b.name = j.name)]
  <2>1. ups \in [boxes -> BOOLEAN]
    OBVIOUS
  <2>2. boxes' = {[b EXCEPT !.up = ups[b]] : b \in boxes}
    BY <1>4
  <2> HIDE DEF ups
  <2> QED
    BY <1>3, <1>4, <2>1, <2>2
<1>5. ASSUME End(j), Same,
             boxes' = {[b EXCEPT !.up = @ /\ b.name # j.name] : b \in boxes}
      PROVE  IInv'
  <2> DEFINE ups == [b \in boxes |-> b.up /\ b.name # j.name]
  <2>1. ups \in [boxes -> BOOLEAN]
    OBVIOUS
  <2>2. boxes' = {[b EXCEPT !.up = ups[b]] : b \in boxes}
    BY <1>5
  <2> HIDE DEF ups
  <2> QED
    BY <1>3, <1>5, <2>1, <2>2
<1>6. ASSUME End(j), Same,
             boxes' = {[b EXCEPT !.up = @ \/ b.name = j.name] : b \in boxes}
      PROVE  IInv'
  <2> DEFINE ups == [b \in boxes |-> b.up \/ b.name = j.name]
  <2>1. ups \in [boxes -> BOOLEAN]
    OBVIOUS
  <2>2. boxes' = {[b EXCEPT !.up = ups[b]] : b \in boxes}
    BY <1>6
  <2> HIDE DEF ups
  <2> QED
    BY <1>3, <1>6, <2>1, <2>2
<1>7. ASSUME NEW ends \in BOOLEAN, End(j), Same,
             boxes' = {[b EXCEPT !.up = @ /\ ~(ends /\ b.name = j.name)] : b \in boxes}
      PROVE  IInv'
  <2> DEFINE ups == [b \in boxes |-> b.up /\ ~(ends /\ b.name = j.name)]
  <2>1. ups \in [boxes -> BOOLEAN]
    OBVIOUS
  <2>2. boxes' = {[b EXCEPT !.up = ups[b]] : b \in boxes}
    BY <1>7
  <2> HIDE DEF ups
  <2> QED
    BY <1>3, <1>7, <2>1, <2>2
<1>8. CASE StartJob(j)
  <2>1. \A ok \in {TRUE, ~Faults} : ok \in BOOLEAN
    OBVIOUS
  <2> QED
    BY <1>2, <1>4, <1>8, <2>1, Zenon DEF StartJob
<1>9. CASE StopJob(j)
  BY <1>2, <1>5, <1>9, Zenon DEF StopJob
<1>10. CASE RestartJob(j)
  BY <1>2, <1>6, <1>10, Zenon DEF RestartJob
<1>11. CASE KillJob(j)
  BY <1>2, <1>7, <1>11, Zenon DEF KillJob
<1> QED
  BY <1>8, <1>9, <1>10, <1>11

\* Delete takes containers away, and then nothing recreates any.
LEMMA DeleteInv == ASSUME IInv, NEW j \in jobs, DeleteJob(j) PROVE IInv'
<1> USE DEF IInv, TypeOK, Upping
<1>1. UNCHANGED <<created, config, call, todo>> /\ j.step = "delete"
  BY DEF DeleteJob
<1>2. CASE Fail(j) /\ UNCHANGED boxes
  BY <1>1, <1>2, FailInv DEF daemon
<1>3. ASSUME boxes' = {b \in boxes : b.name # j.name \/ b.up}, End(j), Same PROVE IInv'
  <2> USE DEF End, Same, config, call, outcome
  <2>1. pc = "waiting" /\ op = "delete" /\ result = "none" /\ \A k \in jobs : k.step = "delete"
    BY <1>1 DEF Control, CallTypes
  <2>2. boxes' \subseteq boxes
    BY <1>3
  <2>3. BoxTypes' /\ JobTypes' /\ CallTypes' /\ Flags'
    <3>1. BoxTypes'
      BY <1>1, <2>2 DEF BoxTypes, IsBox
    <3>2. JobTypes'
      BY <1>1, <1>3 DEF JobTypes, IsJob
    <3>3. CallTypes'
      BY <1>1, <1>3 DEF CallTypes
    <3>4. Flags'
      BY <1>1, <1>3 DEF Flags
    <3> QED
      BY <3>1, <3>2, <3>3, <3>4
  <2>4. Control'
    BY <1>1, <1>3, <2>1 DEF Control
  <2>5. Ids'
    BY <1>3, <2>2 DEF Ids
  <2>6. Kept' /\ Synced'
    BY <1>1, <1>3, <2>1 DEF Kept, Synced
  <2>7. Single'
    BY <1>1, <1>3, <2>1, <2>2 DEF Single, Plain, One
  <2> QED
    BY <2>3, <2>4, <2>5, <2>6, <2>7
<1> QED
  BY <1>1, <1>2, <1>3 DEF DeleteJob


-----------------------------------------------------------------------------
(* The rebuild.                                                            *)

\* Of the containers there are, one has the highest ID.
LEMMA NewestExists ==
  ASSUME BoxTypes, created \in Nat, boxes # {}
  PROVE  Newest \in boxes
<1> DEFINE T == {created - b.id : b \in boxes}
<1>1. T \subseteq Nat /\ T # {}
  BY DEF BoxTypes, IsBox
<1>2. IsWellFoundedOn(OpToRel(<, Nat), Nat)
  BY NatLessThanWellFounded
<1>3. PICK x \in T : \A y \in T : ~(<<y, x>> \in OpToRel(<, Nat))
  BY <1>1, <1>2, WFMin
<1>4. \A y \in T : ~(y < x)
  BY <1>1, <1>3 DEF OpToRel
<1>5. PICK b \in boxes : x = created - b.id
  BY <1>3
<1>6. ASSUME NEW c \in boxes PROVE c.id <= b.id
  <2>1. b.id \in Int /\ c.id \in Int
    BY DEF BoxTypes, IsBox
  <2>2. ~(created - c.id < created - b.id)
    BY <1>4, <1>5
  <2> QED
    BY <2>1, <2>2
<1> QED
  BY <1>6 DEF Newest

\* A sequence of one element.
LEMMA OneElement ==
  ASSUME NEW e, NEW s \in [1..1 -> {e}]
  PROVE  Head(s) = e /\ Tail(s) = <<>>
<1>1. s \in Seq({e})
  BY SeqDef
<1>2. Len(s) = 1 /\ s[1] = e
  OBVIOUS
<1>3. s # <<>>
  BY <1>2, EmptySeq
<1>4. Head(s) = e
  BY <1>1, <1>3, HeadTailProperties
<1>5. Tail(s) \in Seq({e}) /\ Len(Tail(s)) = 0
  BY <1>1, <1>2, <1>3, HeadTailProperties
<1>6. Tail(s) = <<>>
  BY <1>5, EmptySeq
<1> QED
  BY <1>4, <1>6

\* With one container, the loop goes over its name only.
LEMMA ByAgeSingle ==
  ASSUME IInv, Plain, boxes # {}
  PROVE  Head(ByAge) = <<>> /\ Tail(ByAge) = <<>>
<1>1. PICK b : boxes = {b} /\ b.name = <<>>
  BY DEF IInv, Ids, Plain, One
<1>2. Cardinality(boxes) = 1 /\ {c.name : c \in boxes} = {<<>>}
  <2>1. Cardinality({b}) = 1
    BY FS_Singleton
  <2> QED
    BY <1>1, <2>1
<1> DEFINE P(s) == \A i, k \in DOMAIN s : i < k =>
                      \E d \in Named(s[i]), c \in Named(s[k]) : d.id > c.id
           s0 == [i \in 1..1 |-> <<>>]
<1>3. s0 \in [1..1 -> {<<>>}] /\ P(s0)
  OBVIOUS
<1>4. ByAge = CHOOSE s \in [1..1 -> {<<>>}] : P(s)
  BY <1>2 DEF ByAge
<1> HIDE DEF P, s0
<1>5. ByAge \in [1..1 -> {<<>>}]
  BY <1>3, <1>4
<1> QED
  BY <1>5, OneElement

\* A rebuild begins, or is not needed.
LEMMA ShouldRebuildInv == IInv /\ ShouldRebuild => IInv'
<1> SUFFICES ASSUME IInv, ShouldRebuild PROVE IInv'
  OBVIOUS
<1> USE DEF IInv, TypeOK, Upping
<1>1. /\ UNCHANGED <<daemon, service, version, call, jobs, pool>> /\ pc = "check"
      /\ \/ pc' = "rebuild" /\ todo' = ByAge /\ UNCHANGED outcome
         \/ pc' = "up" /\ UNCHANGED outcome
         \/ \E r \in {"nil", "fail"} : Return(r)
  BY DEF ShouldRebuild, GoOn
<1>2. jobs = {} /\ boxes # {} /\ ~pool /\ op \in {"up", "create"}
  BY <1>1 DEF Control, Kept
<1> USE DEF daemon, call, outcome, Return
<1>3. BoxTypes' /\ JobTypes' /\ CallTypes' /\ Flags'
  <2>1. BoxTypes' /\ JobTypes'
    BY <1>1, <1>2 DEF BoxTypes, JobTypes, IsBox
  <2>2. CallTypes'
    BY <1>1 DEF CallTypes
  <2>3. Flags'
    BY <1>1 DEF Flags
  <2> QED
    BY <2>1, <2>2, <2>3
<1>4. Control'
  BY <1>1, <1>2 DEF Control
<1>5. Ids' /\ Kept'
  BY <1>1, <1>2 DEF Ids, Kept
<1>6. Synced'
  BY <1>1, <1>2 DEF Synced, OutOfSync
<1>7. Single'
  <2>1. clean /\ ~lost => Plain
    BY <1>1, <1>2 DEF Single
  <2>2. Plain => One /\ Head(ByAge) = <<>> /\ Tail(ByAge) = <<>>
    BY <1>2, ByAgeSingle DEF Plain
  <2>3. Plain' = Plain /\ One' = One
    BY <1>1 DEF Plain, One
  <2>4. /\ pc' \in {"idle", "up", "rebuild"} /\ (pc' = "rebuild" => todo' = ByAge)
    BY <1>1
  <2>5. /\ clean' => clean
        /\ pc' = "idle" /\ clean' => ~lost
        /\ pc' # "idle" /\ ~lost' => ~lost
    <3>1. CASE \E r \in {"nil", "fail"} : Return(r)
      BY <3>1, Zenon
    <3>2. CASE UNCHANGED outcome /\ pc' # "idle"
      BY <3>2
    <3> QED
      BY <1>1, <3>1, <3>2
  <2> QED
    BY <1>1, <1>2, <2>1, <2>2, <2>3, <2>4, <2>5 DEF Single
<1> QED
  BY <1>3, <1>4, <1>5, <1>6, <1>7

\* The next container to recreate.
LEMMA RebuildNextInv == IInv /\ RebuildNext => IInv'
<1> SUFFICES ASSUME IInv, RebuildNext PROVE IInv'
  OBVIOUS
<1> USE DEF IInv, TypeOK, Upping, daemon, config, call, outcome
<1>1. /\ UNCHANGED <<daemon, config, call, pc, pool, outcome>> /\ pc = "rebuild"
      /\ jobs = {} /\ todo # <<>> /\ todo' = Tail(todo)
  BY DEF RebuildNext
<1>2. PICK j : j = [name |-> Head(todo), step |-> "rename", old |-> 0]
  OBVIOUS
<1>3. jobs' = {j} /\ j.name = Head(todo) /\ j.step = "rename" /\ j.old = 0
  BY <1>2 DEF RebuildNext
<1>4. BoxTypes' /\ JobTypes' /\ CallTypes' /\ Flags'
  <2>1. BoxTypes'
    BY <1>1 DEF BoxTypes, IsBox
  <2>2. JobTypes'
    BY <1>1, <1>2, <1>3 DEF JobTypes, IsJob, Steps, CallTypes
  <2>3. CallTypes'
    BY <1>1 DEF CallTypes
  <2>4. Flags'
    BY <1>1 DEF Flags
  <2> QED
    BY <2>1, <2>2, <2>3, <2>4
<1>5. Control'
  BY <1>1, <1>3 DEF Control
<1>6. Ids' /\ Kept'
  BY <1>1, <1>3 DEF Ids, Kept
<1>7. Synced'
  BY <1>1 DEF Synced, OutOfSync
<1>8. Single'
  BY <1>1, <1>3 DEF Single, Plain, One
<1> QED
  BY <1>4, <1>5, <1>6, <1>7, <1>8

\* The newest container gets the service's name.
LEMMA RenameInv == IInv /\ Rename => IInv'
<1> SUFFICES ASSUME IInv, Rename PROVE IInv'
  OBVIOUS
<1> USE DEF IInv, TypeOK, Upping
<1>1. UNCHANGED <<created, config, call, jobs, pool, todo>> /\ pc = "rebuild" /\ jobs = {}
  BY DEF Rename
<1>2. boxes # {} /\ op \in {"up", "create"} /\ ~pool /\ todo = <<>>
  BY <1>1 DEF Control, Kept, Rename
<1>3. Newest \in boxes
  BY <1>2, NewestExists DEF CallTypes
<1> USE DEF config, call, outcome, Return
<1>4. CASE Return("fail") /\ UNCHANGED boxes
  <2>1. BoxTypes' /\ JobTypes'
    BY <1>1, <1>4 DEF BoxTypes, JobTypes, IsBox
  <2>2. CallTypes'
    BY <1>1, <1>4 DEF CallTypes
  <2>3. Flags'
    BY <1>1, <1>4 DEF Flags
  <2>4. Control' /\ Ids' /\ Kept' /\ Synced' /\ Single'
    BY <1>1, <1>2, <1>4 DEF Control, Ids, Kept, Synced, Single
  <2> QED
    BY <2>1, <2>2, <2>3, <2>4
<1>5. ASSUME boxes' = (boxes \ {Newest}) \cup {[Newest EXCEPT !.name = <<>>]}, GoOn
      PROVE  IInv'
  <2>1. PICK b \in boxes : b = Newest
    BY <1>3
  <2>2. PICK c : c = [b EXCEPT !.name = <<>>]
    OBVIOUS
  <2>3. boxes' = (boxes \ {b}) \cup {c}
    BY <1>5, <2>1, <2>2
  <2>4. IsBox(c) /\ c.id = b.id /\ c.version = b.version /\ c.name = <<>>
    <3>1. IsBox(b)
      BY DEF BoxTypes
    <3>2. c = [id |-> b.id, name |-> <<>>, version |-> b.version, up |-> b.up]
      BY <2>2, <3>1 DEF IsBox
    <3>3. c.id = b.id /\ c.version = b.version /\ c.up = b.up /\ c.name = <<>>
      BY <3>2
    <3>4. c = [id |-> c.id, name |-> c.name, version |-> c.version, up |-> c.up]
      BY <3>2, Zenon
    <3> QED
      BY <3>1, <3>3, <3>4 DEF IsBox
  <2>5. \/ pc' = "up" /\ UNCHANGED outcome
        \/ Return("nil")
    BY <1>5 DEF GoOn
  <2>6. BoxTypes' /\ JobTypes' /\ CallTypes' /\ Flags'
    <3>1. BoxTypes' /\ JobTypes'
      BY <1>1, <2>3, <2>4 DEF BoxTypes, JobTypes, IsBox
    <3>2. CallTypes'
      BY <1>1, <2>5 DEF CallTypes
    <3>3. Flags'
      BY <1>1, <2>5 DEF Flags
    <3> QED
      BY <3>1, <3>2, <3>3
  <2>7. Control'
    BY <1>1, <1>2, <2>5 DEF Control
  <2>8. Ids' /\ Kept'
    BY <1>1, <1>2, <2>3, <2>4 DEF Ids, Kept
  <2>9. Synced'
    <3>1. ASSUME \A y \in boxes : ~OutOfSync(y) PROVE \A x \in boxes' : ~OutOfSync(x)'
      BY <1>1, <2>3, <2>4, <3>1 DEF OutOfSync
    <3> QED
      BY <1>1, <1>2, <2>5, <3>1 DEF Synced
  <2>10. Single'
    <3>1. ASSUME One PROVE Plain'
      <4>1. boxes' = {c}
        BY <2>3, <3>1 DEF One, Ids
      <4> QED
        BY <2>4, <4>1 DEF Plain, One
    <3>2. pc' \in {"idle", "up"}
      BY <2>5
    <3>3. /\ clean' => clean
          /\ pc' = "idle" /\ clean' => ~lost
          /\ pc' # "idle" /\ ~lost' => ~lost
      <4>1. CASE Return("nil")
        BY <4>1, Zenon
      <4>2. CASE UNCHANGED outcome /\ pc' # "idle"
        BY <4>2
      <4> QED
        BY <2>5, <4>1, <4>2
    <3> QED
      BY <1>1, <1>2, <3>1, <3>2, <3>3 DEF Single
  <2> QED
    BY <2>6, <2>7, <2>8, <2>9, <2>10
<1> QED
  BY <1>4, <1>5 DEF Rename

-----------------------------------------------------------------------------
(* The theorems.                                                           *)

\* The invariant holds when nothing has been called yet.
LEMMA InitInv == Init => IInv
<1> SUFFICES ASSUME Init PROVE IInv
  OBVIOUS
<1> USE DEF Init
<1>1. BoxTypes /\ JobTypes /\ Flags
  BY DEF BoxTypes, JobTypes, Flags
<1>2. CallTypes
  BY ServiceAssumption DEF CallTypes
<1>3. Control /\ Ids /\ Kept
  BY DEF Control, Ids, Kept, Upping
<1>4. Synced /\ Single
  BY DEF Synced, Single, Plain, One
<1> QED
  BY <1>1, <1>2, <1>3, <1>4 DEF IInv, TypeOK

\* Every step keeps the invariant.
LEMMA NextInv == IInv /\ [Next]_vars => IInv'
<1> SUFFICES ASSUME IInv, [Next]_vars PROVE IInv'
  OBVIOUS
<1>1. CASE UNCHANGED vars
  BY <1>1 DEF IInv, TypeOK, BoxTypes, JobTypes, CallTypes, Flags, Control, Ids, Kept, Synced,
              Single, Plain, One, Covered, Covers, OutOfSync, IsBox, IsJob, vars, daemon,
              config, call, outcome
<1>2. CASE Job
  <2>1. PICK j \in jobs : \/ Look(j) \/ RecreateRename(j) \/ RecreateCreate(j)
                          \/ RecreateRemove(j) \/ StartJob(j) \/ StopJob(j)
                          \/ RestartJob(j) \/ KillJob(j) \/ DeleteJob(j)
    BY <1>2 DEF Job
  <2> QED
    BY <2>1, LookInv, RecreateRenameInv, RecreateCreateInv, RecreateRemoveInv, SwitchInv,
       DeleteInv
<1>3. CASE Over
  BY <1>1, <1>3 DEF Over
<1> QED
  BY <1>1, <1>2, <1>3, BeginInv, CrashInv, CreateOneInv, EachContainerInv, JoinInv,
     ShouldRebuildInv, RebuildNextInv, RenameInv DEF Next

\* IInv is an invariant of the specification.
LEMMA Inductive == Spec => []IInv
  BY InitInv, NextInv, PTL DEF Spec

\* Containers, goroutines and calls have their types.
THEOREM TypeCorrect == Spec => []TypeOK
<1>1. IInv => TypeOK
  BY DEF IInv
<1> QED
  BY <1>1, Inductive, PTL

\* A create or up that succeeds, having spared no container and lost no error,
\* leaves containers, and each of them has the service's configuration.
THEOREM SuccessMeansSynced == Spec => []SyncedOnSuccess
<1>1. IInv => SyncedOnSuccess
  BY DEF IInv, Synced, Kept, SyncedOnSuccess
<1> QED
  BY <1>1, Inductive, PTL

\* As long as no call failed a service has one container, under its own name.
THEOREM OneContainerOnly == Spec => []OneContainer
<1>1. IInv => OneContainer
  BY DEF IInv, Single, Plain, OneContainer
<1> QED
  BY <1>1, Inductive, PTL

\* No step of an operation but delete takes the last container away.
THEOREM ContainersRemain == Spec => NeverGone
<1>1. ASSUME IInv, Next, op # "delete", boxes # {} PROVE boxes' # {}
  <2>1. ASSUME NEW j \in jobs, RecreateRemove(j) PROVE boxes' # {}
    <3>1. PICK b \in boxes : \A k \in jobs : k.old # b.id
      BY <1>1, <2>1 DEF IInv, Kept, RecreateRemove
    <3> QED
      BY <1>1, <2>1, <3>1 DEF RecreateRemove
  <2>2. ASSUME NEW j \in jobs PROVE ~DeleteJob(j)
    BY <1>1 DEF IInv, TypeOK, CallTypes, Control, DeleteJob
  <2>3. CASE Job
    <3>1. PICK j \in jobs : \/ Look(j) \/ RecreateRename(j) \/ RecreateCreate(j)
                            \/ RecreateRemove(j) \/ StartJob(j) \/ StopJob(j)
                            \/ RestartJob(j) \/ KillJob(j) \/ DeleteJob(j)
      BY <2>3 DEF Job
    <3>2. CASE Look(j) \/ RecreateRename(j) \/ RecreateCreate(j)
      BY <1>1, <3>2 DEF Look, RecreateRename, RecreateCreate, CreateContainer, CreateFails,
                        daemon
    <3>3. CASE StartJob(j)
      BY <1>1, <3>3 DEF StartJob
    <3>4. CASE StopJob(j) \/ RestartJob(j)
      BY <1>1, <3>4 DEF StopJob, RestartJob
    <3>5. CASE KillJob(j)
      BY <1>1, <3>5 DEF KillJob
    <3> QED
      BY <2>1, <2>2, <3>1, <3>2, <3>3, <3>4, <3>5
  <2>4. CASE ~Job
    BY <1>1, <2>4 DEF Next, Begin, Crash, CreateOne, EachContainer, Collect, Join, ShouldRebuild,
       RebuildNext, Rename, Over, CreateContainer, CreateFails, daemon, vars
  <2> QED
    BY <2>3, <2>4
<1>2. IInv /\ [Next]_vars => [op # "delete" /\ boxes # {} => boxes' # {}]_vars
  BY <1>1
<1> QED
  BY <1>2, Inductive, PTL DEF Spec, NeverGone
=============================================================================
