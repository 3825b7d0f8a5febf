------------------------ MODULE CloudInitBootsProofs ------------------------
(***************************************************************************)
(* What CloudInitBoots promises about datasources, files, keys and links,  *)
(* for every set of machines and any number of boots.  The inductive       *)
(* invariant IInv follows a file from the datasource to the services:      *)
(* Selecting is about the goroutines and the channel, Saving about the     *)
(* order of the writes, Generations about the age of what is stored where, *)
(* Authorizing about the console.  Phases says which of them run at the    *)
(* same time.  Naming and LinkInv are about netconf: who wrote the host    *)
(* name and resolv.conf, and how far the links are at each step.           *)
(***************************************************************************)
EXTENDS CloudInitBoots, FiniteSetTheorems, SequenceTheorems, TLAPS

CONSTANT BondName   \* the names that bonds have in the configurations

Known == Sel!Listed \cup Sel!Plain \cup {"aliyun", "azure"}

\* The place where files outlive a boot.
IsStore(fs) ==
    /\ fs = [f \in Sel!Files |-> fs[f]]
    /\ \A f \in Sel!Files : fs[f].gen \in 0..boots

TypeOK ==
    /\ sources \subseteq Known
    /\ sources # {} => pc \in [sources -> {"check", "pause", "offer", "ended"}]
    /\ {stop, done, timeout, missed} \subseteq BOOLEAN
    /\ main \in {"idle", "select", "fetch", "close", "returned"} \cup Sel!Files
    /\ chosen \in Known \cup {None}
    /\ kind \in {"script", "cloudConfig", "nothing"}
    /\ boots \in Nat \ {0}
    /\ phase \in {"boot", "before", "select", "read", "write", "network", "services"}
    /\ console \in User \cup {"none", "files", "script", "done"}
    /\ IsStore(file) /\ IsStore(state) /\ IsStore(mem)
    /\ applied = [f \in {"network", "cloudConfig", "script"} |-> applied[f]]
    /\ \A f \in {"network", "cloudConfig", "script"} : applied[f] \in Nat
    /\ auth = [u \in User |-> auth[u]]

\* cloud-init-save ends before the files are read, and the console starts when
\* they are where they belong.
Phases ==
    /\ main # "idle" => phase \in {"select", "read"}
    /\ phase = "read" => main \in {"idle", "returned"}
    /\ console # "none" => phase = "services"
    /\ phase \in {"network", "services"} => mem = Sel!NoFiles

\* A goroutine that ended without being chosen has a source that cannot become
\* available.
Selecting ==
    /\ main \in {"idle", "select"} => chosen = None /\ ~stop
    /\ main \in {"fetch"} \cup Sel!Files => chosen # None
    /\ stop => main = "returned"
    /\ main = "idle" => ~done
    /\ done => \A s \in sources : pc[s] = "ended"
    /\ chosen = None /\ ~stop => \A s \in sources : pc[s] = "ended" => ~Sel!Changing(s)
    /\ chosen = None /\ main \in {"close", "returned"} =>
          timeout \/ \A s \in sources : pc[s] = "ended" /\ ~Sel!Changing(s)

\* The files of this boot are written in the order that UserDataFirst needs.
Saving ==
    /\ main \in Sel!Files =>
          /\ \A f \in Sel!Files : data[f].gen = boots
          /\ data["metadata"].with = kind
    /\ main = "cloudConfig" /\ kind = "script" => file["script"].gen = boots
    /\ main \in {"metadata", "network"} /\ kind # "nothing" => file[kind].gen = boots
    /\ main = "network" => file["metadata"].gen = boots
    /\ file["metadata"].gen > 0 =>
          file["metadata"].with \in {"script", "cloudConfig", "nothing"}
    /\ UserDataFirst

\* With an initramfs, files that are not on the state partition are of this boot;
\* nothing was acted on that is newer than what is stored.
Generations ==
    /\ machine.initrd => \A f \in Sel!Files : {file[f].gen, mem[f].gen} \subseteq {0, boots}
    /\ ~machine.initrd => mem = Sel!NoFiles
    /\ \A f \in {"network", "cloudConfig", "script"} : applied[f] <= Root[f].gen

Authorized(user) == SSHAuthorizedKeys(Root) \subseteq auth[user]
Authorizing ==
    ~missed =>
        /\ console \in User => SSHAuthorizedKeys(Root) \subseteq auth[console] \cup keys
        /\ console \in {"docker", "files", "script", "done"} => Authorized("rancher")
        /\ console \in {"files", "script", "done"} => Authorized("docker")

IInv == TypeOK /\ Phases /\ Selecting /\ Saving /\ Generations /\ Authorizing


-----------------------------------------------------------------------------
(* The steps of cloud-init-save.                                           *)

\* What IInv says of is not changed by a step that leaves these alone.
watched == <<boots, selectVars, file, bootVars, console, keys, auth, missed, applied>>

\* Such a step keeps the invariant.
LEMMA WatchedInv == IInv /\ UNCHANGED watched => IInv'
<1> SUFFICES ASSUME IInv, UNCHANGED watched PROVE IInv'
  OBVIOUS
<1> USE DEF IInv, watched, selectVars, bootVars
<1>1. TypeOK'
  BY DEF TypeOK, IsStore
<1>2. Phases' /\ Selecting'
  BY DEF Phases, Selecting
<1>3. Saving' /\ Generations'
  BY DEF Saving, UserDataFirst, Sel!UserDataFirst, Generations, Root
<1>4. Authorizing'
  BY DEF Authorizing, Authorized, SSHAuthorizedKeys, Field, Root
<1> QED
  BY <1>1, <1>2, <1>3, <1>4

\* A source is not the name that stands for none.
LEMMA KnownIsSome == None \notin Known
BY DEF None, Known, Sel!Listed, Sel!Plain

\* The files, by name.
LEMMA FileNames == Sel!Files = {"script", "cloudConfig", "metadata", "network"}
BY DEF Sel!Files

\* The goroutines, wg.Wait and the timer.
WaitStep == (\E s \in sources : Sel!Goroutine(s)) \/ Sel!AllEnded \/ Sel!Timeout

\* Waiting for the datasources keeps the invariant.
LEMMA WaitStepInv == IInv /\ WaitStep /\ SelQuiet => IInv'
<1> SUFFICES ASSUME IInv, WaitStep, SelQuiet PROVE IInv'
  OBVIOUS
<1> USE DEF IInv, SelQuiet, Sel!fetching
<1>1. /\ UNCHANGED <<boots, sources, stop, main, chosen, left, tries, kind, data, file, faults,
                     bootVars, execVars>>
      /\ sources # {} => pc' \in [sources -> {"check", "pause", "offer", "ended"}]
      /\ done' \in BOOLEAN /\ timeout' \in BOOLEAN
      /\ timeout => timeout'
      /\ main = "idle" => done' = done
      /\ done' => \A s \in sources : pc'[s] = "ended"
      /\ \A s \in sources : pc[s] = "ended" => pc'[s] = "ended"
      /\ \A s \in sources : pc'[s] = "ended" => pc[s] = "ended" \/ ~Sel!Changing(s) \/ stop
  <2>1. CASE \E s \in sources : Sel!Check(s)
    BY <2>1 DEF Sel!Check, Sel!Goto, TypeOK, Selecting
  <2>2. CASE \E s \in sources : Sel!Resume(s)
    BY <2>2 DEF Sel!Resume, Sel!Goto, TypeOK, Selecting
  <2>3. CASE Sel!AllEnded
    BY <2>3 DEF Sel!AllEnded, TypeOK, Selecting
  <2>4. CASE Sel!Timeout
    BY <2>4 DEF Sel!Timeout, TypeOK, Selecting
  <2> QED
    BY <2>1, <2>2, <2>3, <2>4 DEF WaitStep, Sel!Goroutine
<1> USE <1>1 DEF bootVars, execVars
<1>2. TypeOK'
  BY DEF TypeOK, IsStore
<1>3. Phases'
  BY DEF Phases
<1>4. Selecting'
  BY DEF Selecting, TypeOK
<1>5. Saving' /\ Generations' /\ Authorizing'
  BY DEF Saving, Generations, Root, Authorizing, Authorized, SSHAuthorizedKeys, Field,
     UserDataFirst, Sel!UserDataFirst
<1> QED
  BY <1>2, <1>3, <1>4, <1>5

\* What the console looks at is not changed before it runs.
LEMMA ConsoleApart ==
    ASSUME IInv, UNCHANGED <<machine, state, console, keys, auth, missed>>,
           file' = file \/ phase # "services"
    PROVE  Authorizing'
<1>1. CASE file' = file
  BY <1>1 DEF IInv, Authorizing, Authorized, SSHAuthorizedKeys, Field, Root
<1>2. CASE phase # "services"
  BY <1>2 DEF IInv, Phases, Authorizing, User
<1> QED
  BY <1>1, <1>2

\* selectDatasource and fetchAndSave.
LEMMA MainStepInv == IInv /\ Sel!Main /\ SelQuiet => IInv'
<1> SUFFICES ASSUME IInv, Sel!Main, SelQuiet PROVE IInv'
  OBVIOUS
<1> USE FileNames DEF IInv, SelQuiet, Sel!fetching, bootVars, execVars
<1>1. CASE Sel!Write
  <2> USE <1>1 DEF Sel!Write, Sel!NextFile, Sel!Skips
  <2>1. \A f \in Sel!Files : file'[f] = file[f] \/ (f = main /\ file'[f] = data[f])
    BY DEF TypeOK, IsStore
  <2>2. IsStore(file)'
    BY <2>1 DEF TypeOK, IsStore, Saving
  <2>3. TypeOK'
    BY <2>2 DEF TypeOK, IsStore
  <2>4. Phases' /\ Selecting'
    BY DEF Phases, Selecting, TypeOK
  <2>5. Saving'
    <3>1. /\ UNCHANGED <<boots, kind, data>>
          /\ \A f \in Sel!Files : data[f].gen = boots
          /\ data["metadata"].with = kind /\ kind \in {"script", "cloudConfig", "nothing"}
          /\ boots \in Nat \ {0} /\ main \in Sel!Files
      BY DEF Saving, TypeOK
    <3>2. \A f \in Sel!Files : /\ file[f].gen \in 0..boots
                              /\ file'[f].gen >= file[f].gen
      BY <2>1, <3>1 DEF TypeOK, IsStore
    <3>3. \A f \in Sel!Files : file[f].gen = boots => file'[f].gen = boots
      BY <2>1, <3>1 DEF TypeOK, IsStore
    <3>4. main' \in Sel!Files => \/ file'[main].gen = boots
                                 \/ main \in {"script", "cloudConfig"} /\ main # kind
      BY <2>1, <3>1 DEF TypeOK, IsStore
    <3>5. /\ main' = "cloudConfig" => main = "script"
          /\ main' = "metadata" => main = "cloudConfig"
          /\ main' = "network" => main = "metadata"
      OBVIOUS
    <3>6. /\ main' = "cloudConfig" /\ kind = "script" => file'["script"].gen = boots
          /\ main' = "metadata" /\ kind # "nothing" => file'[kind].gen = boots
          /\ main' = "network" /\ kind # "nothing" => file'[kind].gen = boots
          /\ main' = "network" => file'["metadata"].gen = boots
      <4>1. /\ main = "cloudConfig" /\ kind = "script" => file["script"].gen = boots
            /\ main = "metadata" /\ kind # "nothing" => file[kind].gen = boots
        BY DEF Saving
      <4>2. kind \in {"script", "cloudConfig", "nothing"}
        BY <3>1
      <4>3. main' = "cloudConfig" /\ kind = "script" => file'["script"].gen = boots
        BY ONLY <3>4, <3>5, FileNames
      <4>4. main' = "metadata" /\ kind = "script" => file'[kind].gen = boots
        BY ONLY <3>3, <3>5, <4>1, FileNames
      <4>5. main' = "metadata" /\ kind = "cloudConfig" => file'[kind].gen = boots
        BY ONLY <3>1, <3>4, <3>5, FileNames
      <4>6. main' = "network" /\ kind # "nothing" => file'[kind].gen = boots
        BY ONLY <3>3, <3>5, <4>1, <4>2, FileNames
      <4>7. main' = "network" => file'["metadata"].gen = boots
        BY ONLY <3>1, <3>4, <3>5, FileNames
      <4> QED
        BY ONLY <3>1, <4>3, <4>4, <4>5, <4>6, <4>7
    <3>7. /\ file'["metadata"].gen > 0 =>
                /\ file'["metadata"].with \in {"script", "cloudConfig", "nothing"}
                /\ file'["metadata"].with # "nothing" =>
                      file'[file'["metadata"].with].gen >= file'["metadata"].gen
          /\ file'["network"].gen <= file'["metadata"].gen
      <4>1. /\ file["metadata"].gen > 0 =>
                  /\ file["metadata"].with \in {"script", "cloudConfig", "nothing"}
                  /\ file["metadata"].with # "nothing" =>
                        file[file["metadata"].with].gen >= file["metadata"].gen
            /\ file["network"].gen <= file["metadata"].gen
            /\ main = "metadata" /\ kind # "nothing" => file[kind].gen = boots
            /\ main = "network" => file["metadata"].gen = boots
        BY DEF Saving, UserDataFirst, Sel!UserDataFirst
      <4>2. CASE file'["metadata"] = file["metadata"]
        BY ONLY <2>1, <3>1, <3>2, <3>3, <4>1, <4>2, FileNames
      <4>3. CASE main = "metadata" /\ file'["metadata"] = data["metadata"]
        BY ONLY <2>1, <3>1, <3>2, <3>3, <4>1, <4>3, FileNames
      <4> QED
        BY <2>1, <4>2, <4>3
    <3> QED
      BY <3>1, <3>6, <3>7 DEF Saving, UserDataFirst, Sel!UserDataFirst
  <2>6. Generations'
    BY <2>1 DEF Generations, Root, Saving, TypeOK, IsStore
  <2>7. Authorizing'
    BY ConsoleApart DEF Phases
  <2> QED
    BY <2>3, <2>4, <2>5, <2>6, <2>7
<1>2. CASE Sel!Parse
  <2> USE <1>2 DEF Sel!Parse
  <2>1. main' = "script" => /\ \A f \in Sel!Files : data'[f].gen = boots
                            /\ data'["metadata"].with = kind'
                            /\ kind' \in {"script", "cloudConfig", "nothing"}
    BY DEF Sel!Metadata
  <2>2. TypeOK'
    BY <2>1 DEF TypeOK, IsStore
  <2>3. Phases' /\ Selecting'
    BY DEF Phases, Selecting, TypeOK
  <2>4. Saving'
    BY <2>1 DEF Saving, UserDataFirst, Sel!UserDataFirst
  <2>5. Generations' /\ Authorizing'
    BY ConsoleApart DEF Generations, Root
  <2> QED
    BY <2>2, <2>3, <2>4, <2>5
<1>3. ASSUME UNCHANGED <<boots, sources, file, machine, state, mem>>,
             main \in {"select", "fetch", "close"}, main' \notin Sel!Files, TypeOK', Selecting'
      PROVE  IInv'
  <2>1. Phases'
    BY <1>3 DEF Phases
  <2>2. Saving'
    BY <1>3 DEF Saving, UserDataFirst, Sel!UserDataFirst
  <2>3. Generations' /\ Authorizing'
    BY <1>3, ConsoleApart DEF Generations, Root
  <2> QED
    BY <1>3, <2>1, <2>2, <2>3
<1>4. CASE \E s \in sources : Sel!Receive(s)
  BY <1>3, <1>4, KnownIsSome DEF Sel!Receive, Sel!Goto, Selecting, TypeOK, IsStore
<1>5. CASE Sel!NoneLeft
  BY <1>3, <1>5 DEF Sel!NoneLeft, Selecting, TypeOK, IsStore
<1>6. CASE Sel!GetRetry
  BY <1>3, <1>6 DEF Sel!GetRetry, Selecting, TypeOK, IsStore
<1>7. CASE Sel!Close
  <2>1. /\ UNCHANGED <<boots, sources, file, machine, state, mem>>
        /\ main = "close" /\ main' = "returned"
    BY <1>7 DEF Sel!Close
  <2>2. TypeOK'
    BY <1>7 DEF Sel!Close, Sel!Forget, TypeOK, IsStore
  <2>3. Selecting'
    BY <1>7 DEF Sel!Close, Selecting
  <2> QED
    BY <1>3, <2>1, <2>2, <2>3 DEF Sel!Files
<1> QED
  BY <1>1, <1>2, <1>4, <1>5, <1>6, <1>7 DEF Sel!Main

-----------------------------------------------------------------------------
(* The steps of the boot, the network, the console and the machine.        *)

\* No file is older than any boot.
LEMMA EmptyStore ==
    ASSUME boots \in Nat
    PROVE  IsStore(Sel!NoFiles) /\ \A f \in Sel!Files : Sel!NoFiles[f].gen = 0
BY DEF IsStore, Sel!NoFiles, Sel!NoFile

\* init from the start of a boot to the services.
LEMMA BootStepInv == IInv /\ BootStep => IInv'
<1> SUFFICES ASSUME IInv, BootStep PROVE IInv'
  OBVIOUS
<1> USE DEF IInv, Goto, selectVars, execVars
<1>1. CASE CloudInit \/ ApplyBefore \/ ApplyAfter
  <2>1. /\ UNCHANGED <<boots, selectVars, file, machine, state, mem, execVars>>
        /\ phase # "services" /\ phase' \in {"before", "select", "read"}
        /\ main # "idle" => phase' = "read" /\ main = "returned"
    BY <1>1 DEF CloudInit, ApplyBefore, ApplyAfter, Phases
  <2>2. TypeOK' /\ Phases'
    BY <2>1 DEF TypeOK, IsStore, Phases
  <2>3. Selecting' /\ Saving' /\ Generations'
    BY <2>1 DEF Selecting, Saving, UserDataFirst, Sel!UserDataFirst, Generations, Root
  <2>4. Authorizing'
    BY <2>1, ConsoleApart
  <2> QED
    BY <2>2, <2>3, <2>4
<1>2. CASE StartSelect
  <2> USE <1>2 DEF StartSelect, Sel!StartSelect, SelQuiet, bootVars, Sel!fetching
  <2>1. sources' \subseteq Known
    BY DEF Sel!GetDatasources, Known
  <2>2. TypeOK' /\ Phases'
    BY <2>1, FileNames DEF TypeOK, IsStore, Phases
  <2>3. Selecting'
    BY <2>1, FileNames DEF Selecting
  <2>4. Saving' /\ Generations'
    BY FileNames DEF Saving, UserDataFirst, Sel!UserDataFirst, Generations, Root
  <2>5. Authorizing'
    BY ConsoleApart
  <2> QED
    BY <2>2, <2>3, <2>4, <2>5
<1>3. CASE ReadConfigFiles
  <2> USE <1>3 DEF ReadConfigFiles, Sel!SelectGone, Sel!Forget
  <2>1. /\ IsStore(Sel!NoFiles) /\ \A f \in Sel!Files : Sel!NoFiles[f].gen = 0
        /\ Sel!None = None
    BY EmptyStore DEF TypeOK, Sel!None, None
  <2>2. IsStore(file)' /\ IsStore(mem)' /\ IsStore(state)'
    BY <2>1 DEF TypeOK, IsStore
  <2>3. TypeOK' /\ Phases' /\ Selecting'
    BY <2>1, <2>2, FileNames DEF TypeOK, Phases, Selecting
  <2>4. Saving'
    BY <2>1, FileNames DEF Saving, UserDataFirst, Sel!UserDataFirst
  <2>5. Generations'
    BY <2>1, FileNames DEF Generations, Root
  <2>6. Authorizing'
    BY ConsoleApart
  <2> QED
    BY <2>3, <2>4, <2>5, <2>6
<1>4. CASE WriteConfigFiles
  <2> USE <1>4 DEF WriteConfigFiles
  <2>1. PICK f \in Sel!Files : /\ mem[f].gen > 0
                               /\ state' = [state EXCEPT ![f] = mem[f]]
                               /\ mem' = [mem EXCEPT ![f] = Sel!NoFile]
    OBVIOUS
  <2>2. machine.initrd /\ mem[f].gen = boots
    BY <2>1, EmptyStore DEF Generations, TypeOK
  <2>3. IsStore(file)' /\ IsStore(mem)' /\ IsStore(state)'
    <3>1. IsStore(file) /\ IsStore(mem) /\ IsStore(state) /\ boots \in Nat
      BY DEF TypeOK
    <3>2. UNCHANGED <<boots, file>> /\ Sel!NoFile.gen = 0
      BY DEF Sel!NoFile
    <3>3. /\ state = [g \in Sel!Files |-> state[g]] /\ mem = [g \in Sel!Files |-> mem[g]]
          /\ \A g \in Sel!Files : state[g].gen \in 0..boots /\ mem[g].gen \in 0..boots
      BY <3>1 DEF IsStore
    <3>4. /\ state' = [g \in Sel!Files |-> state'[g]] /\ mem' = [g \in Sel!Files |-> mem'[g]]
          /\ \A g \in Sel!Files : state'[g] \in {state[g], mem[f]}
                                 /\ mem'[g] \in {mem[g], Sel!NoFile}
      BY ONLY <2>1, <3>3
    <3>5. \A g \in Sel!Files : state'[g].gen \in 0..boots /\ mem'[g].gen \in 0..boots
      BY ONLY <2>1, <3>1, <3>2, <3>3, <3>4
    <3> QED
      BY ONLY <3>1, <3>2, <3>4, <3>5 DEF IsStore
  <2>4. TypeOK' /\ Phases'
    BY <2>3 DEF TypeOK, Phases
  <2>5. Selecting' /\ Saving'
    BY DEF Selecting, Saving, UserDataFirst, Sel!UserDataFirst
  <2>6. Generations'
    <3>1. \A g \in Sel!Files : /\ mem'[g].gen = mem[g].gen \/ mem'[g].gen = 0
                              /\ state'[g] = IF g = f THEN mem[f] ELSE state[g]
      BY <2>1 DEF TypeOK, IsStore, Sel!NoFile
    <3>2. ASSUME NEW g \in Sel!Files PROVE state'[g].gen >= state[g].gen
      <4>1. state[g].gen \in 0..boots /\ boots \in Nat
        BY DEF TypeOK, IsStore
      <4> QED
        BY ONLY <2>2, <3>1, <4>1
    <3> QED
      BY <2>2, <2>3, <3>1, <3>2, FileNames DEF Generations, Root, TypeOK, IsStore
  <2>7. Authorizing'
    BY DEF Phases, Authorizing, User
  <2> QED
    BY <2>4, <2>5, <2>6, <2>7
<1>5. CASE NetworkService
  <2> USE <1>5 DEF NetworkService
  <2>1. TypeOK' /\ Phases'
    <3>1. Root["network"].gen \in Nat
      BY FileNames DEF TypeOK, IsStore, Root
    <3>2. /\ applied' = [g \in {"network", "cloudConfig", "script"} |-> applied'[g]]
          /\ \A g \in {"network", "cloudConfig", "script"} : applied'[g] \in Nat
      BY <3>1 DEF TypeOK
    <3> QED
      BY <3>2 DEF TypeOK, IsStore, Phases
  <2>2. Selecting' /\ Saving'
    BY DEF Selecting, Saving, UserDataFirst, Sel!UserDataFirst
  <2>3. Generations'
    BY FileNames DEF Generations, Root, TypeOK, IsStore
  <2>4. Authorizing'
    BY ConsoleApart
  <2> QED
    BY <2>1, <2>2, <2>3, <2>4
<1>6. CASE StartServices
  <2> USE <1>6 DEF StartServices
  <2>1. TypeOK' /\ Phases'
    BY DEF TypeOK, IsStore, Phases, User
  <2>2. Selecting' /\ Saving' /\ Generations'
    BY DEF Selecting, Saving, UserDataFirst, Sel!UserDataFirst, Generations, Root
  <2>3. Authorizing'
    BY DEF Authorizing, SSHAuthorizedKeys, Field, Root, User
  <2> QED
    BY <2>1, <2>2, <2>3
<1> QED
  BY <1>1, <1>2, <1>3, <1>4, <1>5, <1>6 DEF BootStep

\* console-init authorizes the keys of one user, then of the other.
LEMMA ConsoleStepInv == IInv /\ ConsoleStep => IInv'
<1> SUFFICES ASSUME IInv, ConsoleStep PROVE IInv'
  OBVIOUS
<1> USE DEF IInv, Quiet, selectVars, bootVars
<1>1. ASSUME UNCHANGED <<boots, selectVars, file, bootVars>>, console # "none",
             TypeOK', Generations', Authorizing'
      PROVE  IInv'
  <2>1. Phases' /\ Selecting'
    BY <1>1 DEF Phases, Selecting
  <2>2. Saving'
    BY <1>1 DEF Saving, UserDataFirst, Sel!UserDataFirst
  <2> QED
    BY <1>1, <2>1, <2>2
<1>2. UNCHANGED <<boots, selectVars, file, bootVars>> /\ SSHAuthorizedKeys(Root)' = SSHAuthorizedKeys(Root)
  BY DEF ConsoleStep, AuthorizeSSHKey, NextUser, ApplyConsole, RunScript, SSHAuthorizedKeys,
     Field, Root
<1>3. CASE \E k \in Key : AuthorizeSSHKey(k)
  <2> USE <1>3 DEF AuthorizeSSHKey, User
  <2>1. TypeOK' /\ Generations'
    BY DEF TypeOK, IsStore, Generations, Root
  <2>2. Authorizing'
    BY <1>2 DEF Authorizing, Authorized, TypeOK
  <2> QED
    BY <1>1, <1>2, <2>1, <2>2
<1>4. CASE NextUser
  <2> USE <1>4 DEF NextUser, User
  <2>1. /\ console' \in {"docker", "files"} /\ missed' \in BOOLEAN
        /\ UNCHANGED <<auth, applied>>
    BY DEF TypeOK
  <2>2. TypeOK'
    BY <1>2, <2>1 DEF TypeOK, IsStore
  <2>3. Generations'
    BY <1>2, <2>1 DEF Generations, Root
  <2>4. Authorizing'
    BY <1>2 DEF Authorizing, Authorized, TypeOK
  <2> QED
    BY <1>1, <1>2, <2>2, <2>3, <2>4
<1>5. CASE ApplyConsole \/ RunScript
  <2> USE <1>5 DEF ApplyConsole, RunScript, User
  <2>1. PICK f \in {"cloudConfig", "script"} :
            applied' = [applied EXCEPT ![f] = Root[f].gen]
    OBVIOUS
  <2>2. Root[f].gen \in Nat
    BY FileNames DEF TypeOK, IsStore, Root
  <2>3. /\ applied' = [g \in {"network", "cloudConfig", "script"} |-> applied'[g]]
        /\ \A g \in {"network", "cloudConfig", "script"} : applied'[g] \in Nat
    BY <2>1, <2>2 DEF TypeOK
  <2>4. TypeOK'
    BY <2>3 DEF TypeOK, IsStore
  <2>5. Generations'
    <3>1. Root' = Root
      BY DEF Root
    <3>2. ASSUME NEW g \in {"network", "cloudConfig", "script"} PROVE applied'[g] <= Root[g].gen
      BY <2>1, <2>2 DEF Generations, TypeOK
    <3> QED
      BY <3>1, <3>2 DEF Generations
  <2>6. Authorizing'
    BY <1>2 DEF Authorizing, Authorized
  <2> QED
    BY <1>1, <1>2, <2>4, <2>5, <2>6
<1> QED
  BY <1>3, <1>4, <1>5 DEF ConsoleStep

\* A reboot keeps the state partition, or the only file system.
LEMMA RebootInv == IInv /\ Reboot => IInv'
<1> SUFFICES ASSUME IInv, Reboot PROVE IInv'
  OBVIOUS
<1> USE DEF IInv, Reboot, Sel!SelectGone, Sel!Forget
<1>1. /\ \A f \in Sel!Files : Sel!NoFiles[f].gen = 0
      /\ Sel!NoFiles = [f \in Sel!Files |-> Sel!NoFiles[f]]
      /\ Sel!None = None /\ boots' \in Nat \ {0} /\ boots' = boots + 1
  BY DEF TypeOK, Sel!None, None, Sel!NoFiles, Sel!NoFile
<1>2. IsStore(file)' /\ IsStore(mem)' /\ IsStore(state)'
  <2>1. \A f \in Sel!Files : file[f].gen \in 0..boots' /\ state[f].gen \in 0..boots'
    BY <1>1 DEF TypeOK, IsStore
  <2>2. file = [f \in Sel!Files |-> file[f]] /\ state = [f \in Sel!Files |-> state[f]]
    BY DEF TypeOK, IsStore
  <2> QED
    BY <1>1, <2>1, <2>2 DEF IsStore
<1>3. TypeOK' /\ Phases' /\ Selecting'
  BY <1>1, <1>2, FileNames DEF TypeOK, Phases, Selecting
<1>4. Saving'
  BY <1>1, FileNames DEF Saving, UserDataFirst, Sel!UserDataFirst
<1>5. Generations'
  BY <1>1, FileNames DEF Generations, Root
<1>6. Authorizing'
  BY DEF Authorizing, User
<1> QED
  BY <1>3, <1>4, <1>5, <1>6

\* The first boot finds no files.
LEMMA InitInv == Init => IInv
<1> SUFFICES ASSUME Init PROVE IInv
  OBVIOUS
<1> USE DEF Init, Sel!SelectInit
<1>1. /\ \A f \in Sel!Files : Sel!NoFiles[f].gen = 0
      /\ Sel!None = None /\ boots \in Nat \ {0} /\ IsStore(Sel!NoFiles)
  BY EmptyStore DEF Sel!None, None
<1>2. TypeOK /\ Phases /\ Selecting
  BY <1>1, FileNames DEF TypeOK, Phases, Selecting
<1>3. Saving
  BY <1>1, FileNames DEF Saving, UserDataFirst, Sel!UserDataFirst
<1>4. Generations
  BY <1>1, FileNames DEF Generations, Root
<1>5. Authorizing
  BY DEF Authorizing, User
<1> QED
  BY <1>2, <1>3, <1>4, <1>5 DEF IInv

\* Every step, and a step that changes nothing, keeps IInv.
LEMMA NextInv == IInv /\ [Next]_vars => IInv'
<1> SUFFICES ASSUME IInv, [Next]_vars PROVE IInv'
  OBVIOUS
<1>1. CASE NetStep
  BY <1>1, WatchedInv DEF NetStep, watched, execVars
<1>2. CASE SelStep
  BY <1>2, WaitStepInv, MainStepInv DEF SelStep, Sel!SelectStep, WaitStep
<1>3. CASE ExecuteStep
  BY <1>3, WatchedInv DEF ExecuteStep, ResizeDevice, ResizeStamp, Quiet, watched
<1>4. CASE UNCHANGED vars
  BY <1>4, WatchedInv DEF vars, watched, execVars
<1> QED
  BY <1>1, <1>2, <1>3, <1>4, BootStepInv, ConsoleStepInv, RebootInv DEF Next

\* IInv is an invariant of the specification.
LEMMA Inductive == Spec => []IInv
<1>1. Init => IInv
  BY InitInv
<1>2. IInv /\ [Next]_vars => IInv'
  BY NextInv
<1> QED
  BY <1>1, <1>2, PTL DEF Spec

-----------------------------------------------------------------------------
(* The host name and the name servers.                                     *)

Applying == {"create", "vlans", "links", "release", "dns", "nolist"}
HasLease(d) == \A l \in DOMAIN d : "lease" \in DOMAIN d[l]
Leaseless(d) == \A l \in DOMAIN d : d[l].lease = None

\* While a configuration is applied the user's host name is in force; a link has a
\* lease only when dhcpcd has written resolv.conf or the user's is still to be.
Naming ==
    /\ step \in Applying \cup {"idle", "applied"}
    /\ HasLease(dev)
    /\ step # "idle" /\ cfg.named => hostname = "user"
    /\ step = "idle" => Leaseless(dev)
    /\ Leaseless(dev) \/ resolv # None \/ (cfg.dns /\ step \in Applying)
    /\ Net!NamesInForce

\* A configuration is started on.
LEMMA StartNaming ==
  ASSUME Naming, NEW u, NEW fs, Net!StartApply(LoadConfig(u, fs))
  PROVE  Naming'
<1>1. PICK c : c = LoadConfig(u, fs)
  OBVIOUS
<1>2. cfg' = Net!PopulateDefault(c) /\ hostname' = Net!HostnameOf(c)
      /\ step \in {"idle", "applied"} /\ step' = "create" /\ UNCHANGED <<dev, resolv>>
  BY <1>1 DEF Net!StartApply
<1>3. cfg'.named = c.named
  <2>1. "named" \in DOMAIN c
    BY <1>1 DEF LoadConfig
  <2> QED
    BY <1>2, <2>1 DEF Net!PopulateDefault
<1>4. cfg'.named => hostname' = "user"
  BY <1>2, <1>3 DEF Net!HostnameOf
<1>5. Leaseless(dev) \/ resolv # None
  BY <1>2 DEF Naming, Net!NamesInForce, Net!None, None, Applying
<1> QED
  BY <1>2, <1>4, <1>5 DEF Naming, Applying, Net!NamesInForce, HasLease, Leaseless

\* A step that gives no lease.
LEMMA LeaseKept ==
  ASSUME Naming, UNCHANGED <<resolv, hostname, cfg>>, HasLease(dev'),
         Leaseless(dev) => Leaseless(dev'), step \in Applying, step' \in Applying
  PROVE  Naming'
BY DEF Naming, Applying, Net!NamesInForce, HasLease, Leaseless

\* Links are created without a lease.
LEMMA AddedLeaseless ==
  ASSUME HasLease(dev), NEW bonds, NEW bridges
  PROVE  /\ HasLease(Net!AddLinks(bonds, bridges))
         /\ Leaseless(dev) => Leaseless(Net!AddLinks(bonds, bridges))
<1>1. \A type, mac : /\ "lease" \in DOMAIN Net!NewLink(type, mac)
                     /\ Net!NewLink(type, mac).lease = None
  BY DEF Net!NewLink, Net!None, None
<1>2. PICK all : all = Net!AddLinks(bonds, bridges)
  OBVIOUS
<1>3. /\ DOMAIN all = DOMAIN dev \cup bonds \cup bridges
      /\ \A l \in DOMAIN all :
            \/ l \in DOMAIN dev /\ all[l] = dev[l]
            \/ \E type, mac : all[l] = Net!NewLink(type, mac)
  BY <1>2 DEF Net!AddLinks
<1>4. HasLease(all) /\ (Leaseless(dev) => Leaseless(all))
  BY <1>1, <1>3 DEF HasLease, Leaseless
<1> QED
  BY <1>2, <1>4

\* So do createInterfaces and createSlaveInterfaces.
LEMMA CreateNaming == Naming /\ (Net!CreateInterfaces \/ Net!CreateSlaveInterfaces) => Naming'
<1> SUFFICES ASSUME Naming, Net!CreateInterfaces \/ Net!CreateSlaveInterfaces PROVE Naming'
  OBVIOUS
<1>n. \A type, mac : /\ "lease" \in DOMAIN Net!NewLink(type, mac)
                     /\ Net!NewLink(type, mac).lease = None
  BY DEF Net!NewLink, Net!None, None
<1>1. CASE Net!CreateInterfaces
  <2>1. PICK bonds, bridges, moded : dev' = Net!SetMode(Net!AddLinks(bonds, bridges), moded)
    BY <1>1 DEF Net!CreateInterfaces
  <2>2. PICK all : all = Net!AddLinks(bonds, bridges)
    OBVIOUS
  <2>3. HasLease(all) /\ (Leaseless(dev) => Leaseless(all))
    BY <2>2, AddedLeaseless DEF Naming
  <2>4. HasLease(dev') /\ (Leaseless(all) => Leaseless(dev'))
    <3>1. /\ DOMAIN dev' = DOMAIN all
          /\ \A l \in DOMAIN all : \/ dev'[l] = all[l]
                                   \/ dev'[l] = [all[l] EXCEPT !.up = FALSE, !.mac = l]
                                   \/ dev'[l] = [all[l] EXCEPT !.master = Net!None, !.up = FALSE]
      BY <2>1, <2>2 DEF Net!SetMode
    <3> QED
      BY <2>3, <3>1 DEF HasLease, Leaseless
  <2>5. step = "create" /\ step' = "vlans" /\ UNCHANGED <<resolv, hostname, cfg>>
    BY <1>1 DEF Net!CreateInterfaces
  <2> QED
    BY <2>3, <2>4, <2>5, LeaseKept DEF Applying
<1>2. CASE Net!CreateSlaveInterfaces
  <2>1. PICK pick : dev' = [v \in DOMAIN dev \cup UNION Net!Range(pick) |->
                             IF v \in DOMAIN dev THEN dev[v]
                             ELSE Net!NewVlan(CHOOSE l \in DOMAIN dev : v \in pick[l])]
    BY <1>2 DEF Net!CreateSlaveInterfaces
  <2>2. \A v \in DOMAIN dev' : \/ v \in DOMAIN dev /\ dev'[v] = dev[v]
                               \/ \E type, mac : dev'[v] = Net!NewLink(type, mac)
    BY <2>1 DEF Net!NewVlan
  <2>3. HasLease(dev') /\ (Leaseless(dev) => Leaseless(dev'))
    BY <1>n, <2>2 DEF HasLease, Leaseless, Naming
  <2>4. step = "vlans" /\ step' \in {"links", "nolist"} /\ UNCHANGED <<resolv, hostname, cfg>>
    BY <1>2 DEF Net!CreateSlaveInterfaces
  <2> QED
    BY <2>3, <2>4, LeaseKept DEF Applying
<1> QED
  BY <1>1, <1>2

\* One link is changed, and no lease is given.
LEMMA LinkChanged ==
  ASSUME NEW d, HasLease(d), NEW l, NEW r,
         l \in DOMAIN d => "lease" \in DOMAIN r /\ r.lease \in {d[l].lease, None}
  PROVE  HasLease([d EXCEPT ![l] = r]) /\ (Leaseless(d) => Leaseless([d EXCEPT ![l] = r]))
<1>1. PICK e : e = [d EXCEPT ![l] = r]
  OBVIOUS
<1>2. DOMAIN e = DOMAIN d /\ \A x \in DOMAIN d : e[x] = IF x = l THEN r ELSE d[x]
  BY <1>1
<1>3. HasLease(e) /\ (Leaseless(d) => Leaseless(e))
  BY <1>2 DEF HasLease, Leaseless
<1> QED
  BY <1>1, <1>3

\* applyInterfaceConfig gives no lease.
LEMMA StaticNaming == Naming /\ Net!ApplyStatic => Naming'
<1> SUFFICES ASSUME Naming, Net!ApplyStatic PROVE Naming'
  OBVIOUS
<1>1. PICK l, iface : Net!ApplyInterfaceConfig(l, iface)
  BY DEF Net!ApplyStatic
<1>2. /\ step = "links" /\ step' \in {"links", "release"} /\ UNCHANGED <<resolv, hostname, cfg>>
  BY DEF Net!ApplyStatic
<1>h. HasLease(dev)
  BY DEF Naming
<1>3. HasLease(dev') /\ (Leaseless(dev) => Leaseless(dev'))
  <2>0. ASSUME NEW d, NEW bonds, NEW bridges, d \in {dev, Net!AddLinks(bonds, bridges)}
        PROVE  HasLease(d) /\ (Leaseless(dev) => Leaseless(d))
    BY <1>h, <2>0, AddedLeaseless
  <2>1. ASSUME NEW bonds, NEW bridges, NEW b, NEW d, d = Net!AddLinks(bonds, bridges),
               dev' = Net!Enslave(d, l, b) \/ dev' = Net!AddPort(d, l, b)
        PROVE  HasLease(dev') /\ (Leaseless(dev) => Leaseless(dev'))
    <3>2. HasLease(d) /\ (Leaseless(dev) => Leaseless(d))
      BY <2>0, <2>1
    <3>3. /\ DOMAIN dev' = DOMAIN d
          /\ \A x \in DOMAIN d : "lease" \in DOMAIN dev'[x] /\ dev'[x].lease = d[x].lease
      <4>1. CASE dev' = Net!Enslave(d, l, b)
        BY <3>2, <4>1 DEF HasLease, Net!Enslave
      <4>2. CASE dev' = Net!AddPort(d, l, b)
        BY <3>2, <4>2 DEF HasLease, Net!AddPort
      <4> QED
        BY <2>1, <4>1, <4>2
    <3> QED
      BY <3>2, <3>3 DEF HasLease, Leaseless
  <2>2. ASSUME NEW bonds, NEW bridges, NEW d, d \in {dev, Net!AddLinks(bonds, bridges)},
               dev' = [d EXCEPT ![l].up = FALSE]
        PROVE  HasLease(dev') /\ (Leaseless(dev) => Leaseless(dev'))
    <3>1. PICK r : r = [d[l] EXCEPT !.up = FALSE]
      OBVIOUS
    <3>2. HasLease(d) /\ (Leaseless(dev) => Leaseless(d))
      BY <2>0, <2>2
    <3>3. l \in DOMAIN d => "lease" \in DOMAIN r /\ r.lease = d[l].lease
      BY <3>1, <3>2 DEF HasLease
    <3>4. dev' = [d EXCEPT ![l] = r]
      BY <2>2, <3>1
    <3> QED
      BY <3>2, <3>3, <3>4, LinkChanged
  <2>3. CASE \E addrs : dev' \in {[dev EXCEPT ![l] = Net!Addressed(dev[l], iface)],
               [dev EXCEPT ![l] = [Net!Addressed(dev[l], iface) EXCEPT !.up = TRUE]],
               [dev EXCEPT ![l] = [Net!Addressed(dev[l], iface) EXCEPT !.up = TRUE, !.addrs = addrs]]}
    <3>0. PICK new : new = Net!Addressed(dev[l], iface)
      OBVIOUS
    <3>1. l \in DOMAIN dev => "lease" \in DOMAIN new /\ new.lease = dev[l].lease
      BY <1>h, <3>0 DEF HasLease, Net!Addressed
    <3>2. PICK addrs : dev' \in {[dev EXCEPT ![l] = new], [dev EXCEPT ![l] = [new EXCEPT !.up = TRUE]],
                                 [dev EXCEPT ![l] = [new EXCEPT !.up = TRUE, !.addrs = addrs]]}
      BY <2>3, <3>0
    <3>3. PICK r : r \in {new, [new EXCEPT !.up = TRUE], [new EXCEPT !.up = TRUE, !.addrs = addrs]}
                   /\ dev' = [dev EXCEPT ![l] = r]
      BY <3>2
    <3>4. l \in DOMAIN dev => "lease" \in DOMAIN r /\ r.lease = dev[l].lease
      BY <3>1, <3>3
    <3> QED
      BY <1>h, <3>3, <3>4, LinkChanged
  <2>4. CASE "bond" \in DOMAIN iface
    <3>1. \/ dev' = Net!Enslave(Net!AddLinks({iface.bond}, {}), l, iface.bond)
          \/ dev' \in {[d EXCEPT ![l].up = FALSE] : d \in {dev, Net!AddLinks({iface.bond}, {})}}
          \/ dev' = dev
      BY <1>1, <2>4 DEF Net!ApplyInterfaceConfig
    <3> QED
      BY <1>h, <2>1, <2>2, <3>1
  <2>5. CASE "bond" \notin DOMAIN iface /\ Net!Get(iface, "bridge", "true") # "true"
    <3>1. \/ dev' = Net!AddPort(Net!AddLinks({}, {iface.bridge}), l, iface.bridge)
          \/ dev' \in {dev, Net!AddLinks({}, {iface.bridge})}
      BY <1>1, <2>5 DEF Net!ApplyInterfaceConfig
    <3> QED
      BY <2>0, <2>1, <3>1
  <2>6. CASE "bond" \notin DOMAIN iface /\ Net!Get(iface, "bridge", "true") = "true"
    BY <1>1, <1>h, <2>3, <2>6 DEF Net!ApplyInterfaceConfig
  <2> QED
    BY <2>4, <2>5, <2>6
<1> QED
  BY <1>2, <1>3, LeaseKept DEF Applying

\* dhcpcd, which writes resolv.conf and sets the host name where the user has not.
LEMMA DhcpNaming == Naming /\ (Net!ApplyDhcp \/ Net!ReleaseLease) => Naming'
<1> SUFFICES ASSUME Naming, Net!ApplyDhcp \/ Net!ReleaseLease PROVE Naming'
  OBVIOUS
<1>h. HasLease(dev)
  BY DEF Naming
<1>r. ASSUME NEW l
      PROVE  l \in DOMAIN dev => /\ "lease" \in DOMAIN Net!Released(dev[l])
                                 /\ Net!Released(dev[l]).lease = None
  BY <1>h DEF HasLease, Net!Released, Net!None, None
<1>1. CASE Net!ReleaseLease
  <2>1. PICK l : dev' = [dev EXCEPT ![l] = Net!Released(dev[l])]
    BY <1>1 DEF Net!ReleaseLease
  <2>2. HasLease(dev') /\ (Leaseless(dev) => Leaseless(dev'))
    BY <1>h, <1>r, <2>1, LinkChanged
  <2>3. step = "release" /\ step' = "links" /\ UNCHANGED <<resolv, hostname, cfg>>
    BY <1>1 DEF Net!ReleaseLease
  <2> QED
    BY <2>2, <2>3, LeaseKept DEF Applying
<1>2. CASE Net!ApplyDhcp
  <2>1. PICK l, iface : Net!RunDhcp(l, iface)
    BY <1>2 DEF Net!ApplyDhcp
  <2>2. step = "links" /\ UNCHANGED <<step, cfg>>
    BY <1>2 DEF Net!ApplyDhcp
  <2>3. PICK start : /\ start = IF "wifi" \in DOMAIN iface
                                THEN [Net!Released(dev[l]) EXCEPT !.addrs = {}] ELSE dev[l]
                     /\ \/ /\ dev' = [dev EXCEPT ![l] = Net!Leased(l, start)]
                           /\ resolv' = IF cfg.dns THEN resolv ELSE "dhcp"
                           /\ hostname' = IF cfg.named THEN hostname ELSE "dhcp"
                        \/ dev' = [dev EXCEPT ![l] = start] /\ UNCHANGED <<resolv, hostname>>
    BY <2>1 DEF Net!RunDhcp
  <2>4. l \in DOMAIN dev => "lease" \in DOMAIN start /\ start.lease \in {dev[l].lease, None}
    BY <1>h, <1>r, <2>3 DEF HasLease
  <2>5. CASE dev' = [dev EXCEPT ![l] = start] /\ UNCHANGED <<resolv, hostname>>
    <3>1. HasLease(dev') /\ (Leaseless(dev) => Leaseless(dev'))
      BY <1>h, <2>4, <2>5, LinkChanged
    <3> QED
      BY <2>2, <2>5, <3>1, LeaseKept DEF Applying
  <2>6. CASE /\ dev' = [dev EXCEPT ![l] = Net!Leased(l, start)]
             /\ resolv' = IF cfg.dns THEN resolv ELSE "dhcp"
             /\ hostname' = IF cfg.named THEN hostname ELSE "dhcp"
    <3>1. PICK r : r = Net!Leased(l, start)
      OBVIOUS
    <3>2. l \in DOMAIN dev => "lease" \in DOMAIN r
      BY <2>4, <3>1 DEF Net!Leased
    <3>3. DOMAIN dev' = DOMAIN dev /\ \A x \in DOMAIN dev : dev'[x] = IF x = l THEN r ELSE dev[x]
      BY <2>6, <3>1
    <3>4. HasLease(dev')
      BY <1>h, <3>2, <3>3 DEF HasLease
    <3>5. cfg.dns \/ resolv' # None
      BY <2>6 DEF None
    <3>6. cfg.named => hostname' = "user"
      BY <2>2, <2>6 DEF Naming
    <3> QED
      BY <2>2, <3>4, <3>5, <3>6 DEF Naming, Applying, Net!NamesInForce, HasLease, Leaseless
  <2> QED
    BY <2>3, <2>5, <2>6
<1> QED
  BY <1>1, <1>2

\* SetDNS is last: where it leaves resolv.conf alone, somebody has written it.
LEMMA NetStepNaming == Naming /\ Net!ApplyStep => Naming'
<1> SUFFICES ASSUME Naming, Net!ApplyStep PROVE Naming'
  OBVIOUS
<1>1. CASE Net!SkipLink \/ Net!LinksDone
  BY <1>1, LeaseKept DEF Net!SkipLink, Net!LinksDone, Net!kernel, Naming, Applying
<1>2. CASE Net!SetDNS
  <2>1. /\ step \in {"dns", "nolist"} /\ step' = "applied" /\ UNCHANGED <<dev, hostname, cfg>>
        /\ resolv' = IF cfg.dns THEN "user"
                     ELSE IF step = "dns" /\ ~Leaseless(dev) THEN resolv ELSE "default"
    BY <1>2 DEF Net!SetDNS, Leaseless, Net!None, None
  <2>2. cfg.named => hostname = "user"
    BY <2>1 DEF Naming
  <2>3. resolv' # None /\ (cfg.dns => resolv' = "user")
    BY <2>1 DEF Naming, None
  <2> QED
    BY <2>1, <2>2, <2>3 DEF Naming, Net!NamesInForce, Net!None, None, HasLease, Leaseless, Applying
<1> QED
  BY <1>1, <1>2, CreateNaming, StaticNaming, DhcpNaming DEF Net!ApplyStep

\* The machine starts without a lease.
LEMMA FreshNaming ==
  ASSUME NEW d, d = Net!FreshLinks
  PROVE  HasLease(d) /\ Leaseless(d)
BY DEF Net!FreshLinks, Net!NewLink, HasLease, Leaseless, Net!None, None

\* All steps of a boot.
LEMMA NextNaming == Naming /\ [Next]_vars => Naming'
<1> SUFFICES ASSUME Naming, [Next]_vars PROVE Naming'
  OBVIOUS
<1>0. ASSUME UNCHANGED <<dev, resolv, hostname, step, cfg>> PROVE Naming'
  BY <1>0 DEF Naming, Net!NamesInForce, HasLease, Leaseless
<1>1. CASE NetStep
  BY <1>1, NetStepNaming DEF NetStep
<1>2. CASE SelStep
  BY <1>0, <1>2 DEF SelStep, SelQuiet
<1>3. CASE BootStep
  <2>1. CASE ApplyBefore \/ NetworkService
    BY <2>1, StartNaming DEF ApplyBefore, NetworkService
  <2>2. CASE ApplyAfter
    BY <1>0, <2>2, StartNaming DEF ApplyAfter, netVars
  <2>3. CASE CloudInit \/ StartSelect \/ ReadConfigFiles \/ WriteConfigFiles \/ StartServices
    BY <1>0, <2>3 DEF CloudInit, StartSelect, SelQuiet, ReadConfigFiles, WriteConfigFiles,
       StartServices, netVars
  <2> QED
    BY <1>3, <2>1, <2>2, <2>3 DEF BootStep
<1>4. CASE ConsoleStep \/ ExecuteStep
  BY <1>0, <1>4 DEF ConsoleStep, AuthorizeSSHKey, NextUser, ApplyConsole, RunScript, ExecuteStep,
     ResizeDevice, ResizeStamp, Quiet
<1>5. CASE Reboot
  <2>1. step' = "idle" /\ dev' = Net!FreshLinks
    BY <1>5 DEF Reboot, Net!FreshKernel
  <2>2. HasLease(dev') /\ Leaseless(dev')
    BY <2>1, FreshNaming
  <2> QED
    BY <2>1, <2>2 DEF Naming, Net!NamesInForce, HasLease, Leaseless, Applying
<1>6. CASE UNCHANGED vars
  BY <1>0, <1>6 DEF vars, netVars
<1> QED
  BY <1>1, <1>2, <1>3, <1>4, <1>5, <1>6 DEF Next

-----------------------------------------------------------------------------
(* The links.                                                              *)

\* s lists every element of S once.
Elems(s) == {s[i] : i \in DOMAIN s}
Enumerates(s, S) ==
    /\ s \in Seq(S) /\ Elems(s) = S
    /\ \A i, j \in DOMAIN s : s[i] = s[j] => i = j

\* SetToSeq lists a finite set.
LEMMA SetToSeqLists ==
  ASSUME NEW S, IsFiniteSet(S) PROVE Enumerates(Net!SetToSeq(S), S)
<1> DEFINE n == Cardinality(S)
           s == Net!SetToSeq(S)
<1>1. n \in Nat /\ ExistsBijection(1..n, S)
  BY FS_CardinalityType
<1>2. \E f \in [1..n -> S] : \A a, b \in DOMAIN f : f[a] = f[b] => a = b
  BY <1>1 DEF ExistsBijection, Bijection, Injection, IsInjective
<1>3. s = CHOOSE f \in [1..n -> S] : \A a, b \in DOMAIN f : f[a] = f[b] => a = b
  BY DEF Net!SetToSeq, Net!IsInjective, Net!Cardinality, Cardinality
<1>4. s \in [1..n -> S] /\ \A a, b \in DOMAIN s : s[a] = s[b] => a = b
  BY <1>2, <1>3
<1> HIDE DEF s, n
<1>5. s \in Injection(1..n, S)
  BY <1>4 DEF Injection, IsInjective
<1>6. IsFiniteSet(1..n) /\ Cardinality(1..n) = n
  BY <1>1, FS_Interval
<1>7. s \in Surjection(1..n, S)
  BY <1>5, <1>6, FS_Injection DEF n
<1>8. Elems(s) = S
  BY <1>4, <1>7 DEF Surjection, Elems
<1>9. s \in Seq(S)
  BY <1>1, <1>4
<1> QED
  BY <1>4, <1>8, <1>9 DEF Enumerates, s

\* One list after the other.
LEMMA ConcatLists ==
  ASSUME NEW s, NEW S, NEW t, NEW T, Enumerates(s, S), Enumerates(t, T), S \cap T = {}
  PROVE  Enumerates(s \o t, S \cup T)
<1>1. s \in Seq(S \cup T) /\ t \in Seq(S \cup T)
  BY SeqMonotonic DEF Enumerates
<1>2. /\ s \o t \in Seq(S \cup T) /\ Len(s) \in Nat /\ Len(t) \in Nat
      /\ DOMAIN s = 1..Len(s) /\ DOMAIN t = 1..Len(t)
      /\ DOMAIN (s \o t) = 1..(Len(s) + Len(t))
  BY <1>1, ConcatProperties, LenProperties
<1>3. /\ \A i \in DOMAIN s : i \in DOMAIN (s \o t) /\ (s \o t)[i] = s[i]
      /\ \A i \in DOMAIN t : Len(s) + i \in DOMAIN (s \o t) /\ (s \o t)[Len(s) + i] = t[i]
      /\ \A i \in DOMAIN (s \o t) :
            \/ i \in DOMAIN s /\ (s \o t)[i] = s[i]
            \/ i - Len(s) \in DOMAIN t /\ (s \o t)[i] = t[i - Len(s)]
  BY <1>1, <1>2, ConcatProperties
<1>4. Elems(s \o t) = S \cup T
  <2>1. Elems(s \o t) \subseteq Elems(s) \cup Elems(t)
    BY <1>3 DEF Elems
  <2>2. Elems(s) \subseteq Elems(s \o t) /\ Elems(t) \subseteq Elems(s \o t)
    BY <1>3 DEF Elems
  <2> QED
    BY <2>1, <2>2 DEF Enumerates
<1>5. ASSUME NEW i \in DOMAIN (s \o t), NEW j \in DOMAIN (s \o t), (s \o t)[i] = (s \o t)[j]
      PROVE  i = j
  <2>1. \A x \in DOMAIN s : s[x] \in S
    BY DEF Enumerates, Elems
  <2>2. \A x \in DOMAIN t : t[x] \in T
    BY DEF Enumerates, Elems
  <2>3. CASE i \in DOMAIN s /\ j \in DOMAIN s
    BY <1>3, <1>5, <2>3 DEF Enumerates
  <2>4. CASE i \notin DOMAIN s /\ j \notin DOMAIN s
    <3>1. i - Len(s) = j - Len(s)
      BY <1>3, <1>5, <2>4 DEF Enumerates
    <3> QED
      BY <1>2, <3>1
  <2> QED
    BY <1>3, <1>5, <2>1, <2>2, <2>3, <2>4
<1> QED
  BY <1>2, <1>4, <1>5 DEF Enumerates

\* The head of a list is not in its tail.
LEMMA TailLists ==
  ASSUME NEW s, NEW S, Enumerates(s, S), s # <<>>
  PROVE  Head(s) \in S /\ Enumerates(Tail(s), S \ {Head(s)})
<1>1. /\ s \in Seq(S) /\ Len(s) \in Nat \ {0} /\ DOMAIN s = 1..Len(s)
      /\ Head(s) = s[1] /\ Head(s) \in S
  BY EmptySeq, LenProperties, HeadTailProperties DEF Enumerates
<1>2. /\ Tail(s) \in Seq(S) /\ DOMAIN Tail(s) = 1..(Len(s) - 1)
      /\ \A i \in DOMAIN Tail(s) : Tail(s)[i] = s[i + 1]
  BY <1>1, HeadTailProperties, LenProperties
<1>3. \A i \in DOMAIN Tail(s) : i + 1 \in DOMAIN s /\ i + 1 # 1
  BY <1>1, <1>2
<1>4. \A i, j \in DOMAIN Tail(s) : Tail(s)[i] = Tail(s)[j] => i = j
  BY <1>1, <1>2, <1>3 DEF Enumerates
<1>5. Elems(Tail(s)) \subseteq S \ {Head(s)}
  BY <1>1, <1>2, <1>3 DEF Elems, Enumerates
<1>6. ASSUME NEW x \in S, x # Head(s) PROVE x \in Elems(Tail(s))
  <2>1. PICK i \in DOMAIN s : s[i] = x
    BY DEF Enumerates, Elems
  <2>2. i - 1 \in DOMAIN Tail(s) /\ (i - 1) + 1 = i
    BY <1>1, <1>2, <1>6, <2>1
  <2>3. Tail(s)[i - 1] = x
    BY <1>2, <2>1, <2>2
  <2> QED
    BY <2>2, <2>3 DEF Elems
<1>7. Elems(Tail(s)) = S \ {Head(s)}
  BY <1>5, <1>6
<1>8. Tail(s) \in Seq(S \ {Head(s)})
  <2>1. \A i \in DOMAIN Tail(s) : Tail(s)[i] \in S \ {Head(s)}
    BY <1>5 DEF Elems
  <2>2. PICK n \in Nat : Tail(s) \in [1..n -> S]
    BY <1>2, LenProperties
  <2>3. Tail(s) \in [1..n -> S \ {Head(s)}]
    BY <2>1, <2>2
  <2>4. ASSUME NEW T, NEW t \in [1..n -> T] PROVE t \in Seq(T)
    BY <2>2
  <2> QED
    BY <2>3, <2>4
<1> QED
  BY <1>1, <1>4, <1>7, <1>8 DEF Enumerates

Wifi == Elems(Wireless)
IsLink(r) == {"mac", "up", "master", "addrs", "lease", "linkLocal"} \subseteq DOMAIN r

\* The links that a configuration asks for.
Vlans == UNION {Net!Get(cfg.ifaces[k], "vlans", {}) : k \in DOMAIN cfg.ifaces}
Asked == Net!Bonds \cup Net!Bridges \cup Vlans

\* Configurations that the links can follow, when BondName are the names of the
\* bonds: they ask for finitely many links, an entry is a slave or has to do with
\* a bridge, bonds are no slaves of bonds, and bridges are no bonds.
Tidy ==
    /\ IsFiniteSet(Asked)
    /\ \A k \in DOMAIN cfg.ifaces :
          "bond" \in DOMAIN cfg.ifaces[k] =>
              cfg.ifaces[k].bond \in BondName /\ "bridge" \notin DOMAIN cfg.ifaces[k]
    /\ Net!Bridges \cap BondName = {}
    /\ \A l \in BondName : \A iface \in Net!Meant(l) : "bond" \notin DOMAIN iface

\* findMatch takes what is meant for a link, though MAC addresses are inherited;
\* or it finds a bridge that was listed with the address of its own port, and the
\* kernel refuses.
OwnPort(l, iface) ==
    /\ ~Net!Dhcp(iface) /\ "bond" \notin DOMAIN iface
    /\ Net!Get(iface, "bridge", "true") = l /\ l # "true"
Unambiguous ==
    step = "links" => \A l \in Elems(todo) :
        /\ \A iface \in Net!FindMatch(l) : iface \in Net!Meant(l) \/ OwnPort(l, iface)
        /\ Net!FindMatch(l) = {} => Net!Meant(l) = {}

ByName == \A k \in DOMAIN cfg.ifaces : Net!Get(cfg.ifaces[k], "match", k) \notin DOMAIN Mac

\* The names and the records of the links.
Linked(d, x) ==
    /\ \A l \in DOMAIN d : IsLink(d[l])
    /\ Wifi \subseteq DOMAIN d /\ Enumerates(x, DOMAIN d \ Wifi)
    /\ \A l \in DOMAIN d \cap BondName : d[l].master \notin BondName

\* The bonds that createInterfaces has given a mode, the links still to do, and
\* those that are as configured.
Moded == {b \in Net!Bonds \ broken : Net!ModeOf(b) # None}
Waiting ==
    IF step = "vlans" THEN DOMAIN dev
    ELSE IF step = "links" THEN Elems(todo)
    ELSE IF step = "release" THEN Elems(todo) \ {Head(todo)} ELSE {}
Conforms(l) ==
    \/ l \in broken \/ Net!Meant(l) = {}
    \/ \E iface \in Net!Meant(l) : Net!Reflects(l, iface)
\* A link that was configured without DHCP, and is to give back a lease.
Settled(l) ==
    \/ l \in broken \/ Net!Meant(l) = {}
    \/ \E iface \in Net!Meant(l) : ~Net!Dhcp(iface) /\ Net!Reflects(l, iface)

\* How far the links are at each step.
Configuring ==
    /\ step \in {"links", "release"} =>
           Enumerates(todo, Elems(todo)) /\ Elems(todo) \subseteq DOMAIN dev
    /\ step = "release" => todo # <<>> /\ Settled(Head(todo))
    /\ step \in {"vlans", "links", "release"} =>
           \A b \in Moded : b \in DOMAIN mode /\ mode[b] = Net!ModeOf(b)
    /\ \A l \in Waiting : dev[l].master \notin Moded
    /\ step \in {"links", "release", "dns"} =>
           \A l \in DOMAIN dev \ Waiting : Conforms(l)
    /\ step = "nolist" => "list" \in broken
    /\ step = "applied" => "list" \in broken \/ \A l \in DOMAIN dev : Conforms(l)

LinkInv == Linked(dev, index) /\ Configuring

\* What a step about link l does to the links.
Effect(l) ==
    /\ UNCHANGED <<mode, cfg>>
    /\ broken \subseteq broken' /\ returned \subseteq returned'
    /\ DOMAIN dev \subseteq DOMAIN dev'
    /\ \A x \in DOMAIN dev' : IsLink(dev'[x])
    /\ \A x \in DOMAIN dev' \ DOMAIN dev : x \in broken' /\ dev'[x].master = None
    /\ \A x \in DOMAIN dev \ {l} :
          /\ dev'[x].master = dev[x].master /\ dev'[x].up = dev[x].up
          /\ dev'[x].addrs = dev[x].addrs /\ dev'[x].linkLocal = dev[x].linkLocal
          /\ dev'[x].lease = dev[x].lease
    /\ l \in BondName => dev'[l].master \notin BondName
    /\ Conforms(l)'

\* What the configuration says.
LEMMA SameMeaning ==
  ASSUME UNCHANGED cfg
  PROVE  /\ Net!Bonds' = Net!Bonds
         /\ \A b : Net!ModeOf(b)' = Net!ModeOf(b)
         /\ \A l : Net!Meant(l)' = Net!Meant(l)
<1>1. Net!Bonds' = Net!Bonds
  BY DEF Net!Bonds
<1>2. \A b : Net!ModeOf(b)' = Net!ModeOf(b)
  BY DEF Net!ModeOf
<1>3. \A l : Net!Meant(l)' = Net!Meant(l)
  BY DEF Net!Meant
<1> QED
  BY <1>1, <1>2, <1>3

\* A link that is left alone stays as configured.
LEMMA StillConforms ==
  ASSUME NEW l, Conforms(l), UNCHANGED <<cfg, mode>>,
         broken \subseteq broken', returned \subseteq returned',
         dev'[l].master = dev[l].master, dev'[l].up = dev[l].up,
         dev'[l].addrs = dev[l].addrs, dev'[l].linkLocal = dev[l].linkLocal,
         dev'[l].lease = dev[l].lease
  PROVE  Conforms(l)' /\ (Settled(l) => Settled(l)')
<1>1. Net!Meant(l)' = Net!Meant(l) /\ \A b : Net!ModeOf(b)' = Net!ModeOf(b)
  BY SameMeaning
<1>2. ASSUME NEW iface, Net!Reflects(l, iface) PROVE Net!Reflects(l, iface)'
  BY <1>1, <1>2 DEF Net!Reflects
<1> QED
  BY <1>1, <1>2 DEF Conforms, Settled

\* One link is done.
LEMMA OneLink ==
  ASSUME LinkInv, Tidy, step \in {"links", "release"}, todo # <<>>, None \notin BondName,
         NEW l, l = Head(todo), Effect(l), Enumerates(index', DOMAIN dev' \ Wifi),
         \/ step' = "links" /\ todo' = Tail(todo)
         \/ step' = "release" /\ todo' = todo /\ Settled(l)'
  PROVE  LinkInv'
<1>1. /\ l \in Elems(todo) /\ Enumerates(Tail(todo), Elems(todo) \ {l})
      /\ Elems(Tail(todo)) = Elems(todo) \ {l}
  BY TailLists DEF LinkInv, Configuring, Enumerates
<1>2. Waiting' = Elems(todo) \ {l} /\ Waiting' \subseteq Waiting
  BY <1>1 DEF Waiting
<1>3. /\ Elems(todo) \subseteq DOMAIN dev /\ l \in DOMAIN dev
      /\ Enumerates(todo, Elems(todo))
  BY <1>1 DEF LinkInv, Configuring
<1>4. Moded' \subseteq Moded /\ \A b : Net!ModeOf(b)' = Net!ModeOf(b)
  BY SameMeaning DEF Moded, Effect
<1>5. Linked(dev, index)'
  <2>1. Wifi' = Wifi
    OBVIOUS
  <2>2. \A x \in DOMAIN dev' \cap BondName : dev'[x].master \notin BondName
    BY <1>3 DEF Effect, LinkInv, Linked
  <2> QED
    BY <2>2 DEF Linked, LinkInv, Effect
<1>6. Enumerates(todo, Elems(todo))' /\ Elems(todo)' \subseteq DOMAIN dev'
  BY <1>1, <1>3 DEF Effect
<1>7. \A b \in Moded' : b \in DOMAIN mode' /\ mode'[b] = Net!ModeOf(b)'
  BY <1>4 DEF LinkInv, Configuring, Effect
<1>8. \A x \in Waiting' : dev'[x].master \notin Moded'
  BY <1>2, <1>3, <1>4 DEF LinkInv, Configuring, Effect
<1>9. ASSUME NEW x \in DOMAIN dev' \ Waiting' PROVE Conforms(x)'
  <2>1. CASE x \notin DOMAIN dev
    BY <2>1 DEF Effect, Conforms
  <2>2. CASE x \in DOMAIN dev /\ x # l
    <3>1. Conforms(x)
      BY <1>1, <1>2, <2>2 DEF LinkInv, Configuring, Waiting
    <3> QED
      BY <2>2, <3>1, StillConforms DEF Effect
  <2> QED
    BY <2>1, <2>2 DEF Effect
<1>10. step' = "release" => todo' # <<>> /\ Settled(Head(todo))'
  OBVIOUS
<1>11. Configuring'
  BY <1>6, <1>7, <1>8, <1>9, <1>10 DEF Configuring
<1> QED
  BY <1>5, <1>11 DEF LinkInv

\* d is dev with more links, e is d with a slave or port l of b that may have given
\* b its address, or with l changed.
Grown(d, names) ==
    /\ DOMAIN d = DOMAIN dev \cup names /\ \A x \in DOMAIN dev : d[x] = dev[x]
    /\ \A x \in DOMAIN d \ DOMAIN dev : IsLink(d[x]) /\ d[x].master = None
OthersSame(d, e, l) ==
    /\ DOMAIN e = DOMAIN d /\ \A x \in DOMAIN d : IsLink(e[x])
    /\ \A x \in DOMAIN d \ {l} :
          /\ e[x].master = d[x].master /\ e[x].up = d[x].up
          /\ e[x].addrs = d[x].addrs /\ e[x].linkLocal = d[x].linkLocal
          /\ e[x].lease = d[x].lease

\* Links that are added have no master.
LEMMA Added ==
  ASSUME NEW bonds, NEW bridges
  PROVE  Grown(Net!AddLinks(bonds, bridges), bonds \cup bridges)
<1>1. \A type, mac : IsLink(Net!NewLink(type, mac)) /\ Net!NewLink(type, mac).master = None
  BY DEF IsLink, Net!NewLink, Net!None, None
<1>2. PICK d : d = Net!AddLinks(bonds, bridges)
  OBVIOUS
<1>3. /\ DOMAIN d = DOMAIN dev \cup (bonds \cup bridges)
      /\ \A x \in DOMAIN dev : d[x] = dev[x]
      /\ \A x \in DOMAIN d \ DOMAIN dev : \E type : d[x] = Net!NewLink(type, x)
  BY <1>2 DEF Net!AddLinks
<1>4. Grown(d, bonds \cup bridges)
  BY <1>1, <1>3 DEF Grown
<1> QED
  BY <1>2, <1>4

\* e is d when l has become a slave or a port of b.
AllLinks(d) == \A x \in DOMAIN d : IsLink(d[x])
JoinedTo(d, e, l, b, up) == OthersSame(d, e, l) /\ e[l].master = b /\ e[l].up = up
ChangedTo(d, e, l, r) == OthersSame(d, e, l) /\ e[l] = r

\* A link becomes a slave or a port of b.
LEMMA Joined ==
  ASSUME NEW d, AllLinks(d), NEW l \in DOMAIN d, NEW b \in DOMAIN d, l # b,
         NEW up, NEW mac
  PROVE  JoinedTo(d, [d EXCEPT ![l].master = b, ![l].up = up, ![b].mac = mac], l, b, up)
<1>0. PICK e : e = [d EXCEPT ![l].master = b, ![l].up = up, ![b].mac = mac]
  OBVIOUS
<1>1. PICK rl : rl = [d[l] EXCEPT !.master = b, !.up = up]
  OBVIOUS
<1>2. PICK rb : rb = [d[b] EXCEPT !.mac = mac]
  OBVIOUS
<1>3. /\ DOMAIN e = DOMAIN d /\ e[l] = rl /\ e[b] = rb
      /\ \A x \in DOMAIN d \ {l, b} : e[x] = d[x]
  BY <1>0, <1>1, <1>2
<1>4. IsLink(rl) /\ rl.master = b /\ rl.up = up
  BY <1>1 DEF IsLink, AllLinks
<1>5. /\ IsLink(rb) /\ rb.master = d[b].master /\ rb.up = d[b].up
      /\ rb.addrs = d[b].addrs /\ rb.linkLocal = d[b].linkLocal /\ rb.lease = d[b].lease
  BY <1>2 DEF IsLink, AllLinks
<1>6. JoinedTo(d, e, l, b, up)
  BY <1>3, <1>4, <1>5 DEF OthersSame, JoinedTo, AllLinks
<1> QED
  BY <1>0, <1>6

\* A link is changed alone.
LEMMA Alone ==
  ASSUME NEW d, AllLinks(d), NEW l \in DOMAIN d, NEW r, IsLink(r)
  PROVE  ChangedTo(d, [d EXCEPT ![l] = r], l, r)
<1>0. PICK e : e = [d EXCEPT ![l] = r]
  OBVIOUS
<1>1. ChangedTo(d, e, l, r)
  BY <1>0 DEF OthersSame, AllLinks, ChangedTo
<1> QED
  BY <1>0, <1>1

\* What a step that changes link l, and adds links that no call could make in time,
\* does to the links.
LEMMA EffectOf ==
  ASSUME NEW d, NEW names, Grown(d, names), AllLinks(dev), NEW l \in DOMAIN dev,
         OthersSame(d, dev', l), names \ DOMAIN dev \subseteq broken',
         broken \subseteq broken', returned \subseteq returned', UNCHANGED <<mode, cfg>>,
         l \in BondName => dev'[l].master \notin BondName, Conforms(l)'
  PROVE  Effect(l) /\ DOMAIN dev' = DOMAIN dev \cup names
<1>1. /\ DOMAIN d = DOMAIN dev \cup names /\ \A x \in DOMAIN dev : d[x] = dev[x]
      /\ \A x \in DOMAIN d \ DOMAIN dev : d[x].master = None
  BY DEF Grown
<1>2. DOMAIN dev' = DOMAIN dev \cup names /\ \A x \in DOMAIN dev' : IsLink(dev'[x])
  BY <1>1 DEF OthersSame
<1>3. \A x \in DOMAIN dev' \ DOMAIN dev : x \in broken' /\ dev'[x].master = None
  BY <1>1, <1>2 DEF OthersSame
<1>4. \A x \in DOMAIN dev \ {l} :
          /\ dev'[x].master = dev[x].master /\ dev'[x].up = dev[x].up
          /\ dev'[x].addrs = dev[x].addrs /\ dev'[x].linkLocal = dev[x].linkLocal
          /\ dev'[x].lease = dev[x].lease
  BY <1>1, <1>2 DEF OthersSame
<1> QED
  BY <1>2, <1>3, <1>4 DEF Effect

\* The links as they are.
LEMMA NothingAdded ==
  ASSUME AllLinks(dev), NEW l
  PROVE  Grown(dev, {}) /\ OthersSame(dev, dev, l)
BY DEF Grown, OthersSame, AllLinks

\* Where the entries of a configuration come from.
LEMMA Entries ==
  ASSUME NEW l
  PROVE  /\ \A iface \in Net!FindMatch(l) : \E k \in DOMAIN cfg.ifaces : iface = cfg.ifaces[k]
         /\ \A iface \in Net!Meant(l) : \E k \in DOMAIN cfg.ifaces : iface = cfg.ifaces[k]
BY DEF Net!FindMatch, Net!Meant

\* applyInterfaceConfig for a slave: it was no slave of a bond that has got a mode,
\* so it is taken up; if it joins a bond that could not be made in time, a call has
\* failed.
LEMMA SlaveJoins ==
  ASSUME LinkInv, Tidy, None \notin BondName, step = "links",
         NEW l \in DOMAIN dev, l \in Elems(todo), NEW iface \in Net!Meant(l),
         ~Net!Dhcp(iface), "bond" \in DOMAIN iface, Net!ApplyInterfaceConfig(l, iface),
         UNCHANGED <<mode, cfg, returned>>
  PROVE  Effect(l) /\ Settled(l)' /\ DOMAIN dev' \ DOMAIN dev \subseteq Net!Bonds
<1>s. Settled(l)' => Conforms(l)'
  BY DEF Settled, Conforms
<1> DEFINE b == iface.bond
<1>1. PICK all : all = Net!AddLinks({b}, {})
  OBVIOUS
<1>2. PICK k \in DOMAIN cfg.ifaces : iface = cfg.ifaces[k]
  BY Entries
<1>3. b \in BondName /\ b \in Net!Bonds
  BY <1>2 DEF Tidy, Net!Bonds
<1>4. l # b /\ l \notin BondName
  BY <1>3 DEF Tidy
<1> HIDE DEF b
<1>5. Grown(all, {b}) /\ AllLinks(all) /\ AllLinks(dev)
  <2>1. Grown(all, {b} \cup {}) /\ {b} \cup {} = {b}
    BY <1>1, Added
  <2>2. AllLinks(dev)
    BY DEF LinkInv, Linked, AllLinks
  <2> QED
    BY <2>1, <2>2 DEF Grown, AllLinks
<1>6. CASE dev' = Net!Enslave(all, l, b) /\ Net!Joins(l, b)
  <2>0. l \in DOMAIN all /\ b \in DOMAIN all /\ all[l] = dev[l]
    BY <1>5 DEF Grown
  <2>1. PICK up, mac : /\ dev' = [all EXCEPT ![l].master = b, ![l].up = up, ![b].mac = mac]
                       /\ up = (all[l].master # b)
    BY <1>6 DEF Net!Enslave
  <2>2. JoinedTo(all, dev', l, b, up)
    BY <1>4, <1>5, <2>0, <2>1, Joined
  <2>3. broken' = broken \cup IF b \in DOMAIN dev \ broken THEN {} ELSE {l, b}
    BY <1>6 DEF Net!Joins
  <2>4. ASSUME b \in DOMAIN dev \ broken PROVE Settled(l)'
    <3>1. Net!Meant(l)' = Net!Meant(l) /\ \A c : Net!ModeOf(c)' = Net!ModeOf(c)
      BY SameMeaning
    <3>2. Net!ModeOf(b) # Net!None => b \in Moded
      BY <1>3, <2>4 DEF Moded, Net!None, None
    <3>3. b \in Moded => mode[b] = Net!ModeOf(b) /\ dev[l].master # b
      BY DEF LinkInv, Configuring, Waiting
    <3>0. dev'[l].master = b /\ dev'[l].up = up
      BY <2>2 DEF JoinedTo
    <3>4. Net!ModeOf(b) # Net!None => dev'[l].up /\ mode[b] = Net!ModeOf(b)
      BY <2>0, <2>1, <3>0, <3>2, <3>3
    <3>5. Net!Reflects(l, iface)'
      BY <3>0, <3>1, <3>4 DEF Net!Reflects, Net!None, b
    <3> QED
      BY <3>1, <3>5 DEF Settled
  <2>5. Settled(l)' /\ Conforms(l)'
    BY <1>s, <2>3, <2>4 DEF Settled
  <2>6. OthersSame(all, dev', l) /\ dev'[l].master = b
    BY <2>2 DEF JoinedTo
  <2>7. {b} \ DOMAIN dev \subseteq broken' /\ broken \subseteq broken'
    BY <2>3
  <2>8. Effect(l) /\ DOMAIN dev' = DOMAIN dev \cup {b}
    BY <1>4, <1>5, <2>5, <2>6, <2>7, EffectOf
  <2> QED
    BY <1>3, <2>5, <2>8
<1>7. CASE /\ dev' \in {[d EXCEPT ![l].up = FALSE] : d \in {dev, all}}
           /\ Net!JoinFails(l, b, "bond")
  <2>1. PICK d \in {dev, all} : dev' = [d EXCEPT ![l].up = FALSE]
    BY <1>7
  <2>2. l \in DOMAIN d /\ AllLinks(d)
    BY <1>5, <2>1 DEF Grown
  <2>3. PICK r : r = [d[l] EXCEPT !.up = FALSE]
    OBVIOUS
  <2>4. IsLink(r)
    BY <2>2, <2>3 DEF IsLink, AllLinks
  <2>5. dev' = [d EXCEPT ![l] = r]
    BY <2>1, <2>3
  <2>6. ChangedTo(d, dev', l, r)
    BY <2>2, <2>4, <2>5, Alone
  <2>7. broken' = broken \cup {l} \cup ({b} \ DOMAIN dev)
    BY <1>7 DEF Net!JoinFails
  <2>8. Settled(l)' /\ Conforms(l)'
    BY <1>s, <2>7 DEF Settled
  <2>9. PICK names \in {{}, {b}} : Grown(d, names)
    BY <1>5, <2>1, NothingAdded
  <2>10. OthersSame(d, dev', l)
    BY <2>6 DEF ChangedTo
  <2>11. names \ DOMAIN dev \subseteq broken' /\ broken \subseteq broken'
    BY <2>7, <2>9
  <2>12. Effect(l) /\ DOMAIN dev' = DOMAIN dev \cup names
    BY <1>4, <1>5, <2>8, <2>9, <2>10, <2>11, EffectOf
  <2> QED
    BY <1>3, <2>8, <2>9, <2>12
<1>8. CASE dev' = dev /\ broken' = broken \cup {l}
  <2>1. Settled(l)' /\ Conforms(l)'
    BY <1>s, <1>8 DEF Settled
  <2>2. OthersSame(dev, dev', l) /\ Grown(dev, {})
    BY <1>5, <1>8, NothingAdded
  <2>3. {} \ DOMAIN dev \subseteq broken' /\ broken \subseteq broken'
    BY <1>8
  <2>4. Effect(l) /\ DOMAIN dev' = DOMAIN dev \cup {}
    BY <1>4, <1>5, <2>1, <2>2, <2>3, EffectOf
  <2> QED
    BY <2>1, <2>4
<1> QED
  BY <1>1, <1>6, <1>7, <1>8 DEF Net!ApplyInterfaceConfig, Net!Breaks, b

\* applyInterfaceConfig for a port: it joins the bridge and is taken up, or a call
\* has failed; the kernel refuses a bridge as a port of its own.
LEMMA PortJoins ==
  ASSUME LinkInv, Tidy, step = "links", NEW l \in DOMAIN dev, NEW iface \in Net!FindMatch(l),
         iface \in Net!Meant(l) \/ OwnPort(l, iface), ~Net!Dhcp(iface),
         "bond" \notin DOMAIN iface, Net!Get(iface, "bridge", "true") # "true",
         Net!ApplyInterfaceConfig(l, iface), UNCHANGED <<mode, cfg, returned>>
  PROVE  Effect(l) /\ Settled(l)' /\ DOMAIN dev' \ DOMAIN dev \subseteq Net!Bridges
<1>s. Settled(l)' => Conforms(l)'
  BY DEF Settled, Conforms
<1> DEFINE b == iface.bridge
<1>1. PICK all : all = Net!AddLinks({}, {b})
  OBVIOUS
<1>2. PICK k \in DOMAIN cfg.ifaces : iface = cfg.ifaces[k]
  BY Entries
<1>0. "bridge" \in DOMAIN iface /\ b # "true" /\ Net!Get(iface, "bridge", "true") = b
  BY DEF Net!Get
<1>3. b \notin BondName /\ b \in Net!Bridges
  <2>1. b \in Net!Bridges
    BY <1>0, <1>2 DEF Net!Bridges
  <2> QED
    BY <2>1 DEF Tidy
<1>4. l # b => iface \in Net!Meant(l)
  BY <1>0 DEF OwnPort
<1> HIDE DEF b
<1>5. Grown(all, {b}) /\ AllLinks(all) /\ AllLinks(dev)
  <2>1. Grown(all, {} \cup {b}) /\ {} \cup {b} = {b}
    BY <1>1, Added
  <2>2. AllLinks(dev)
    BY DEF LinkInv, Linked, AllLinks
  <2> QED
    BY <2>1, <2>2 DEF Grown, AllLinks
<1>6. CASE l # b /\ dev' = Net!AddPort(all, l, b) /\ Net!Joins(l, b)
  <2>0. l \in DOMAIN all /\ b \in DOMAIN all /\ l # b
    BY <1>5, <1>6 DEF Grown
  <2>1. PICK mac, up : /\ dev' = [all EXCEPT ![l].master = b, ![l].up = up, ![b].mac = mac]
                       /\ up = TRUE
    BY <1>6 DEF Net!AddPort
  <2>2. JoinedTo(all, dev', l, b, up)
    BY <1>5, <2>0, <2>1, Joined
  <2>3. broken' = broken \cup IF b \in DOMAIN dev \ broken THEN {} ELSE {l, b}
    BY <1>6 DEF Net!Joins
  <2>4. OthersSame(all, dev', l) /\ dev'[l].master = b /\ dev'[l].up
    BY <2>1, <2>2 DEF JoinedTo
  <2>5. Net!Meant(l)' = Net!Meant(l)
    BY SameMeaning
  <2>6. Net!Reflects(l, iface)'
    BY <1>0, <2>4 DEF Net!Reflects, b
  <2>7. Settled(l)' /\ Conforms(l)'
    BY <1>4, <1>6, <1>s, <2>5, <2>6 DEF Settled
  <2>8. {b} \ DOMAIN dev \subseteq broken' /\ broken \subseteq broken'
    BY <2>3
  <2>9. Effect(l) /\ DOMAIN dev' = DOMAIN dev \cup {b}
    BY <1>3, <1>5, <2>4, <2>7, <2>8, EffectOf
  <2> QED
    BY <1>3, <2>7, <2>9
<1>7. CASE /\ dev' \in {dev, all} /\ l \in broken' /\ broken \subseteq broken'
           /\ dev' = dev \/ {b} \ DOMAIN dev \subseteq broken'
  <2>1. PICK names \in {{}, {b}} :
            Grown(dev', names) /\ names \ DOMAIN dev \subseteq broken'
    BY <1>5, <1>7, NothingAdded
  <2>2. OthersSame(dev', dev', l) /\ dev'[l] = dev[l]
    BY <1>5, <1>7 DEF OthersSame, AllLinks, Grown
  <2>3. l \in BondName => dev'[l].master \notin BondName
    BY <2>2 DEF LinkInv, Linked
  <2>4. Settled(l)' /\ Conforms(l)'
    BY <1>7, <1>s DEF Settled
  <2>5. Effect(l) /\ DOMAIN dev' = DOMAIN dev \cup names
    BY <1>5, <1>7, <2>1, <2>2, <2>3, <2>4, EffectOf
  <2> QED
    BY <1>3, <2>1, <2>4, <2>5
<1> QED
  BY <1>1, <1>6, <1>7 DEF Net!ApplyInterfaceConfig, Net!JoinFails, Net!Refused, b

\* applyInterfaceConfig for a link with addresses: it is taken up with them and no
\* others, or a call has failed.
LEMMA AddressesSet ==
  ASSUME LinkInv, step = "links", NEW l \in DOMAIN dev, NEW iface \in Net!FindMatch(l),
         iface \in Net!Meant(l) \/ OwnPort(l, iface), ~Net!Dhcp(iface),
         "bond" \notin DOMAIN iface, Net!Get(iface, "bridge", "true") = "true",
         Net!ApplyInterfaceConfig(l, iface), UNCHANGED <<mode, cfg, returned>>
  PROVE  Effect(l) /\ Settled(l)' /\ DOMAIN dev' = DOMAIN dev
<1>s. Settled(l)' => Conforms(l)'
  BY DEF Settled, Conforms
<1>1. AllLinks(dev) /\ IsLink(dev[l])
  BY DEF LinkInv, Linked, AllLinks
<1>2. iface \in Net!Meant(l)
  BY DEF OwnPort
<1>3. PICK ll : ll = ("ipv4ll" \in DOMAIN iface)
  OBVIOUS
<1>4. PICK as : as = Net!Addresses(iface) \cup IF "ipv4ll" \in DOMAIN iface THEN dev[l].addrs ELSE {}
  OBVIOUS
<1>5. PICK new : new = Net!Addressed(dev[l], iface)
  OBVIOUS
<1>6. /\ IsLink(new) /\ new.linkLocal = ll /\ new.addrs = as /\ new.master = dev[l].master
      /\ new.up = dev[l].up
  <2>1. new = [dev[l] EXCEPT !.linkLocal = ll, !.addrs = as]
    BY <1>3, <1>4, <1>5 DEF Net!Addressed
  <2> QED
    BY <1>1, <2>1 DEF IsLink
<1>7. ASSUME OthersSame(dev, dev', l), dev'[l].master = dev[l].master,
             l \in broken' \/ Net!Reflects(l, iface)', broken \subseteq broken'
      PROVE  Effect(l) /\ Settled(l)' /\ DOMAIN dev' = DOMAIN dev
  <2>1. l \in BondName => dev'[l].master \notin BondName
    BY <1>7 DEF LinkInv, Linked
  <2>2. Settled(l)' /\ Conforms(l)'
    BY <1>2, <1>7, <1>s, SameMeaning DEF Settled
  <2>3. Grown(dev, {}) /\ {} \ DOMAIN dev \subseteq broken'
    BY <1>1, NothingAdded
  <2>4. Effect(l) /\ DOMAIN dev' = DOMAIN dev \cup {}
    BY <1>1, <1>7, <2>1, <2>2, <2>3, EffectOf
  <2> QED
    BY <2>2, <2>4
<1>0. ASSUME NEW r, IsLink(r), r.master = dev[l].master, dev' = [dev EXCEPT ![l] = r]
      PROVE  OthersSame(dev, dev', l) /\ dev'[l] = r
  <2>1. ChangedTo(dev, dev', l, r)
    BY <1>0, <1>1, Alone
  <2> QED
    BY <2>1 DEF ChangedTo
<1>8. CASE dev' = [dev EXCEPT ![l] = [new EXCEPT !.up = TRUE]] /\ UNCHANGED broken
  <2>1. PICK r : r = [new EXCEPT !.up = TRUE]
    OBVIOUS
  <2>2. /\ IsLink(r) /\ r.master = dev[l].master /\ r.up /\ r.linkLocal = ll /\ r.addrs = as
    BY <1>6, <2>1 DEF IsLink
  <2>3. dev'[l] = r
    BY <1>8, <2>1
  <2>4. Net!Reflects(l, iface)'
    BY <1>3, <1>4, <2>2, <2>3 DEF Net!Reflects
  <2>5. OthersSame(dev, dev', l)
    BY <1>0, <1>8, <2>1, <2>2
  <2> QED
    BY <1>7, <1>8, <2>2, <2>3, <2>4, <2>5
<1>9. CASE dev' \in {dev, [dev EXCEPT ![l] = new]} /\ broken' = broken \cup {l}
  <2>1. CASE dev' = dev
    BY <1>1, <1>7, <1>9, <2>1, NothingAdded
  <2>2. CASE dev' = [dev EXCEPT ![l] = new]
    BY <1>0, <1>6, <1>7, <1>9, <2>2
  <2> QED
    BY <1>9, <2>1, <2>2
<1>10. ASSUME NEW a, dev' = [dev EXCEPT ![l] = [new EXCEPT !.up = TRUE, !.addrs = @ \ {a}]],
              broken' = broken \cup {l}
       PROVE  Effect(l) /\ Settled(l)' /\ DOMAIN dev' = DOMAIN dev
  <2>1. PICK r : r = [new EXCEPT !.up = TRUE, !.addrs = @ \ {a}]
    OBVIOUS
  <2>2. IsLink(r) /\ r.master = dev[l].master
    BY <1>6, <2>1 DEF IsLink
  <2> QED
    BY <1>0, <1>7, <1>10, <2>1, <2>2
<1> QED
  BY <1>5, <1>8, <1>9, <1>10 DEF Net!ApplyInterfaceConfig, Net!Fine, Net!Breaks

\* Links added to the machine come last in the order of their index.
LEMMA IndexGrows ==
  ASSUME Linked(dev, index), IsFiniteSet(DOMAIN dev' \ DOMAIN dev),
         DOMAIN dev \subseteq DOMAIN dev'
  PROVE  Enumerates(index \o Net!SetToSeq(DOMAIN dev' \ DOMAIN dev), DOMAIN dev' \ Wifi)
<1> DEFINE new == DOMAIN dev' \ DOMAIN dev
<1>1. Enumerates(Net!SetToSeq(new), new)
  BY SetToSeqLists
<1>2. /\ Enumerates(index, DOMAIN dev \ Wifi) /\ (DOMAIN dev \ Wifi) \cap new = {}
      /\ (DOMAIN dev \ Wifi) \cup new = DOMAIN dev' \ Wifi
  BY DEF Linked
<1> HIDE DEF new
<1>3. Enumerates(index \o Net!SetToSeq(new), (DOMAIN dev \ Wifi) \cup new)
  BY <1>1, <1>2, ConcatLists
<1> QED
  BY <1>2, <1>3 DEF new

\* The link that is next.
LEMMA NextIs ==
  ASSUME LinkInv, step = "links", todo # <<>>
  PROVE  Head(todo) \in DOMAIN dev /\ Head(todo) \in Elems(todo)
BY TailLists DEF LinkInv, Configuring

\* A link with a static configuration.
LEMMA StaticLinks ==
  ASSUME LinkInv, Tidy, Unambiguous, None \notin BondName, Net!ApplyStatic
  PROVE  LinkInv'
<1>1. PICK l : l = Head(todo)
  OBVIOUS
<1>2. PICK iface \in Net!FindMatch(l) : ~Net!Dhcp(iface) /\ Net!ApplyInterfaceConfig(l, iface)
  BY <1>1 DEF Net!ApplyStatic
<1>3. /\ step = "links" /\ todo # <<>> /\ UNCHANGED <<mode, cfg, returned>>
      /\ index' = index \o Net!SetToSeq(DOMAIN dev' \ DOMAIN dev)
      /\ \/ step' = "links" /\ todo' = Tail(todo)
         \/ step' = "release" /\ todo' = todo
  BY DEF Net!ApplyStatic, Net!NextLink
<1>4. l \in DOMAIN dev /\ l \in Elems(todo)
  BY <1>1, <1>3, NextIs
<1>5. iface \in Net!Meant(l) \/ OwnPort(l, iface)
  BY <1>2, <1>3, <1>4 DEF Unambiguous
<1>6. Effect(l) /\ Settled(l)' /\ DOMAIN dev' \ DOMAIN dev \subseteq Asked
  <2>1. CASE "bond" \in DOMAIN iface
    <3>1. iface \in Net!Meant(l)
      BY <1>5, <2>1 DEF OwnPort
    <3>2. Effect(l) /\ Settled(l)' /\ DOMAIN dev' \ DOMAIN dev \subseteq Net!Bonds
      BY <1>2, <1>3, <1>4, <2>1, <3>1, SlaveJoins
    <3> QED
      BY <3>2 DEF Asked
  <2>2. CASE "bond" \notin DOMAIN iface /\ Net!Get(iface, "bridge", "true") # "true"
    <3>1. Effect(l) /\ Settled(l)' /\ DOMAIN dev' \ DOMAIN dev \subseteq Net!Bridges
      BY <1>2, <1>3, <1>4, <1>5, <2>2, PortJoins
    <3> QED
      BY <3>1 DEF Asked
  <2>3. CASE "bond" \notin DOMAIN iface /\ Net!Get(iface, "bridge", "true") = "true"
    BY <1>2, <1>3, <1>4, <1>5, <2>3, AddressesSet
  <2> QED
    BY <2>1, <2>2, <2>3
<1>7. IsFiniteSet(DOMAIN dev' \ DOMAIN dev)
  BY <1>6, FS_Subset DEF Tidy
<1>8. Enumerates(index', DOMAIN dev' \ Wifi)
  BY <1>3, <1>6, <1>7, IndexGrows DEF LinkInv, Effect
<1> QED
  BY <1>1, <1>3, <1>6, <1>8, OneLink

\* A link that keeps its master and that no other link is changed with.
LEMMA AloneEffect ==
  ASSUME LinkInv, NEW l \in DOMAIN dev, OthersSame(dev, dev', l),
         dev'[l].master = dev[l].master, broken \subseteq broken', returned \subseteq returned',
         UNCHANGED <<mode, cfg, index>>, Conforms(l)'
  PROVE  Effect(l) /\ Enumerates(index', DOMAIN dev' \ Wifi)
<1>1. AllLinks(dev)
  BY DEF LinkInv, Linked, AllLinks
<1>2. l \in BondName => dev'[l].master \notin BondName
  BY DEF LinkInv, Linked
<1>3. Grown(dev, {}) /\ {} \ DOMAIN dev \subseteq broken'
  BY <1>1, NothingAdded
<1>4. Effect(l) /\ DOMAIN dev' = DOMAIN dev \cup {}
  BY <1>1, <1>2, <1>3, EffectOf
<1> QED
  BY <1>4 DEF LinkInv, Linked

\* What dhcpcd does to a link.
LEMMA LeaseChanges ==
  ASSUME NEW r, IsLink(r), NEW l
  PROVE  /\ IsLink(Net!Released(r)) /\ Net!Released(r).master = r.master
         /\ Net!Released(r).up = r.up /\ Net!Released(r).linkLocal = r.linkLocal
         /\ Net!Released(r).addrs = r.addrs \ {r.lease}
         /\ IsLink(Net!Leased(l, r)) /\ Net!Leased(l, r).master = r.master
         /\ Net!Leased(l, r).lease = Lease[l]
         /\ Net!Leased(l, r).addrs = r.addrs \cup {Lease[l]}
BY DEF Net!Released, Net!Leased, IsLink

\* A link with DHCP.
LEMMA DhcpLinks ==
  ASSUME LinkInv, Tidy, Unambiguous, None \notin BondName, Net!ApplyDhcp
  PROVE  LinkInv'
<1>1. PICK l : l = Head(todo)
  OBVIOUS
<1>2. PICK iface \in Net!FindMatch(l) : Net!Dhcp(iface) /\ Net!RunDhcp(l, iface)
  BY <1>1 DEF Net!ApplyDhcp
<1>3. step = "links" /\ todo # <<>> /\ UNCHANGED <<index, mode, step, cfg>> /\ todo' = Tail(todo)
  BY DEF Net!ApplyDhcp, Net!NextLink
<1>4. l \in DOMAIN dev /\ l \in Elems(todo)
  BY <1>1, <1>3, NextIs
<1>5. iface \in Net!Meant(l)
  BY <1>2, <1>3, <1>4 DEF Unambiguous, OwnPort
<1>7. PICK start : start = IF "wifi" \in DOMAIN iface
                             THEN [Net!Released(dev[l]) EXCEPT !.addrs = {}] ELSE dev[l]
  OBVIOUS
<1>8. AllLinks(dev) /\ IsLink(dev[l])
  BY <1>4 DEF LinkInv, Linked, AllLinks
<1>9. /\ IsLink(start) /\ start.master = dev[l].master
      /\ "wifi" \in DOMAIN iface => start.addrs = {}
  <2>1. PICK rel : rel = Net!Released(dev[l])
    OBVIOUS
  <2>2. IsLink(rel) /\ rel.master = dev[l].master
    BY <1>8, <2>1, LeaseChanges
  <2>3. PICK none : none = [rel EXCEPT !.addrs = {}]
    OBVIOUS
  <2>4. IsLink(none) /\ none.master = rel.master /\ none.addrs = {}
    BY <2>2, <2>3 DEF IsLink
  <2> QED
    BY <1>7, <1>8, <2>1, <2>2, <2>3, <2>4
<1>10. PICK r \in {start, Net!Leased(l, start)} :
         /\ dev' = [dev EXCEPT ![l] = r]
         /\ \/ r = Net!Leased(l, start) /\ l \in DOMAIN Lease
            \/ l \in broken'
  BY <1>2, <1>7 DEF Net!RunDhcp
<1>11. IsLink(r) /\ r.master = dev[l].master
  BY <1>9, <1>10, LeaseChanges
<1>12. OthersSame(dev, dev', l) /\ dev'[l] = r
  <2>1. ChangedTo(dev, dev', l, r)
    BY <1>4, <1>8, <1>10, <1>11, Alone
  <2> QED
    BY <2>1 DEF ChangedTo
<1>6. Conforms(l)'
  <2>1. CASE l \in broken'
    BY <2>1 DEF Conforms
  <2>2. CASE r = Net!Leased(l, start) /\ l \in DOMAIN Lease
    <3>1. PICK up : up = TRUE
      OBVIOUS
    <3>2. r = [start EXCEPT !.addrs = start.addrs \cup {Lease[l]}, !.lease = Lease[l], !.up = up]
      BY <2>2, <3>1 DEF Net!Leased
    <3>3. /\ r.up = up /\ r.lease = Lease[l] /\ r.addrs = start.addrs \cup {Lease[l]}
      BY <1>9, <3>2 DEF IsLink
    <3>4. Lease[l] # Net!None
      BY <2>2, LeaseAssumption DEF Net!None, None
    <3>5. Net!Reflects(l, iface)'
      BY <1>2, <1>9, <1>12, <3>1, <3>3, <3>4 DEF Net!Reflects
    <3> QED
      BY <1>3, <1>5, <3>5, SameMeaning DEF Conforms
  <2> QED
    BY <1>10, <2>1, <2>2
<1>13. broken \subseteq broken' /\ UNCHANGED returned
  BY <1>2 DEF Net!RunDhcp, Net!Fine
<1>14. Effect(l) /\ Enumerates(index', DOMAIN dev' \ Wifi)
  BY <1>3, <1>4, <1>6, <1>11, <1>12, <1>13, AloneEffect
<1> QED
  BY <1>1, <1>3, <1>14, OneLink

\* A lease is given back, with its address.
LEMMA ReleaseLinks ==
  ASSUME LinkInv, Tidy, None \notin BondName, Net!ReleaseLease
  PROVE  LinkInv'
<1>1. PICK l : l = Head(todo)
  OBVIOUS
<1>2. /\ step = "release" /\ todo # <<>> /\ UNCHANGED <<index, mode, cfg, broken>>
      /\ dev' = [dev EXCEPT ![l] = Net!Released(dev[l])]
      /\ returned' = returned \cup {dev[l].lease} /\ step' = "links" /\ todo' = Tail(todo)
  BY <1>1 DEF Net!ReleaseLease, Net!NextLink, LinkInv, Configuring
<1>3. l \in Elems(todo) /\ l \in DOMAIN dev
  BY <1>1, <1>2, TailLists DEF LinkInv, Configuring
<1>4. AllLinks(dev) /\ IsLink(dev[l])
  BY <1>3 DEF LinkInv, Linked, AllLinks
<1>5. PICK r : r = Net!Released(dev[l])
  OBVIOUS
<1>6. /\ IsLink(r) /\ r.master = dev[l].master /\ r.up = dev[l].up
      /\ r.linkLocal = dev[l].linkLocal /\ r.addrs = dev[l].addrs \ {dev[l].lease}
  BY <1>4, <1>5, LeaseChanges
<1>7. ChangedTo(dev, dev', l, r)
  BY <1>2, <1>3, <1>4, <1>5, <1>6, Alone
<1>8. OthersSame(dev, dev', l) /\ dev'[l] = r
  BY <1>7 DEF ChangedTo
<1>9. Settled(l)
  BY <1>1, <1>2 DEF LinkInv, Configuring
<1>10. Net!Meant(l)' = Net!Meant(l) /\ \A b : Net!ModeOf(b)' = Net!ModeOf(b)
  BY <1>2, SameMeaning
<1>11. ASSUME NEW iface, ~Net!Dhcp(iface), Net!Reflects(l, iface) PROVE Net!Reflects(l, iface)'
  BY <1>2, <1>6, <1>8, <1>10, <1>11 DEF Net!Reflects
<1>12. Conforms(l)'
  BY <1>2, <1>9, <1>10, <1>11 DEF Conforms, Settled
<1>13. Effect(l) /\ Enumerates(index', DOMAIN dev' \ Wifi)
  BY <1>2, <1>3, <1>6, <1>8, <1>12, AloneEffect
<1> QED
  BY <1>1, <1>2, <1>13, OneLink

\* A link that nothing is configured for.
LEMMA SkipLinks ==
  ASSUME LinkInv, Tidy, Unambiguous, None \notin BondName, Net!SkipLink
  PROVE  LinkInv'
<1>1. PICK l : l = Head(todo)
  OBVIOUS
<1>2. /\ step = "links" /\ todo # <<>> /\ Net!FindMatch(l) = {} /\ todo' = Tail(todo)
      /\ UNCHANGED <<dev, index, mode, step, cfg, broken, returned>>
  BY <1>1 DEF Net!SkipLink, Net!NextLink, Net!kernel, Net!history
<1>3. l \in DOMAIN dev /\ l \in Elems(todo)
  BY <1>1, <1>2, NextIs
<1>4. Conforms(l)'
  <2>1. Net!Meant(l) = {}
    BY <1>2, <1>3 DEF Unambiguous
  <2> QED
    BY <1>2, <2>1, SameMeaning DEF Conforms
<1>5. AllLinks(dev)
  BY DEF LinkInv, Linked, AllLinks
<1>6. OthersSame(dev, dev', l)
  BY <1>2, <1>5, NothingAdded
<1>7. Effect(l) /\ Enumerates(index', DOMAIN dev' \ Wifi)
  BY <1>2, <1>3, <1>4, <1>6, AloneEffect
<1> QED
  BY <1>1, <1>2, <1>7, OneLink

\* Nothing happens to the links.
LEMMA LinksSame ==
  ASSUME UNCHANGED <<dev, index, mode, cfg, broken, returned>>
  PROVE  /\ Linked(dev, index) => Linked(dev, index)'
         /\ \A l : Conforms(l) => Conforms(l)' /\ (Settled(l) => Settled(l)')
         /\ LinkInv /\ UNCHANGED <<step, todo>> => LinkInv'
<1>1. Linked(dev, index) => Linked(dev, index)'
  BY DEF Linked
<1>2. ASSUME NEW l, Conforms(l) PROVE Conforms(l)' /\ (Settled(l) => Settled(l)')
  BY <1>2, StillConforms
<1>s. \A l : Settled(l) => Conforms(l)
  BY DEF Settled, Conforms
<1>3. ASSUME LinkInv, UNCHANGED <<step, todo>> PROVE LinkInv'
  <2>1. Moded' = Moded /\ Waiting' = Waiting /\ \A b : Net!ModeOf(b)' = Net!ModeOf(b)
    BY <1>3, SameMeaning DEF Moded, Waiting
  <2>2. Configuring'
    BY <1>2, <1>3, <1>s, <2>1 DEF LinkInv, Configuring
  <2> QED
    BY <1>1, <1>3, <2>2 DEF LinkInv
<1> QED
  BY <1>1, <1>2, <1>3

\* All links are done.
LEMMA DoneLinks ==
  ASSUME LinkInv, Net!LinksDone PROVE LinkInv'
<1>1. /\ UNCHANGED <<dev, index, mode, cfg, broken, returned>>
      /\ step = "links" /\ todo = <<>> /\ step' = "dns"
  BY DEF Net!LinksDone, Net!kernel, Net!history
<1>2. Waiting = {} /\ Waiting' = {}
  BY <1>1 DEF Waiting, Elems
<1>3. \A l \in DOMAIN dev : Conforms(l)'
  BY <1>1, <1>2, LinksSame DEF LinkInv, Configuring
<1>4. Linked(dev, index)'
  BY <1>1, LinksSame DEF LinkInv
<1>5. Configuring'
  BY <1>1, <1>2, <1>3 DEF Configuring
<1> QED
  BY <1>4, <1>5 DEF LinkInv

\* The name servers are set.
LEMMA DNSLinks ==
  ASSUME LinkInv, Net!SetDNS PROVE LinkInv'
<1>1. /\ UNCHANGED <<dev, index, mode, cfg, broken, returned>>
      /\ step \in {"dns", "nolist"} /\ step' = "applied"
  BY DEF Net!SetDNS, Net!history
<1>2. Waiting = {} /\ Waiting' = {}
  BY <1>1 DEF Waiting
<1>3. "list" \in broken' \/ \A l \in DOMAIN dev : Conforms(l)'
  BY <1>1, <1>2, LinksSame DEF LinkInv, Configuring
<1>4. Linked(dev, index)'
  BY <1>1, LinksSame DEF LinkInv
<1>5. Configuring'
  BY <1>1, <1>2, <1>3 DEF Configuring
<1> QED
  BY <1>4, <1>5 DEF LinkInv

\* e is d when bonds have lost their slaves.
ModeSet(d, e, bonds) ==
    /\ DOMAIN e = DOMAIN d /\ AllLinks(e)
    /\ \A x \in DOMAIN d \cap bonds : e[x].master = d[x].master
    /\ \A x \in DOMAIN d \ bonds :
          e[x].master = IF d[x].master \in bonds THEN None ELSE d[x].master

\* Opt("mode") takes the slaves of a bond from it.
LEMMA SetModeIs ==
  ASSUME NEW d, AllLinks(d), NEW bonds PROVE ModeSet(d, Net!SetMode(d, bonds), bonds)
<1>1. PICK e : e = Net!SetMode(d, bonds)
  OBVIOUS
<1>2. DOMAIN e = DOMAIN d
  BY <1>1 DEF Net!SetMode
<1>3. ASSUME NEW x \in DOMAIN d
      PROVE  /\ IsLink(e[x])
             /\ x \in bonds => e[x].master = d[x].master
             /\ x \notin bonds => e[x].master = IF d[x].master \in bonds THEN None ELSE d[x].master
  <2>1. IsLink(d[x])
    BY DEF AllLinks
  <2>2. PICK down : down = [d[x] EXCEPT !.up = FALSE, !.mac = x]
    OBVIOUS
  <2>3. PICK free : free = [d[x] EXCEPT !.master = None, !.up = FALSE]
    OBVIOUS
  <2>4. IsLink(down) /\ down.master = d[x].master /\ IsLink(free) /\ free.master = None
    BY <2>1, <2>2, <2>3 DEF IsLink
  <2>5. e[x] = IF x \in bonds THEN down ELSE IF d[x].master \in bonds THEN free ELSE d[x]
    BY <1>1, <2>2, <2>3 DEF Net!SetMode, Net!None, None
  <2> QED
    BY <2>1, <2>4, <2>5
<1>4. ModeSet(d, e, bonds)
  BY <1>2, <1>3 DEF ModeSet, AllLinks
<1> QED
  BY <1>1, <1>4

\* Bonds and bridges are made and the bonds get their mode: they have no slave then.
LEMMA CreateLinks ==
  ASSUME LinkInv, Tidy, None \notin BondName, Net!CreateInterfaces
  PROVE  LinkInv'
<1>1. PICK failing :
        LET wrong == Net!WrongType(Net!Bonds, "bond")
            bonds == Net!Bonds \ (failing \cup wrong)
            bridges == Net!Bridges \ failing
            moded == {b \in bonds : Net!ModeOf(b) # Net!None}
            after == Net!SetMode(Net!AddLinks(bonds, bridges), moded)
        IN /\ broken' = broken \cup failing \cup wrong \cup Net!WrongType(Net!Bridges, "bridge")
           /\ dev' = after
           /\ index' = index \o Net!SetToSeq(DOMAIN after \ DOMAIN dev)
           /\ mode' = [b \in DOMAIN mode \cup moded |->
                         IF b \in moded /\ (Net!Slaves(after, b) = {} \/ b \notin DOMAIN mode)
                           THEN Net!ModeOf(b) ELSE mode[b]]
  BY DEF Net!CreateInterfaces
<1>0. PICK wrong : wrong = Net!WrongType(Net!Bonds, "bond")
  OBVIOUS
<1>2. PICK bonds : bonds = Net!Bonds \ (failing \cup wrong)
  OBVIOUS
<1>3. PICK bridges : bridges = Net!Bridges \ failing
  OBVIOUS
<1>4. PICK moded : moded = {b \in bonds : Net!ModeOf(b) # None}
  OBVIOUS
<1>5. PICK all : all = Net!AddLinks(bonds, bridges)
  OBVIOUS
<1>6. /\ broken \cup failing \cup wrong \subseteq broken' /\ dev' = Net!SetMode(all, moded)
      /\ index' = index \o Net!SetToSeq(DOMAIN dev' \ DOMAIN dev)
      /\ mode' = [b \in DOMAIN mode \cup moded |->
                    IF b \in moded /\ (Net!Slaves(dev', b) = {} \/ b \notin DOMAIN mode)
                      THEN Net!ModeOf(b) ELSE mode[b]]
  BY <1>0, <1>1, <1>2, <1>3, <1>4, <1>5 DEF Net!None, None
<1>7. step' = "vlans" /\ UNCHANGED cfg
  BY DEF Net!CreateInterfaces
<1>8. moded \subseteq BondName
  BY <1>2, <1>4 DEF Tidy, Net!Bonds
<1>9. AllLinks(dev) /\ Linked(dev, index)
  BY DEF LinkInv, Linked, AllLinks
<1>10. Grown(all, bonds \cup bridges)
  BY <1>5, Added
<1>11. AllLinks(all) /\ \A x \in DOMAIN all :
          all[x].master = None \/ (x \in DOMAIN dev /\ all[x].master = dev[x].master)
  BY <1>9, <1>10 DEF Grown, AllLinks
<1>12. ModeSet(all, dev', moded)
  BY <1>6, <1>11, SetModeIs
<1>13. DOMAIN dev' = DOMAIN dev \cup bonds \cup bridges
  BY <1>10, <1>12 DEF Grown, ModeSet
<1>14. \A x \in DOMAIN dev' :
          dev'[x].master = None \/ (x \in DOMAIN dev /\ dev'[x].master = dev[x].master)
  BY <1>11, <1>12 DEF ModeSet
<1>15. \A x \in DOMAIN dev' \cap BondName : dev'[x].master \notin BondName
  BY <1>9, <1>14 DEF Linked
<1>16. \A x \in DOMAIN dev' : dev'[x].master \notin moded
  <2>1. \A x \in DOMAIN dev' \cap moded : dev'[x].master \notin moded
    BY <1>8, <1>15
  <2>2. \A x \in DOMAIN dev' \ moded : dev'[x].master \notin moded
    BY <1>8, <1>12 DEF ModeSet
  <2> QED
    BY <2>1, <2>2
<1>17. Linked(dev, index)'
  <2>1. IsFiniteSet(DOMAIN dev' \ DOMAIN dev)
    <3>1. DOMAIN dev' \ DOMAIN dev \subseteq Asked
      BY <1>2, <1>3, <1>13 DEF Asked
    <3> QED
      BY <3>1, FS_Subset DEF Tidy
  <2>2. Enumerates(index', DOMAIN dev' \ Wifi)
    BY <1>6, <1>9, <1>13, <2>1, IndexGrows
  <2>3. Wifi \subseteq DOMAIN dev' /\ \A x \in DOMAIN dev' : IsLink(dev'[x])
    BY <1>9, <1>12, <1>13 DEF Linked, ModeSet, AllLinks
  <2> QED
    BY <1>15, <2>2, <2>3 DEF Linked
<1>18. Moded' \subseteq moded
  BY <1>2, <1>4, <1>6, <1>7, SameMeaning DEF Moded
<1>19. ASSUME NEW b \in moded PROVE b \in DOMAIN mode' /\ mode'[b] = Net!ModeOf(b)
  <2>1. Net!Slaves(dev', b) = {}
    BY <1>16, <1>19 DEF Net!Slaves
  <2> QED
    BY <1>6, <1>19, <2>1
<1>20. \A b \in Moded' : b \in DOMAIN mode' /\ mode'[b] = Net!ModeOf(b)'
  BY <1>7, <1>18, <1>19, SameMeaning
<1>21. \A x \in Waiting' : dev'[x].master \notin Moded'
  BY <1>7, <1>16, <1>18 DEF Waiting
<1>22. Configuring'
  BY <1>7, <1>20, <1>21 DEF Configuring
<1> QED
  BY <1>17, <1>22 DEF LinkInv

\* The physical links have different names.
LEMMA LinksListed ==
  /\ Enumerates(Wireless, Wifi) /\ Enumerates(Physical, Elems(Physical))
  /\ Elems(Physical) \cap Wifi = {} /\ Net!ToSet(Physical \o Wireless) = Elems(Physical) \cup Wifi
<1>0. /\ Physical \in Seq(STRING) /\ Wireless \in Seq(STRING)
      /\ \A i, j \in DOMAIN (Physical \o Wireless) :
            (Physical \o Wireless)[i] = (Physical \o Wireless)[j] => i = j
  BY LinkAssumption
<1>1. PICK p, w : p = Physical /\ w = Wireless
  OBVIOUS
<1>2. p \in Seq(STRING) /\ w \in Seq(STRING)
  BY <1>0, <1>1
<1>3. ASSUME NEW s \in Seq(STRING) PROVE s \in Seq(Elems(s))
  <2>1. PICK n \in Nat : s \in [1..n -> STRING]
    BY LenProperties
  <2>2. s \in [1..n -> Elems(s)]
    BY <2>1 DEF Elems
  <2>3. ASSUME NEW T, NEW t \in [1..n -> T] PROVE t \in Seq(T)
    BY <2>1
  <2> QED
    BY <2>2, <2>3
<1>4. PICK u : u = p \o w
  OBVIOUS
<1>5. /\ Len(p) \in Nat /\ Len(w) \in Nat /\ DOMAIN p = 1..Len(p) /\ DOMAIN w = 1..Len(w)
      /\ DOMAIN u = 1..(Len(p) + Len(w))
  BY <1>2, <1>4, ConcatProperties, LenProperties
<1>6. /\ \A i \in DOMAIN p : i \in DOMAIN u /\ u[i] = p[i]
      /\ \A i \in DOMAIN w : Len(p) + i \in DOMAIN u /\ u[Len(p) + i] = w[i]
      /\ \A i \in DOMAIN u : \/ i \in DOMAIN p /\ u[i] = p[i]
                             \/ i - Len(p) \in DOMAIN w /\ u[i] = w[i - Len(p)]
  BY <1>2, <1>4, <1>5, ConcatProperties
<1>7. \A i, j \in DOMAIN u : u[i] = u[j] => i = j
  BY <1>0, <1>1, <1>4
<1>8. \A i, j \in DOMAIN p : p[i] = p[j] => i = j
  BY <1>6, <1>7
<1>9. \A i, j \in DOMAIN w : w[i] = w[j] => i = j
  <2>1. \A i, j \in DOMAIN w : w[i] = w[j] => Len(p) + i = Len(p) + j
    BY <1>6, <1>7
  <2> QED
    BY <1>5, <2>1
<1>10. \A i \in DOMAIN p, j \in DOMAIN w : p[i] # w[j]
  <2>1. \A i \in DOMAIN p, j \in DOMAIN w : p[i] = w[j] => i = Len(p) + j
    BY <1>6, <1>7
  <2> QED
    BY <1>5, <2>1
<1>11. Elems(p) \cap Elems(w) = {}
  BY <1>10 DEF Elems
<1>12. {u[i] : i \in DOMAIN u} = Elems(p) \cup Elems(w)
  <2>1. {u[i] : i \in DOMAIN u} \subseteq Elems(p) \cup Elems(w)
    BY <1>6 DEF Elems
  <2>2. Elems(p) \subseteq {u[i] : i \in DOMAIN u} /\ Elems(w) \subseteq {u[i] : i \in DOMAIN u}
    BY <1>6 DEF Elems
  <2> QED
    BY <2>1, <2>2
<1>13. Net!ToSet(u) = {u[i] : i \in DOMAIN u}
  BY DEF Net!ToSet
<1>14. Enumerates(p, Elems(p)) /\ Enumerates(w, Elems(w))
  BY <1>2, <1>3, <1>8, <1>9 DEF Enumerates
<1> QED
  BY <1>1, <1>4, <1>11, <1>12, <1>13, <1>14 DEF Wifi

\* VLANs are made, and every link is to be done; or the links cannot be listed.
LEMMA VlanLinks ==
  ASSUME LinkInv, Tidy, None \notin BondName, Net!CreateSlaveInterfaces
  PROVE  LinkInv'
<1>1. PICK pick \in [DOMAIN dev -> {Net!Get(cfg.ifaces[k], "vlans", {}) : k \in DOMAIN cfg.ifaces}
                                   \cup {{}}] :
        LET all == [v \in DOMAIN dev \cup UNION Net!Range(pick) |->
                      IF v \in DOMAIN dev THEN dev[v]
                      ELSE Net!NewVlan(CHOOSE l \in DOMAIN dev : v \in pick[l])]
            order == index \o Net!SetToSeq(DOMAIN all \ DOMAIN dev)
        IN /\ dev' = all /\ index' = order
           /\ \/ /\ step' = "links" /\ UNCHANGED broken    \* with or without the VLANs
                 /\ todo' = order \o Wireless
              \/ broken' = broken \cup {"list"} /\ step' = "nolist"
  BY DEF Net!CreateSlaveInterfaces, Net!Fine, Net!Breaks
<1>2. PICK names : names = UNION Net!Range(pick)
  OBVIOUS
<1>3. names \subseteq Vlans
  BY <1>1, <1>2 DEF Net!Range, Vlans
<1>4. dev' = [v \in DOMAIN dev \cup names |->
                IF v \in DOMAIN dev THEN dev[v]
                ELSE Net!NewVlan(CHOOSE l \in DOMAIN dev : v \in pick[l])]
  BY <1>1, <1>2
<1>5. \A l : IsLink(Net!NewVlan(l)) /\ Net!NewVlan(l).master = None
  BY DEF IsLink, Net!NewVlan, Net!NewLink, Net!None, None
<1>6. /\ DOMAIN dev' = DOMAIN dev \cup names
      /\ \A x \in DOMAIN dev : dev'[x] = dev[x]
      /\ \A x \in DOMAIN dev' \ DOMAIN dev : IsLink(dev'[x]) /\ dev'[x].master = None
  BY <1>4, <1>5
<1>7. step = "vlans" /\ UNCHANGED <<mode, cfg>>
  BY DEF Net!CreateSlaveInterfaces
<1>8. index' = index \o Net!SetToSeq(DOMAIN dev' \ DOMAIN dev)
  BY <1>1
<1>9. Enumerates(index', DOMAIN dev' \ Wifi)
  <2>1. DOMAIN dev' \ DOMAIN dev \subseteq Asked
    BY <1>3, <1>6 DEF Asked
  <2>2. IsFiniteSet(DOMAIN dev' \ DOMAIN dev)
    BY <2>1, FS_Subset DEF Tidy
  <2> QED
    BY <1>6, <1>8, <2>2, IndexGrows DEF LinkInv
<1>10. Linked(dev, index)'
  <2>1. \A x \in DOMAIN dev' \cap BondName : dev'[x].master \notin BondName
    BY <1>6 DEF LinkInv, Linked
  <2>2. Wifi \subseteq DOMAIN dev' /\ \A x \in DOMAIN dev' : IsLink(dev'[x])
    BY <1>6 DEF LinkInv, Linked
  <2> QED
    BY <1>9, <2>1, <2>2 DEF Linked
<1>11. broken \subseteq broken'
  BY <1>1
<1>12. Moded' \subseteq Moded /\ \A b : Net!ModeOf(b)' = Net!ModeOf(b)
  BY <1>7, <1>11, SameMeaning DEF Moded
<1>13. Moded \subseteq BondName
  BY DEF Moded, Tidy, Net!Bonds
<1>14. \A x \in DOMAIN dev' : dev'[x].master \notin Moded'
  BY <1>6, <1>7, <1>12, <1>13 DEF LinkInv, Configuring, Waiting
<1>15. \A b \in Moded' : b \in DOMAIN mode' /\ mode'[b] = Net!ModeOf(b)'
  BY <1>7, <1>12 DEF LinkInv, Configuring
<1>16. CASE step' = "links" /\ todo' = index' \o Wireless
  <2>1. Enumerates(todo', (DOMAIN dev' \ Wifi) \cup Wifi)
    BY <1>9, <1>16, LinksListed, ConcatLists
  <2>2. (DOMAIN dev' \ Wifi) \cup Wifi = DOMAIN dev'
    BY <1>10 DEF Linked
  <2>3. Enumerates(todo', DOMAIN dev') /\ Elems(todo)' = DOMAIN dev'
    BY <2>1, <2>2 DEF Enumerates
  <2>4. Waiting' = DOMAIN dev'
    BY <1>16, <2>3 DEF Waiting
  <2>5. Configuring'
    BY <1>14, <1>15, <1>16, <2>3, <2>4 DEF Configuring
  <2> QED
    BY <1>10, <2>5 DEF LinkInv
<1>17. CASE broken' = broken \cup {"list"} /\ step' = "nolist"
  <2>1. Waiting' = {}
    BY <1>17 DEF Waiting
  <2>2. Configuring'
    BY <1>17, <2>1 DEF Configuring
  <2> QED
    BY <1>10, <2>2 DEF LinkInv
<1> QED
  BY <1>1, <1>16, <1>17

\* The links before anything is applied.
LEMMA FreshLinked ==
  ASSUME None \notin BondName PROVE Linked(Net!FreshLinks, Physical)
<1>1. \A type, mac : IsLink(Net!NewLink(type, mac)) /\ Net!NewLink(type, mac).master = None
  BY DEF IsLink, Net!NewLink, Net!None, None
<1>2. PICK d : d = Net!FreshLinks
  OBVIOUS
<1>3. /\ DOMAIN d = Elems(Physical) \cup Wifi
      /\ \A l \in DOMAIN d : d[l] = Net!NewLink("device", l)
  BY <1>2, LinksListed DEF Net!FreshLinks
<1>4. \A l \in DOMAIN d : IsLink(d[l]) /\ d[l].master = None
  BY <1>1, <1>3
<1>5. (Elems(Physical) \cup Wifi) \ Wifi = Elems(Physical)
  BY LinksListed
<1>6. Enumerates(Physical, DOMAIN d \ Wifi)
  BY <1>3, <1>5, LinksListed
<1>7. Linked(d, Physical)
  BY <1>3, <1>4, <1>6 DEF Linked
<1> QED
  BY <1>2, <1>7

\* Nothing is being applied.
LEMMA Resting ==
  ASSUME step \in {"idle", "create"}, Linked(dev, index) PROVE LinkInv
<1>1. Waiting = {}
  BY DEF Waiting
<1>2. Configuring
  BY <1>1 DEF Configuring
<1> QED
  BY <1>2 DEF LinkInv

\* An application starts.
LEMMA StartLinks ==
  ASSUME LinkInv, step' = "create", UNCHANGED <<dev, index>> PROVE LinkInv'
<1>1. Linked(dev, index)'
  BY DEF LinkInv, Linked
<1>2. Waiting' = {}
  BY DEF Waiting
<1>3. Configuring'
  BY <1>2 DEF Configuring
<1> QED
  BY <1>1, <1>3 DEF LinkInv

\* The machine starts.
LEMMA RebootLinks ==
  ASSUME None \notin BondName, Net!FreshKernel PROVE LinkInv'
<1>1. dev' = Net!FreshLinks /\ index' = Physical /\ step' = "idle"
  BY DEF Net!FreshKernel
<1>2. Linked(dev, index)'
  BY <1>1, FreshLinked
<1>3. Waiting' = {}
  BY <1>1 DEF Waiting
<1>4. Configuring'
  BY <1>1, <1>3 DEF Configuring
<1> QED
  BY <1>2, <1>4 DEF LinkInv

\* Every step of the machine.
LEMMA LinkStep ==
  ASSUME LinkInv, Tidy, Unambiguous, None \notin BondName, [Next]_vars
  PROVE  LinkInv'
<1>1. CASE NetStep
  BY <1>1, CreateLinks, VlanLinks, StaticLinks, ReleaseLinks, DhcpLinks, SkipLinks, DoneLinks,
     DNSLinks DEF NetStep, Net!ApplyStep
<1>2. CASE UNCHANGED <<dev, index, mode, cfg, broken, returned, step, todo>>
  BY <1>2, LinksSame
<1>3. CASE SelStep \/ ConsoleStep \/ ExecuteStep \/ UNCHANGED vars
  BY <1>2, <1>3 DEF SelStep, SelQuiet, ConsoleStep, AuthorizeSSHKey, NextUser, ApplyConsole,
     RunScript, ExecuteStep, ResizeDevice, ResizeStamp, Quiet, vars, netVars
<1>4. CASE BootStep
  <2>1. \/ UNCHANGED <<dev, index, mode, cfg, broken, returned, step, todo>>
        \/ \E c : Net!StartApply(c)
    <3>1. CASE CloudInit \/ ReadConfigFiles \/ WriteConfigFiles \/ StartServices
      BY <3>1 DEF CloudInit, ReadConfigFiles, WriteConfigFiles, StartServices, netVars
    <3>2. CASE StartSelect
      BY <3>2 DEF StartSelect, SelQuiet
    <3>3. CASE ApplyBefore \/ ApplyAfter \/ NetworkService
      BY <3>3 DEF ApplyBefore, ApplyAfter, NetworkService, netVars
    <3> QED
      BY <1>4, <3>1, <3>2, <3>3 DEF BootStep
  <2>2. ASSUME NEW c, Net!StartApply(c) PROVE LinkInv'
    BY <2>2, StartLinks DEF Net!StartApply
  <2> QED
    BY <1>2, <2>1, <2>2
<1>5. CASE Reboot
  BY <1>5, RebootLinks DEF Reboot
<1> QED
  BY <1>1, <1>3, <1>4, <1>5 DEF Next

\* Without MAC addresses findMatch takes what is meant.
LEMMA NamesAreClear ==
  ASSUME ByName PROVE Unambiguous
<1>1. ASSUME NEW l PROVE Net!FindMatch(l) = Net!Meant(l)
  BY DEF ByName, Net!FindMatch, Net!Meant, Net!MacMatches
<1> QED
  BY <1>1 DEF Unambiguous

-----------------------------------------------------------------------------
(* The theorems.                                                           *)

\* Every variable that the properties look at keeps its type.
THEOREM TypeCorrect == Spec => []TypeOK
<1>1. IInv => TypeOK
  BY DEF IInv
<1> QED
  BY <1>1, Inductive, PTL

\* selectDatasource drops no offer: it returns without a datasource only when
\* time was up or every goroutine ended for good.
THEOREM NothingIsDropped == Spec => []NoneOnlyIfNone
<1>1. IInv => NoneOnlyIfNone
  BY DEF IInv, Selecting, NoneOnlyIfNone, Sel!NoneOnlyIfNone, Sel!None, None
<1> QED
  BY <1>1, Inductive, PTL

\* saveFiles leaves no meta-data that is newer than its user-data, and no network
\* configuration that is newer than its meta-data, over any number of boots and
\* of writes that fail.
THEOREM UserDataIsFirst == Spec => []UserDataFirst
<1>1. IInv => UserDataFirst
  BY DEF IInv, Saving
<1> QED
  BY <1>1, Inductive, PTL

\* authorizeSSHKeys has given both users every key of the configuration when the
\* console is done, unless a call failed, and takes none from anybody.
THEOREM KeysAreAuthorized == Spec => KeysAuthorized
<1>1. IInv => KeysComplete
  BY DEF IInv, Authorizing, Authorized, KeysComplete, User
<1>2. IInv /\ [Next]_vars => [\A u \in User : auth[u] \subseteq auth'[u]]_auth
  <2> SUFFICES ASSUME IInv, [Next]_vars, auth' # auth, NEW u \in User
               PROVE  auth[u] \subseteq auth'[u]
    OBVIOUS
  <2>1. PICK k \in Key : auth' = [auth EXCEPT ![console] = @ \cup {k}]
    BY DEF Next, vars, execVars, NetStep, SelStep, SelQuiet, BootStep, ConsoleStep,
       ExecuteStep, CloudInit, ApplyBefore, StartSelect, ApplyAfter, ReadConfigFiles,
       WriteConfigFiles, NetworkService, StartServices, AuthorizeSSHKey, NextUser,
       ApplyConsole, RunScript, ResizeDevice, ResizeStamp, Reboot
  <2>2. DOMAIN auth = User
    BY DEF IInv, TypeOK
  <2> QED
    BY <2>1, <2>2
<1> QED
  BY <1>1, <1>2, Inductive, PTL DEF Spec, KeysAuthorized

\* No service acts on a configuration that is older than one it acted on before.
THEOREM NothingGetsOlder == Spec => NeverOlder
<1>1. IInv /\ [Next]_vars => [\A f \in DOMAIN applied : applied'[f] >= applied[f]]_applied
  <2> SUFFICES ASSUME IInv, [Next]_vars, applied' # applied,
                      NEW f \in DOMAIN applied
               PROVE  applied'[f] >= applied[f]
    OBVIOUS
  <2>1. /\ f \in {"network", "cloudConfig", "script"} /\ applied[f] \in Nat
        /\ applied[f] <= Root[f].gen /\ Root[f].gen \in Nat
    BY FileNames DEF IInv, TypeOK, Generations, Root, IsStore
  <2>2. applied'[f] \in {applied[f], Root[f].gen}
    <3>1. PICK g : applied' = [applied EXCEPT ![g] = Root[g].gen]
      BY DEF Next, vars, execVars, NetStep, SelStep, SelQuiet, BootStep, ConsoleStep,
         ExecuteStep, CloudInit, ApplyBefore, StartSelect, ApplyAfter, ReadConfigFiles,
         WriteConfigFiles, NetworkService, StartServices, AuthorizeSSHKey, NextUser,
         ApplyConsole, RunScript, ResizeDevice, ResizeStamp, Reboot
    <3> QED
      BY <2>1, <3>1 DEF IInv, TypeOK
  <2> QED
    BY <2>1, <2>2
<1> QED
  BY <1>1, Inductive, PTL DEF Spec, NeverOlder

\* ApplyNetworkConfig leaves the user's host name and name servers in force, and
\* some resolv.conf in any case, for every configuration, machine and order of
\* leases: what dhcpcd wrote during this or an earlier application is overruled.
THEOREM NamesAreInForce == Spec => []Net!NamesInForce
<1>1. Init => Naming
  <2> SUFFICES ASSUME Init PROVE Naming
    OBVIOUS
  <2>1. step = "idle" /\ dev = Net!FreshLinks
    BY DEF Init, Net!NetInit
  <2>2. HasLease(dev) /\ Leaseless(dev)
    BY <2>1, FreshNaming
  <2> QED
    BY <2>1, <2>2 DEF Naming, Net!NamesInForce
<1>2. Naming => Net!NamesInForce
  BY DEF Naming
<1> QED
  BY <1>1, <1>2, NextNaming, PTL DEF Spec

\* ApplyNetworkConfigs leaves every link as the configuration means it, except one
\* on which, or on whose master, a call failed or DHCP was not answered: whatever bonds, bridges, VLANs,
\* addresses and leases earlier configurations left, for any number of links,
\* boots and failures.  The configurations must ask for what links can follow, and
\* their MAC addresses must lead findMatch to the device that has them.
THEOREM LinksConverge ==
  ASSUME None \notin BondName
  PROVE  Spec /\ []Tidy /\ []Unambiguous => []Converges
<1>1. Init => LinkInv
  <2>1. ASSUME Init PROVE Linked(dev, index) /\ step = "idle"
    BY <2>1, FreshLinked DEF Init, Net!NetInit
  <2> QED
    BY <2>1, Resting
<1>2. LinkInv /\ Tidy /\ Unambiguous /\ [Next]_vars => LinkInv'
  BY LinkStep
<1>3. LinkInv /\ Net!NamesInForce => Converges
  BY DEF LinkInv, Configuring, Conforms, Converges, Net!Converges
<1> QED
  BY <1>1, <1>2, <1>3, NamesAreInForce, PTL DEF Spec

\* The same from the configurations alone, when none of their entries is matched
\* by a MAC address.
THEOREM NamedLinksConverge ==
  ASSUME None \notin BondName
  PROVE  Spec /\ []Tidy /\ []ByName => []Converges
<1>1. ByName => Unambiguous
  BY NamesAreClear
<1>2. Spec /\ []Tidy /\ []Unambiguous => []Converges
  BY LinksConverge
<1> QED
  BY <1>1, <1>2, PTL
=============================================================================
