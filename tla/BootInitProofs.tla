--------------------------- MODULE BootInitProofs ---------------------------
(***************************************************************************)
(* The safety properties of BootInit hold for every set of versions, files *)
(* and configurations, and for any number of boots and of calls that fail. *)
(* IInv is the inductive invariant.  Position says where init can be while *)
(* the root is which and sysinit runs; Tree, Carried, Stamped, Preloaded   *)
(* and Serving are, one for each property, what holds on the way to it.    *)
(***************************************************************************)
EXTENDS BootInit, FiniteSetTheorems, TLAPS

\* The positions of init: before, in and after the change of the root, in the
\* launch of System Docker, and in the work with a daemon of its own.
Early == {"env", "preparefs", "cmdline", "oem", "debug", "modules", "recovery",
          "b2d", "mount", "cloud-init", "read", "switchroot"}
Switching == {"rmusr", "cleanup", "symlink", "copy", "rename", "delete", "pivot"}
Carrying == {"oem2", "boot", "write"}
Late == {"b2d2", "hypervisor", "preparefs2", "modules2", "proxy", "sharedroot", "sysinit"}
Launching == {"launch", "json", "second", "exec"}
Session == {"start", "load", "services", "console", "stop", "stopwait", "return"}
Ended == {"up", "dead"}

FileSystem ==
    [fs : BOOLEAN, usr : [Version -> {None, "whole", "cut"}], tmp : {None, "part"},
     link : Version \cup {None}, conf : [File -> Nat], json : {None, "empty", "whole"},
     stamps : SUBSET Version, images : SUBSET Version, preload : BOOLEAN,
     done : BOOLEAN, cut : SUBSET Version, lost : BOOLEAN]

TypeOK ==
    /\ disk \in FileSystem /\ ramfs \in FileSystem
    /\ cfg \in [ConfigFields -> BOOLEAN] /\ ver \in Version
    /\ pc \in Early \cup Switching \cup Carrying \cup Late \cup Launching \cup Session
              \cup Ended
    /\ root \in {"initramfs", "half", "state"} /\ should \in BOOLEAN
    /\ sess \in {None, "recovery", "bootstrap", "cloud-init"}
    /\ stopper \in {None, "wait", "term", "answer"}
    /\ after \in {None, "b2d", "launch", "dead"}
    /\ mem \in [File -> Nat] /\ unsaved \subseteq File
    /\ sysinit \in {None, "preload", "preloaded", "images", "load", "project",
                    "started", "failed"}
    /\ loading \in {None, "system", "recovery"} /\ boots \in Nat \ {0}

\* The root is changed after the work of bootstrap, cloud-init and a recovery
\* console that was asked for, never without an initramfs, and before sysinit
\* runs; nothing but the recovery console comes between sysinit and the launch.
Before == \/ pc \in Early \cup Switching
          \/ pc \in Session /\ (sess # "recovery" \/ after = "b2d")
Position ==
    /\ pc \in Session => sess # None /\ (sess = "recovery" => after # None)
    /\ pc \in Session /\ sess = "bootstrap" => cfg.initrd
    /\ pc \in {"stop", "stopwait"} => sess # "recovery"
    /\ ~cfg.initrd => root = "state" /\ ~should
    /\ Before /\ cfg.initrd => root = "initramfs" \/ (pc = "pivot" /\ root = "half")
    /\ pc \in Switching => should
    /\ sysinit # None => \/ pc \in Launching \cup Ended
                         \/ pc \in Session /\ sess = "recovery" /\ after # "b2d"

\* From the new link on, and from the complete copy on.
Tree ==
    /\ pc \in {"copy", "rename", "delete", "pivot"} => disk.link = ver
    /\ pc \in {"delete", "pivot"} => disk.usr[ver] # None
    /\ root = "state" /\ should => disk.link = ver /\ disk.usr[ver] # None

\* A file of this boot is in memory until it is on the new root.
Carried ==
    /\ ~cfg.initrd => ramfs.conf = NoFiles
    /\ \A f \in File \ unsaved :
          ramfs.conf[f] = boots =>
              /\ pc \in Switching \cup {"switchroot"} => mem[f] = boots
              /\ pc \in Carrying => \/ mem[f] = boots
                                    \/ mem[f] = 0 /\ Here.conf[f] = boots
              /\ pc \in Late \/ sysinit # None => Here.conf[f] = boots

\* A version has its stamp when its images were loaded or lost, or are about to
\* be loaded.
Stamped ==
    /\ \A v \in disk.stamps : \/ v \in disk.images \cup disk.cut
                              \/ sysinit = "load" /\ root = "state" /\ v = ver
    /\ \A v \in ramfs.stamps : \/ v \in ramfs.images \cup ramfs.cut
                               \/ sysinit = "load" /\ root # "state" /\ v = ver
    /\ sysinit \in {"project", "started"} => ver \in Here.images \cup Here.cut

\* An archive that was handed to a daemon is loaded or lost, or is being read.
Preloaded ==
    /\ DoneIsLoaded
    /\ loading # None => sysinit # None
    /\ sysinit = "preloaded" => Here.preload \/ Here.lost \/ loading # None

\* Besides the recovery console's there is one daemon only while init works with
\* it, or has ended.
Serving ==
    /\ \/ daemons \subseteq {"recovery"}
       \/ pc = "dead" /\ \E d \in {"bootstrap", "cloud-init"} : daemons \subseteq {"recovery", d}
       \/ pc = "up" /\ daemons \subseteq {"recovery", "system"}
       \/ /\ pc \in {"load", "services", "stop", "stopwait"}
          /\ sess # "recovery" /\ daemons \subseteq {"recovery", sess}
    /\ stopper \in {"term", "answer"} => pc = "stopwait" /\ sess # "recovery"
    /\ stopper = "answer" => daemons \subseteq {"recovery"}

IInv == /\ TypeOK /\ Position /\ Tree /\ Carried /\ Stamped /\ Preloaded /\ Serving

-----------------------------------------------------------------------------
(* Lemmas about the operators.                                             *)

\* The function after the k-th of the chain is the next one.
LEMMA ChainOrder ==
    ASSUME NEW k \in 1..22
    PROVE  Following(Chain[k]) = Chain[k + 1]
<1>1. Len(Chain) = 23
  BY DEF Chain
<1>2. \A i, j \in 1..22 : Chain[i] = Chain[j] => i = j
  BY DEF Chain
<1>3. \A i \in 2..Len(Chain) : Chain[i - 1] = Chain[k] <=> i = k + 1
  <2> TAKE i \in 2..Len(Chain)
  <2>1. i - 1 \in 1..22
    BY <1>1
  <2> QED
    BY <1>1, <1>2, <2>1
<1>4. (CHOOSE i \in 2..Len(Chain) : Chain[i - 1] = Chain[k]) = k + 1
  BY <1>1, <1>3
<1> QED
  BY <1>4 DEF Following

\* The functions of RunInit follow each other in the order of the source.
LEMMA ChainSteps ==
    /\ Following("env") = "preparefs" /\ Following("preparefs") = "cmdline"
    /\ Following("cmdline") = "oem" /\ Following("oem") = "debug"
    /\ Following("debug") = "modules" /\ Following("modules") = "recovery"
    /\ Following("recovery") = "b2d" /\ Following("b2d") = "mount"
    /\ Following("mount") = "cloud-init" /\ Following("cloud-init") = "read"
    /\ Following("read") = "switchroot" /\ Following("switchroot") = "oem2"
    /\ Following("oem2") = "boot" /\ Following("boot") = "write"
    /\ Following("write") = "b2d2" /\ Following("b2d2") = "hypervisor"
    /\ Following("hypervisor") = "preparefs2" /\ Following("preparefs2") = "modules2"
    /\ Following("modules2") = "proxy" /\ Following("proxy") = "sharedroot"
    /\ Following("sharedroot") = "sysinit" /\ Following("sysinit") = "launch"
<1>1. \A k \in 1..22 : Following(Chain[k]) = Chain[k + 1]
  BY ChainOrder
<1> QED
  BY <1>1 DEF Chain

\* The file system at / has the type of both, and is the one SetHere changes.
LEMMA HereType ==
    ASSUME TypeOK
    PROVE  /\ Here \in FileSystem
           /\ Here.conf \in [File -> Nat] /\ Here.stamps \subseteq Version
           /\ Here.images \subseteq Version /\ Here.cut \subseteq Version
BY DEF TypeOK, Here, FileSystem

-----------------------------------------------------------------------------
(* Every step keeps IInv, one lemma for each section of BootInit.          *)

ChainStep ==
    \/ EnvInit \/ MountOem \/ PrintAndLoadConfig \/ MountBoot \/ B2DEnv
    \/ HypervisorTools \/ Proxy \/ PrepareFS \/ LoadModules \/ SharedRoot \/ B2D
    \/ SaveCmdline \/ LoadRecoveryConsole

\* Init is in its chain, and calls the next function or Recovery, or exits.
InChain == pc \in (Early \cup Carrying \cup Late) \ {"write", "sysinit"}
GoesOn ==
    /\ InChain
    /\ \/ pc' = Following(pc) /\ UNCHANGED session
       \/ /\ pc' = "start" /\ sess' = "recovery" /\ stopper' = None
          /\ after' = "launch" \/ (after' = "b2d" /\ pc = "recovery")
       \/ pc' = "dead" /\ UNCHANGED session

\* The functions of the chain that do not touch a file system.
LEMMA ChainStepInv == IInv /\ ChainStep => IInv'
<1> SUFFICES ASSUME IInv, ChainStep PROVE IInv'
  OBVIOUS
<1> USE DEF IInv, None
<1>a. /\ GoesOn /\ pc \notin {"read", "switchroot", "mount", "cloud-init"}
      /\ UNCHANGED <<roots, ver, should, files, daemons, sysVars, boots>>
      /\ cfg' \in [ConfigFields -> BOOLEAN] /\ cfg'.initrd = cfg.initrd
  <2> USE ChainSteps DEF Continue, Goto, Exits, Dies, bootVars, roots, session, files,
          sysVars, GoesOn, InChain, Early, Carrying, Late
  <2>1. cfg \in [ConfigFields -> BOOLEAN] /\ cfg.initrd \in BOOLEAN
    BY DEF TypeOK, ConfigFields
  <2>2. CASE EnvInit \/ MountOem \/ PrintAndLoadConfig \/ MountBoot \/ B2DEnv
             \/ HypervisorTools \/ Proxy
    BY <2>1, <2>2 DEF EnvInit, MountOem, PrintAndLoadConfig, MountBoot, B2DEnv,
       HypervisorTools, Proxy, Passes, Loads
  <2>3. CASE PrepareFS \/ LoadModules \/ SharedRoot
    BY <2>1, <2>3 DEF PrepareFS, LoadModules, SharedRoot, Tries, ChainFails
  <2>4. CASE B2D
    BY <2>1, <2>4 DEF B2D, ConfigFields
  <2>5. CASE SaveCmdline
    BY <2>1, <2>5 DEF SaveCmdline
  <2>6. CASE LoadRecoveryConsole
    BY <2>1, <2>6 DEF LoadRecoveryConsole
  <2> QED
    BY <2>2, <2>3, <2>4, <2>5, <2>6 DEF ChainStep
<1> USE <1>a, ChainSteps DEF GoesOn, InChain, roots, session, files, sysVars,
        Early, Switching, Carrying, Late, Launching, Session, Ended
<1>1. TypeOK'
  BY DEF TypeOK
<1>2. Position'
  BY DEF TypeOK, Position, Before
<1>3. Tree'
  BY DEF Tree, TypeOK, Position, Before
<1>4. Carried'
  BY DEF Carried, Here, TypeOK, Position
<1>5. Stamped'
  BY DEF Stamped, Here
<1>6. Preloaded'
  BY DEF Preloaded, DoneIsLoaded, Reading, Here, Position, TypeOK
<1>7. Serving'
  BY DEF Serving
<1> QED
  BY <1>1, <1>2, <1>3, <1>4, <1>5, <1>6, <1>7

SessionStep ==
    \/ DockerStart \/ LoadBootstrapImages \/ BootstrapServices \/ RunCloudInitServices
    \/ RecoveryServices \/ LeaveConsole \/ StopSend \/ StopDaemon \/ StopReceive
    \/ RecoveryReturns

\* The work with a daemon: it is stopped before init goes on, unless it is the
\* recovery console's.
LEMMA SessionStepInv == IInv /\ SessionStep => IInv'
<1> SUFFICES ASSUME IInv, SessionStep PROVE IInv'
  OBVIOUS
<1> USE DEF None, Goto, NoErr, Dies, Exits, Close, SetHere, Here, roots, bootVars,
        session, files, sysVars, Early, Switching, Carrying, Late, Launching, Session, Ended,
        IInv, TypeOK, Position, Before, Tree, Carried, Stamped, Preloaded,
        DoneIsLoaded, Reading, Serving
<1>1. CASE DockerStart
  BY <1>1 DEF DockerStart
<1>2. CASE LoadBootstrapImages
  BY <1>2 DEF LoadBootstrapImages
<1>3. CASE BootstrapServices
  BY <1>3 DEF BootstrapServices, BootstrapMain, ConfigFields, FileSystem
<1>4. CASE RunCloudInitServices
  BY <1>4 DEF RunCloudInitServices, FileSystem
<1>5. CASE RecoveryServices
  BY <1>5 DEF RecoveryServices
<1>6. CASE LeaveConsole
  BY <1>6 DEF LeaveConsole
<1>7. CASE StopSend
  BY <1>7 DEF StopSend
<1>8. CASE StopDaemon
  BY <1>8 DEF StopDaemon
<1>9. CASE StopReceive
  BY <1>9 DEF StopReceive
<1>10. CASE RecoveryReturns
  BY <1>10 DEF RecoveryReturns
<1> QED
  BY <1>1, <1>2, <1>3, <1>4, <1>5, <1>6, <1>7, <1>8, <1>9, <1>10 DEF SessionStep

MountStep ==
    \/ MountState \/ MountAgain \/ CloudInit \/ CloudInitReturns
    \/ ReadConfigFiles

\* The mount of the state partition, cloud-init, and its files.
LEMMA MountStepInv == IInv /\ MountStep => IInv'
<1> SUFFICES ASSUME IInv, MountStep PROVE IInv'
  OBVIOUS
<1> USE ChainSteps DEF None, Goto, NoErr, Dies, Exits, Close, SetHere, Here, roots, bootVars,
        session, files, sysVars, Early, Switching, Carrying, Late, Launching, Session, Ended,
        Open, Continue, ConfigFields
<1>1. CASE ReadConfigFiles
  <2> USE <1>1 DEF ReadConfigFiles, IInv
  <2>1. TypeOK'
    BY HereType DEF TypeOK
  <2>2. Position' /\ Tree'
    BY DEF Position, Before, Tree, TypeOK
  <2>3. Carried'
    <3>1. \A f \in File \ unsaved' : ramfs.conf[f] = boots => mem'[f] = boots
      BY HereType DEF TypeOK, Position, Carried, Before, NoFiles
    <3> QED
      BY <3>1 DEF Carried, Position, TypeOK
  <2>4. Stamped' /\ Preloaded' /\ Serving'
    BY DEF Stamped, Preloaded, DoneIsLoaded, Reading, Serving
  <2> QED
    BY <2>1, <2>2, <2>3, <2>4
<1> USE DEF IInv, TypeOK, Position, Before, Tree, Carried, Stamped, Preloaded,
        DoneIsLoaded, Reading, Serving
<1>2. CASE MountState
  <2>1. CASE pc' = "cloud-init"
    BY <1>2, <2>1 DEF MountState
  <2>2. CASE pc' # "cloud-init"
    BY <1>2, <2>2 DEF MountState
  <2> QED
    BY <2>1, <2>2
<1>3. CASE MountAgain
  BY <1>3 DEF MountAgain
<1>4. CASE CloudInit
  BY <1>4 DEF CloudInit
<1>5. CASE CloudInitReturns
  BY <1>5 DEF CloudInitReturns
<1> QED
  BY <1>1, <1>2, <1>3, <1>4, <1>5 DEF MountStep

SwitchStep ==
    \/ SwitchRoot \/ RemoveUsr \/ Unlink \/ Symlink \/ CopyUsr \/ RenameUsr
    \/ DeleteRoot \/ Pivot

\* The change of the root.
LEMMA SwitchStepInv == IInv /\ SwitchStep => IInv'
<1> SUFFICES ASSUME IInv, SwitchStep PROVE IInv'
  OBVIOUS
<1> USE ChainSteps DEF None, Goto, NoErr, Dies, Exits, Close, SetHere, Here, roots, bootVars,
        session, files, sysVars, Early, Switching, Carrying, Late, Launching, Session, Ended,
        Continue, ChainFails
<1>1. CASE Symlink
  <2> USE <1>1 DEF Symlink, IInv
  <2>1. /\ disk' \in FileSystem
        /\ disk'.conf = disk.conf /\ disk'.stamps = disk.stamps
        /\ disk'.images = disk.images /\ disk'.cut = disk.cut /\ disk'.done = disk.done
        /\ disk'.preload = disk.preload /\ disk'.lost = disk.lost
        /\ pc' \in {"copy", "pivot"} => disk'.link = ver /\ disk'.usr = disk.usr
    <3>1. disk \in FileSystem /\ ver \in Version
      BY DEF TypeOK
    <3>2. CASE disk' = [disk EXCEPT !.link = ver, !.tmp = None]
      BY ONLY <3>1, <3>2 DEF FileSystem, None
    <3>3. CASE disk' = disk /\ pc' = "start"
      BY <3>1, <3>3
    <3> QED
      BY <3>2, <3>3
  <2>2. TypeOK' /\ Position'
    BY <2>1 DEF TypeOK, Position, Before
  <2>3. Tree'
    BY <2>1 DEF Tree, Position, Before, TypeOK
  <2>4. Carried'
    BY DEF Carried, Position, Before, TypeOK
  <2>5. Stamped' /\ Preloaded' /\ Serving'
    BY <2>1 DEF Stamped, Preloaded, DoneIsLoaded, Reading, Serving, TypeOK, Position
  <2> QED
    BY <2>2, <2>3, <2>4, <2>5
<1>2. CASE RenameUsr
  <2> USE <1>2 DEF RenameUsr, IInv
  <2>1. /\ disk' \in FileSystem
        /\ disk'.conf = disk.conf /\ disk'.stamps = disk.stamps
        /\ disk'.images = disk.images /\ disk'.cut = disk.cut /\ disk'.done = disk.done
        /\ disk'.preload = disk.preload /\ disk'.lost = disk.lost
        /\ pc' = "delete" => disk'.link = disk.link /\ disk'.usr[ver] = "whole"
    <3>1. disk \in FileSystem /\ ver \in Version
      BY DEF TypeOK
    <3>2. CASE disk' = [disk EXCEPT !.usr[ver] = "whole", !.tmp = None]
      BY ONLY <3>1, <3>2 DEF FileSystem, None
    <3>3. CASE disk' = disk /\ pc' = "start"
      BY <3>1, <3>3
    <3> QED
      BY <3>2, <3>3
  <2>2. TypeOK' /\ Position'
    BY <2>1 DEF TypeOK, Position, Before
  <2>3. Tree'
    BY <2>1 DEF Tree, Position, Before, TypeOK
  <2>4. Carried'
    BY DEF Carried, Position, Before, TypeOK
  <2>5. Stamped' /\ Preloaded' /\ Serving'
    BY <2>1 DEF Stamped, Preloaded, DoneIsLoaded, Reading, Serving, TypeOK, Position
  <2> QED
    BY <2>2, <2>3, <2>4, <2>5
<1>3. CASE SwitchRoot
  <2> USE <1>3 DEF SwitchRoot, IInv
  <2>1. TypeOK' /\ Position' /\ Tree'
    BY DEF TypeOK, Position, Before, Tree
  <2>2. Carried'
    <3>1. /\ sysinit' = None /\ UNCHANGED <<ramfs, mem, unsaved, boots, cfg>>
          /\ pc \in Switching \cup {"switchroot"} /\ pc' \notin Late
      BY DEF Position
    <3>2. /\ ~cfg.initrd => ramfs.conf = NoFiles
          /\ \A f \in File \ unsaved : ramfs.conf[f] = boots => mem[f] = boots
      BY <3>1 DEF Carried
    <3> QED
      BY ONLY <3>1, <3>2 DEF Carried
  <2>3. Stamped' /\ Preloaded' /\ Serving'
    BY DEF Stamped, Preloaded, DoneIsLoaded, Reading, Serving, Position
  <2> QED
    BY <2>1, <2>2, <2>3
<1>4. CASE DeleteRoot
  <2> USE <1>4 DEF DeleteRoot, IInv
  <2>1. TypeOK' /\ Position' /\ Tree'
    BY DEF TypeOK, Position, Before, Tree
  <2>2. Carried'
    <3>1. /\ sysinit' = None /\ UNCHANGED <<ramfs, mem, unsaved, boots, cfg>>
          /\ pc \in Switching \cup {"switchroot"} /\ pc' \notin Late
      BY DEF Position
    <3>2. /\ ~cfg.initrd => ramfs.conf = NoFiles
          /\ \A f \in File \ unsaved : ramfs.conf[f] = boots => mem[f] = boots
      BY <3>1 DEF Carried
    <3> QED
      BY ONLY <3>1, <3>2 DEF Carried
  <2>3. Stamped' /\ Preloaded' /\ Serving'
    BY DEF Stamped, Preloaded, DoneIsLoaded, Reading, Serving, Position
  <2> QED
    BY <2>1, <2>2, <2>3
<1>5. CASE Pivot
  <2> USE <1>5 DEF Pivot, IInv
  <2>1. TypeOK' /\ Position' /\ Tree'
    BY DEF TypeOK, Position, Before, Tree
  <2>2. Carried'
    <3>1. /\ sysinit' = None /\ UNCHANGED <<ramfs, mem, unsaved, boots, cfg>>
          /\ pc \in Switching \cup {"switchroot"} /\ pc' \notin Late
      BY DEF Position
    <3>2. /\ ~cfg.initrd => ramfs.conf = NoFiles
          /\ \A f \in File \ unsaved : ramfs.conf[f] = boots => mem[f] = boots
      BY <3>1 DEF Carried
    <3> QED
      BY ONLY <3>1, <3>2 DEF Carried
  <2>3. Stamped' /\ Preloaded' /\ Serving'
    BY DEF Stamped, Preloaded, DoneIsLoaded, Reading, Serving, Position
  <2> QED
    BY <2>1, <2>2, <2>3
<1> USE DEF IInv, TypeOK, Position, Before, Tree, Carried, Stamped, Preloaded,
        DoneIsLoaded, Reading, Serving, FileSystem
<1>6. CASE RemoveUsr
  BY <1>6 DEF RemoveUsr
<1>7. CASE Unlink
  BY <1>7 DEF Unlink
<1>8. CASE CopyUsr
  BY <1>8 DEF CopyUsr
<1> QED
  BY <1>1, <1>2, <1>3, <1>4, <1>5, <1>6, <1>7, <1>8 DEF SwitchStep

CarryStep ==
    \/ WriteConfigFiles \/ WriteDone \/ RunSysInit

\* The files of cloud-init on the new root, and the start of sysinit.
LEMMA CarryStepInv == IInv /\ CarryStep => IInv'
<1> SUFFICES ASSUME IInv, CarryStep PROVE IInv'
  OBVIOUS
<1> USE ChainSteps DEF None, Goto, NoErr, Dies, Exits, Close, SetHere, Here, roots, bootVars,
        session, files, sysVars, Early, Switching, Carrying, Late, Launching, Session, Ended,
        Continue, ChainFails, NoFiles
<1>1. CASE WriteConfigFiles
  <2> USE <1>1 DEF WriteConfigFiles, IInv
  <2>1. TypeOK'
    BY HereType DEF TypeOK, FileSystem
  <2>2. Position' /\ Tree'
    BY DEF Position, Before, Tree, TypeOK, FileSystem
  <2>3. Carried'
    <3>1. PICK f \in File :
            /\ mem[f] # 0 /\ mem' = [mem EXCEPT ![f] = 0]
            /\ \/ SetHere([Here EXCEPT !.conf[f] = mem[f]]) /\ UNCHANGED unsaved
               \/ unsaved' = unsaved \cup {f} /\ UNCHANGED <<disk, ramfs>>
      OBVIOUS
    <3>2. ASSUME NEW g \in File
          PROVE  /\ root = "state" => ramfs' = ramfs
                 /\ root # "state" => Here' = ramfs'
                 /\ g # f => /\ ramfs'.conf[g] = ramfs.conf[g]
                              /\ Here'.conf[g] = Here.conf[g] /\ mem'[g] = mem[g]
                 /\ f \notin unsaved' => Here'.conf[f] = mem[f] /\ mem'[f] = 0
                 /\ unsaved \subseteq unsaved'
      BY <3>1, HereType DEF TypeOK, FileSystem
    <3>3. ASSUME NEW g \in File \ unsaved', ramfs'.conf[g] = boots
          PROVE  mem'[g] = boots \/ (mem'[g] = 0 /\ Here'.conf[g] = boots)
      <4>1. CASE g = f
        BY <3>1, <3>2, <3>3, <4>1 DEF Carried, TypeOK
      <4>2. CASE g # f
        BY <3>1, <3>2, <3>3, <4>2 DEF Carried
      <4> QED
        BY <4>1, <4>2
    <3> QED
      BY <3>1, <3>2, <3>3 DEF Carried, Position, TypeOK
  <2>4. Stamped' /\ Preloaded' /\ Serving'
    BY DEF Stamped, Preloaded, DoneIsLoaded, Reading, Serving, TypeOK, FileSystem
  <2> QED
    BY <2>1, <2>2, <2>3, <2>4
<1> USE DEF IInv, TypeOK, Position, Before, Tree, Carried, Stamped, Preloaded,
        DoneIsLoaded, Reading, Serving, FileSystem
<1>2. CASE WriteDone
  BY <1>2 DEF WriteDone
<1>3. CASE RunSysInit
  BY <1>3 DEF RunSysInit
<1> QED
  BY <1>1, <1>2, <1>3 DEF CarryStep

LaunchStep ==
    \/ LaunchDocker \/ CreateDaemonConfig \/ SecondPrepare \/ ExecDocker

\* System Docker.
LEMMA LaunchStepInv == IInv /\ LaunchStep => IInv'
<1> SUFFICES ASSUME IInv, LaunchStep PROVE IInv'
  OBVIOUS
<1> USE ChainSteps DEF None, Goto, NoErr, Dies, Exits, Close, SetHere, Here, roots, bootVars,
        session, files, sysVars, Early, Switching, Carrying, Late, Launching, Session, Ended,
        LaunchFails
<1> USE DEF IInv, TypeOK, Position, Before, Tree, Carried, Stamped, Preloaded,
        DoneIsLoaded, Reading, Serving, FileSystem
<1>1. CASE LaunchDocker
  BY <1>1 DEF LaunchDocker
<1>2. CASE CreateDaemonConfig
  BY <1>2 DEF CreateDaemonConfig
<1>3. CASE SecondPrepare
  BY <1>3 DEF SecondPrepare
<1>4. CASE ExecDocker
  BY <1>4 DEF ExecDocker
<1> QED
  BY <1>1, <1>2, <1>3, <1>4 DEF LaunchStep

SysinitStep ==
    \/ PreloadImages \/ PreloadStamp \/ LoadSystemImages \/ LoadImages
    \/ StartProject \/ ImageLoaded

\* What sysinit and the daemon do with a preloaded archive matters to Preloaded
\* only.
LEMMA Preloading ==
  ASSUME IInv, disk' \in FileSystem, ramfs' \in FileSystem,
         disk'.link = disk.link, disk'.usr = disk.usr,
         disk'.conf = disk.conf, ramfs'.conf = ramfs.conf,
         disk'.stamps = disk.stamps, ramfs'.stamps = ramfs.stamps,
         disk'.images = disk.images, ramfs'.images = ramfs.images,
         disk'.cut = disk.cut, ramfs'.cut = ramfs.cut,
         UNCHANGED <<cfg, ver, pc, root, should, sess, stopper, after, mem, unsaved, boots,
                     daemons>>,
         loading' \in {None, "system", "recovery"}, sysinit # None,
         \/ sysinit' = sysinit
         \/ /\ sysinit \in {"preload", "preloaded"}
            /\ sysinit' \in {"images", "preloaded", "failed"}
  PROVE  TypeOK' /\ Position' /\ Tree' /\ Carried' /\ Stamped' /\ Serving'
<1> USE DEF IInv
<1>1. TypeOK'
  BY DEF TypeOK, None
<1>2. Position' /\ Tree'
  BY DEF TypeOK, Position, Before, Tree, None
<1>3. Carried'
  BY DEF Carried, Here, None
<1>4. Stamped'
  BY DEF Stamped, Here, None
<1>5. Serving'
  BY DEF Serving
<1> QED
  BY <1>1, <1>2, <1>3, <1>4, <1>5

\* The sysinit process.
LEMMA SysinitStepInv == IInv /\ SysinitStep => IInv'
<1> SUFFICES ASSUME IInv, SysinitStep PROVE IInv'
  OBVIOUS
<1> USE ChainSteps DEF None, Goto, NoErr, Dies, Exits, Close, SetHere, Here, roots, bootVars,
        session, files, sysVars, Early, Switching, Carrying, Late, Launching, Session, Ended,
        SysRuns, SysGoto, SysQuiet, Client, Stored
<1>1. CASE PreloadImages
  <2> USE <1>1 DEF PreloadImages, IInv
  <2>1. /\ loading' \in {None, "system", "recovery"}
        /\ sysinit' \in {"images", "preloaded", "failed"}
        /\ sysinit' = "preloaded" => loading' # None
        /\ loading # None => loading' # None
    BY DEF TypeOK
  <2>2. UNCHANGED <<disk, ramfs, cfg, ver, pc, root, should, sess, stopper, after, mem,
                    unsaved, boots, daemons>> /\ sysinit = "preload"
    OBVIOUS
  <2>3. TypeOK' /\ Position' /\ Tree' /\ Carried' /\ Stamped' /\ Serving'
    BY <2>1, <2>2, Preloading DEF TypeOK
  <2>4. Preloaded'
    BY <2>1, <2>2 DEF Preloaded, DoneIsLoaded, Reading
  <2> QED
    BY <2>3, <2>4
<1>2. CASE PreloadStamp
  <2> USE <1>2 DEF PreloadStamp, IInv
  <2>1. /\ UNCHANGED <<cfg, ver, pc, root, should, sess, stopper, after, mem, unsaved, boots,
                       loading, daemons>>
        /\ sysinit = "preloaded" /\ sysinit' \in {"images", "failed"}
    OBVIOUS
  <2>2. CASE UNCHANGED <<disk, ramfs>>
    <3>1. TypeOK' /\ Position' /\ Tree' /\ Carried' /\ Stamped' /\ Serving'
      BY <2>1, <2>2, Preloading DEF TypeOK
    <3>2. Preloaded'
      BY <2>1, <2>2 DEF Preloaded, DoneIsLoaded, Reading
    <3> QED
      BY <3>1, <3>2
  <2>3. CASE /\ cfg.preloadWait => loading = None
             /\ SetHere([Here EXCEPT !.done = TRUE])
    <3>1. disk \in FileSystem /\ ramfs \in FileSystem
      BY DEF TypeOK
    <3>2. /\ disk' \in FileSystem /\ ramfs' \in FileSystem
          /\ disk'.link = disk.link /\ disk'.usr = disk.usr
          /\ disk'.conf = disk.conf /\ ramfs'.conf = ramfs.conf
          /\ disk'.stamps = disk.stamps /\ ramfs'.stamps = ramfs.stamps
          /\ disk'.images = disk.images /\ ramfs'.images = ramfs.images
          /\ disk'.cut = disk.cut /\ ramfs'.cut = ramfs.cut
          /\ disk'.preload = disk.preload /\ disk'.lost = disk.lost
          /\ root # "state" => disk' = disk
      <4>1. CASE root = "state"
        <5>1. disk' = [disk EXCEPT !.done = TRUE] /\ ramfs' = ramfs
          BY <2>3, <4>1
        <5> QED
          BY ONLY <3>1, <4>1, <5>1 DEF FileSystem
      <4>2. CASE root # "state"
        <5>1. ramfs' = [ramfs EXCEPT !.done = TRUE] /\ disk' = disk
          BY <2>3, <4>2
        <5> QED
          BY ONLY <3>1, <4>2, <5>1 DEF FileSystem
      <4> QED
        BY <4>1, <4>2
    <3>3. TypeOK' /\ Position' /\ Tree' /\ Carried' /\ Stamped' /\ Serving'
      BY <2>1, <3>2, Preloading DEF TypeOK
    <3>4. Preloaded'
      BY <2>1, <2>3, <3>2 DEF Preloaded, DoneIsLoaded, Reading
    <3> QED
      BY <3>3, <3>4
  <2> QED
    BY <2>2, <2>3
<1>3. CASE ImageLoaded
  <2> USE <1>3 DEF ImageLoaded, IInv
  <2>1. /\ UNCHANGED <<cfg, ver, pc, root, should, sess, stopper, after, mem, unsaved, boots,
                       sysinit, daemons>>
        /\ loading # None /\ loading' = None
    OBVIOUS
  <2>2. sysinit # None
    BY <2>1 DEF Preloaded
  <2>3. disk \in FileSystem /\ ramfs \in FileSystem
    BY DEF TypeOK
  <2>4. /\ disk' \in FileSystem /\ ramfs' \in FileSystem
        /\ disk'.link = disk.link /\ disk'.usr = disk.usr
        /\ disk'.conf = disk.conf /\ ramfs'.conf = ramfs.conf
        /\ disk'.stamps = disk.stamps /\ ramfs'.stamps = ramfs.stamps
        /\ disk'.images = disk.images /\ ramfs'.images = ramfs.images
        /\ disk'.cut = disk.cut /\ ramfs'.cut = ramfs.cut
        /\ disk'.done = disk.done
        /\ root # "state" => disk' = disk /\ (ramfs'.preload \/ ramfs'.lost)
        /\ root = "state" => disk'.preload \/ disk'.lost
    <3>1. CASE SetHere([Here EXCEPT !.preload = TRUE])
      <4>1. CASE root = "state"
        <5>1. disk' = [disk EXCEPT !.preload = TRUE] /\ ramfs' = ramfs
          BY <3>1, <4>1
        <5> QED
          BY ONLY <2>3, <4>1, <5>1 DEF FileSystem
      <4>2. CASE root # "state"
        <5>1. ramfs' = [ramfs EXCEPT !.preload = TRUE] /\ disk' = disk
          BY <3>1, <4>2
        <5> QED
          BY ONLY <2>3, <4>2, <5>1 DEF FileSystem
      <4> QED
        BY <4>1, <4>2
    <3>2. CASE SetHere([Here EXCEPT !.lost = TRUE])
      <4>1. CASE root = "state"
        <5>1. disk' = [disk EXCEPT !.lost = TRUE] /\ ramfs' = ramfs
          BY <3>2, <4>1
        <5> QED
          BY ONLY <2>3, <4>1, <5>1 DEF FileSystem
      <4>2. CASE root # "state"
        <5>1. ramfs' = [ramfs EXCEPT !.lost = TRUE] /\ disk' = disk
          BY <3>2, <4>2
        <5> QED
          BY ONLY <2>3, <4>2, <5>1 DEF FileSystem
      <4> QED
        BY <4>1, <4>2
    <3> QED
      BY <3>1, <3>2
  <2>5. TypeOK' /\ Position' /\ Tree' /\ Carried' /\ Stamped' /\ Serving'
    <3>1. loading' \in {None, "system", "recovery"}
      BY <2>1
    <3> QED
      BY <2>1, <2>2, <2>4, <3>1, Preloading
  <2>6. Preloaded'
    BY <2>1, <2>2, <2>4 DEF Preloaded, DoneIsLoaded, Reading
  <2> QED
    BY <2>5, <2>6
<1> USE DEF IInv, TypeOK, Position, Before, Tree, Carried, Stamped, Preloaded,
        DoneIsLoaded, Reading, Serving, FileSystem
<1>4. CASE LoadSystemImages
  BY <1>4 DEF LoadSystemImages
<1>5. CASE LoadImages
  BY <1>5 DEF LoadImages
<1>6. CASE StartProject
  BY <1>6 DEF StartProject
<1> QED
  BY <1>1, <1>2, <1>3, <1>4, <1>5, <1>6 DEF SysinitStep

\* A reboot: what was in memory is gone, and the images of a load that was cut
\* short are marked.
LEMMA RebootInv == IInv /\ Reboot => IInv'
<1> SUFFICES ASSUME IInv, Reboot PROVE IInv'
  OBVIOUS
<1> USE DEF Reboot, Fresh, IInv
<1>1. /\ EmptyFs \in FileSystem /\ EmptyFs.conf = NoFiles /\ EmptyFs.stamps = {}
      /\ EmptyFs.done = FALSE /\ NoFiles \in [File -> Nat]
  BY ONLY DEF EmptyFs, FileSystem, NoFiles, None
<1>2. /\ disk' \in FileSystem
      /\ disk'.stamps = disk.stamps /\ disk'.images = disk.images
      /\ disk'.cut = disk.cut \/ disk'.cut = disk.cut \cup {ver}
      /\ sysinit = "load" /\ root = "state" => ver \in disk'.cut
      /\ disk'.done = disk.done /\ disk'.preload = disk.preload
      /\ disk'.lost <=> (disk.lost \/ Reading)
  <2>1. disk \in FileSystem /\ ver \in Version
    BY DEF TypeOK
  <2> QED
    BY <2>1 DEF FileSystem
<1>3. cfg' \in [ConfigFields -> BOOLEAN] /\ cfg'.initrd = cfg.initrd /\ cfg.initrd \in BOOLEAN
  BY ConfigAssumption DEF TypeOK, ConfigFields
<1>4. TypeOK'
  <2>1. /\ pc' = "env" /\ root' \in {"initramfs", "state"} /\ ver' \in Version
        /\ boots' \in Nat \ {0}
    BY BoundAssumption DEF TypeOK
  <2> QED
    BY <1>1, <1>2, <1>3, <2>1 DEF TypeOK, None, Early
<1>5. Position'
  BY <1>3 DEF Position, Before, None, Early, Switching, Session
<1>6. Tree'
  BY DEF Tree
<1>7. Carried'
  <2>1. \A f \in File : ramfs'.conf[f] = 0
    BY <1>1 DEF NoFiles
  <2>2. boots' # 0 /\ sysinit' = None /\ pc' = "env"
    BY <1>4 DEF TypeOK
  <2> QED
    BY <1>1, <2>1, <2>2 DEF Carried
<1>8. Stamped'
  BY <1>1, <1>2 DEF Stamped, None
<1>9. Preloaded'
  BY <1>2 DEF Preloaded, DoneIsLoaded, Reading, None
<1>10. Serving'
  BY DEF Serving, None
<1> QED
  BY <1>4, <1>5, <1>6, <1>7, <1>8, <1>9, <1>10

\* The first boot starts on a state partition without files.
LEMMA InitInv == Init => IInv
<1> SUFFICES ASSUME Init PROVE IInv
  OBVIOUS
<1> USE DEF Init, Fresh
<1>1. /\ EmptyFs \in FileSystem /\ EmptyFs.conf = NoFiles /\ EmptyFs.stamps = {}
      /\ EmptyFs.done = FALSE /\ NoFiles \in [File -> Nat]
  BY ONLY DEF EmptyFs, FileSystem, NoFiles, None
<1>2. /\ disk \in FileSystem /\ disk.stamps = {} /\ disk.done = FALSE
  <2>1. CASE disk = EmptyFs
    BY <1>1, <2>1
  <2>2. CASE disk = [EmptyFs EXCEPT !.fs = TRUE]
    BY ONLY <1>1, <2>2 DEF FileSystem
  <2> QED
    BY <2>1, <2>2
<1>3. cfg \in [ConfigFields -> BOOLEAN] /\ cfg.initrd \in BOOLEAN
  BY ConfigAssumption DEF ConfigFields
<1>4. TypeOK
  <2>1. /\ pc = "env" /\ root \in {"initramfs", "state"} /\ ver \in Version
        /\ boots \in Nat \ {0}
    BY BoundAssumption DEF TypeOK
  <2> QED
    BY <1>1, <1>2, <1>3, <2>1 DEF TypeOK, None, Early
<1>5. Position
  BY <1>3 DEF Position, Before, None, Early, Switching, Session
<1>6. Tree
  BY DEF Tree
<1>7. Carried
  <2>1. \A f \in File : ramfs.conf[f] = 0
    BY <1>1 DEF NoFiles
  <2> QED
    BY <1>1, <2>1 DEF Carried
<1>8. Stamped /\ Preloaded /\ Serving
  BY <1>1, <1>2 DEF Stamped, Preloaded, DoneIsLoaded, Reading, Serving, None
<1> QED
  BY <1>4, <1>5, <1>6, <1>7, <1>8 DEF IInv

\* Every step, and a step that changes nothing, keeps IInv.
LEMMA NextInv == IInv /\ [Next]_vars => IInv'
<1> SUFFICES ASSUME IInv, [Next]_vars PROVE IInv'
  OBVIOUS
<1>1. CASE Next
  BY <1>1, ChainStepInv, SessionStepInv, MountStepInv, SwitchStepInv, CarryStepInv,
     LaunchStepInv, SysinitStepInv, RebootInv
     DEF Next, InitStep, SysStep, ChainStep, SessionStep, MountStep, SwitchStep, CarryStep,
         LaunchStep, SysinitStep
<1>2. CASE UNCHANGED vars
  BY <1>2 DEF vars, IInv, TypeOK, Position, Before, Tree, Carried, Here, Stamped, Preloaded,
     DoneIsLoaded, Reading, Serving
<1> QED
  BY <1>1, <1>2

\* IInv is an invariant of the specification.
LEMMA Inductive == Spec => []IInv
<1>1. Init => IInv
  BY InitInv
<1>2. IInv /\ [Next]_vars => IInv'
  BY NextInv
<1> QED
  BY <1>1, <1>2, PTL DEF Spec

-----------------------------------------------------------------------------
(* The theorems.                                                           *)

\* Every variable that the properties look at keeps its type.
THEOREM TypeCorrect == Spec => []TypeOK
<1>1. IInv => TypeOK
  BY DEF IInv
<1> QED
  BY <1>1, Inductive, PTL

\* After the change of root /usr is the tree of the version that booted,
\* whatever copyMoveRoot was cut short at in earlier boots of any version.
THEOREM UsrIsWhole == Spec => []UsrWhole
<1>1. IInv => UsrWhole
  BY DEF IInv, Tree, TypeOK, FileSystem, UsrWhole, None
<1> QED
  BY <1>1, Inductive, PTL

\* The files cloud-init-save wrote in this boot are on the root of sysinit,
\* unless ReadConfigFiles or WriteConfigFiles failed on them.
THEOREM ConfigIsKept == Spec => []ConfigKept
<1>1. IInv => ConfigKept
  BY DEF IInv, Carried, ConfigKept
<1> QED
  BY <1>1, Inductive, PTL

\* Sysinit starts the project with the images of its version, over any sequence
\* of versions and boots: only those whose load failed, lost power after the
\* stamp of LoadSystemImages or went to the recovery console's daemon are without.
THEOREM ImagesAreThere == Spec => []ServicesHaveImages
<1>1. IInv => ServicesHaveImages
  BY DEF IInv, Stamped, ServicesHaveImages
<1> QED
  BY <1>1, Inductive, PTL

\* An archive with the stamp of PreloadImages is loaded, was refused or went to
\* the recovery console's daemon; only without preload_wait a power failure can
\* have caught the daemon reading it.
THEOREM StampMeansLoaded == Spec => []DoneIsLoaded
<1>1. IInv => DoneIsLoaded
  BY DEF IInv, Preloaded
<1> QED
  BY <1>1, Inductive, PTL

\* docker.Stop has stopped a daemon before the next one is started: besides the
\* recovery console's there is never more than one.
THEOREM AtMostOneDaemon == Spec => []OneDaemon
<1>1. IInv => OneDaemon
  <2> SUFFICES ASSUME IInv PROVE OneDaemon
    OBVIOUS
  <2>1. PICK d : daemons \ {"recovery"} \subseteq {d}
    BY DEF IInv, Serving
  <2>2. daemons \ {"recovery"} = {} \/ daemons \ {"recovery"} = {d}
    BY <2>1
  <2>3. Cardinality({}) = 0 /\ Cardinality({d}) = 1
    BY FS_EmptySet, FS_Singleton
  <2> QED
    BY <2>2, <2>3 DEF OneDaemon
<1> QED
  BY <1>1, Inductive, PTL
=============================================================================
