------------------------------ MODULE BootInit ------------------------------
(* Boot of the machine: the chain of functions ros init runs as process 1     *)
(* (cmd/init, pkg/init), the Docker daemons it starts and stops on the way    *)
(* (pkg/init/docker, pkg/dfs), the move from the initramfs to the state       *)
(* partition (switchroot), the recovery console, and the sysinit process it   *)
(* leaves behind to load the system images and start the services             *)
(* (pkg/sysinit, cmd/control/preload.go).  A boot may lose power at any step, *)
(* and the state partition lives through boots of several versions.           *)
EXTENDS Naturals, Sequences, FiniteSets

CONSTANTS
    Version,   \* versions of the system; their /usr trees and images differ
    File,      \* files of cloud-init that are carried over the change of root
    Configs,   \* configurations a boot may find
    MaxBoots,  \* bound on the boots
    MaxErrors  \* bound on the calls that fail

ASSUME BoundAssumption == {MaxBoots, MaxErrors} \subseteq Nat

None == "none"

\* A configuration: state.dev is set, and names a device node, not a label; the
\* state is required, the state partition may be formatted, there are boot
\* commands, the recovery console is asked for, rm_usr is set, datasources are
\* configured, preload_wait is set, and the kernel started init from an
\* initramfs; the disk is one of boot2docker.
ConfigFields == {"dev", "node", "required", "autoformat", "bootcmd", "recovery", "rmUsr",
                 "datasources", "preloadWait", "initrd", "b2d"}
ASSUME ConfigAssumption == Configs \subseteq [ConfigFields -> BOOLEAN]

VARIABLES
    \* on disk
    disk,      \* state partition: see EmptyFs
    \* this boot
    cfg, ver,  \* configuration and version of this boot
    pc,        \* where init stands: a member of Chain or a step inside one
    nil,       \* the cfg pointer of the chain is nil
    root,      \* "initramfs", "half" (old root deleted) or "state"
    should,    \* fsmount.ShouldSwitchRoot
    sess,      \* who started the daemon init works with
    failed,    \* result of that work
    stopper,   \* goroutine of docker.Start: "wait", "term", "answer" or None
    after,     \* where init goes on when the recovery console returns
    ramfs,     \* the initramfs
    mem,       \* ConfigFiles
    daemons,   \* Docker daemons that run
    sysinit,   \* where the sysinit process stands
    loading,   \* the daemon that still reads a preloaded archive, or None
    boots, errors,
    unsaved    \* history: files of this boot that could not be carried over

bootVars == <<cfg, ver>>
session == <<sess, failed, stopper, after>>
files == <<mem, unsaved>>
roots == <<root, disk, ramfs>>
sysVars == <<sysinit, loading>>
vars == <<disk, cfg, ver, pc, nil, root, should, sess, failed, stopper, after,
          ramfs, mem, daemons, sysinit, loading, boots, errors, unsaved>>

\* The functions of RunInit in their order, and the launch after them.
Chain == <<"env", "preparefs", "cmdline", "oem", "debug", "modules", "recovery",
           "b2d", "mount", "cloud-init", "read", "switchroot", "oem2", "boot",
           "write", "b2d2", "hypervisor", "preparefs2", "modules2", "proxy",
           "sharedroot", "sysinit", "launch">>
Following(f) == Chain[CHOOSE i \in 2..Len(Chain) : Chain[i - 1] = f]

\* usr[v] is usr-v: absent, copied completely, or partly removed by rm_usr;
\* tmp holds a copy in progress; link is the target of the usr symlink.  cut
\* and lost are history: the versions whose images a failure kept from being
\* loaded once their stamp was made, and that a preloaded archive was refused by
\* the daemon, was handed to the recovery console's, or without preload_wait was
\* still being read when the power failed.
EmptyFs ==
    [fs |-> FALSE, usr |-> [v \in Version |-> None], tmp |-> None, link |-> None,
     conf |-> [f \in File |-> 0], json |-> None, stamps |-> {}, images |-> {},
     preload |-> FALSE, done |-> FALSE, cut |-> {}, lost |-> FALSE]
NoFiles == [f \in File |-> 0]

\* The file system at /.
Here == IF root = "state" THEN disk ELSE ramfs
SetHere(fs) ==
    IF root = "state" THEN disk' = fs /\ UNCHANGED ramfs
                      ELSE ramfs' = fs /\ UNCHANGED disk

-----------------------------------------------------------------------------
(* Steps                                                                     *)

Goto(p) == pc' = p
Continue == Goto(Following(pc))
Err == errors < MaxErrors /\ errors' = errors + 1
NoErr == UNCHANGED errors

\* A function returned an error: the chain ends and Recovery is called; then
\* RunInit launches System Docker with the configuration it has.
ChainFails ==
    /\ Err
    /\ pc' = "start" /\ sess' = "recovery" /\ after' = "launch"
    /\ failed' = FALSE /\ stopper' = None
\* log.Fatal, or a return from main: process 1 exits and the kernel panics.
Dies == Goto("dead") /\ UNCHANGED session
\* LoadConfig exits when the configuration cannot be parsed.
Exits == Err /\ Dies

\* Functions of the chain that return no error and change nothing the model
\* keeps: what they fail at is logged.
Passes(func) ==
    /\ pc = func
    /\ Continue
    /\ UNCHANGED <<roots, bootVars, nil, should, session, files, daemons, sysVars,
                   boots, errors>>
EnvInit == Passes("env")
MountOem == Passes("oem") \/ Passes("oem2")
MountBoot == Passes("boot")
Proxy == Passes("proxy")

\* Functions that, besides, load the configuration again.
Loads(func) ==
    /\ pc = func
    /\ \/ Continue /\ UNCHANGED session /\ NoErr
       \/ Exits
    /\ UNCHANGED <<roots, bootVars, nil, should, files, daemons, sysVars, boots>>
PrintAndLoadConfig == Loads("debug")
B2DEnv == Loads("b2d2")
HypervisorTools == Loads("hypervisor")

\* Functions that return their error.
Tries(func) ==
    /\ pc = func
    /\ \/ Continue /\ UNCHANGED session /\ NoErr
       \/ ChainFails
    /\ UNCHANGED <<roots, bootVars, nil, should, files, daemons, sysVars, boots>>
PrepareFS == Tries("preparefs") \/ Tries("preparefs2")
LoadModules == Tries("modules") \/ Tries("modules2")
SharedRoot == Tries("sharedroot")

\* B2D: the disk of boot2docker is the state partition, and is formatted when
\* it still asks for it; otherwise the configuration is loaded again.
B2D ==
    /\ pc = "b2d"
    /\ cfg' = IF cfg.b2d THEN [cfg EXCEPT !.dev = TRUE, !.node = FALSE,
                                         !.autoformat = @ \/ ~disk.fs]
              ELSE cfg
    /\ \/ Continue /\ UNCHANGED session /\ NoErr
       \/ ~(cfg.b2d /\ disk.fs) /\ Exits
    /\ UNCHANGED <<roots, ver, nil, should, files, daemons, sysVars, boots>>

\* SaveCmdline loads the first configuration.
SaveCmdline ==
    /\ pc = "cmdline"
    /\ \/ nil' = FALSE /\ Continue /\ UNCHANGED session /\ NoErr
       \/ Exits /\ UNCHANGED nil
    /\ UNCHANGED <<roots, bootVars, should, files, daemons, sysVars, boots>>

LoadRecoveryConsole ==
    /\ pc = "recovery"
    /\ IF cfg.recovery
         THEN /\ pc' = "start" /\ sess' = "recovery" /\ after' = Following(pc)
              /\ failed' = FALSE /\ stopper' = None
         ELSE Continue /\ UNCHANGED session
    /\ UNCHANGED <<roots, bootVars, nil, should, files, daemons, sysVars,
                   boots, errors>>

-----------------------------------------------------------------------------
(* A daemon for bootstrap, cloud-init or the recovery console                *)

Open(who) ==
    /\ pc' = "start" /\ sess' = who /\ failed' = FALSE /\ stopper' = None
    /\ UNCHANGED after

\* docker.Start: LaunchDocker prepares the file systems and forks the daemon.
\* Between the removal of the old root and the change to the new one there is
\* no daemon to start.
DockerStart ==
    /\ pc = "start"
    /\ \/ /\ root # "half"
          /\ daemons' = daemons \cup {sess}
          /\ stopper' = IF sess = "recovery" THEN None ELSE "wait"
          /\ Goto("load") /\ NoErr /\ UNCHANGED <<sess, failed, after>>
       \/ /\ IF root = "half" THEN NoErr ELSE Err
          /\ UNCHANGED daemons
          /\ IF sess = "recovery" THEN Dies
             ELSE Goto("return") /\ failed' = TRUE /\ UNCHANGED <<sess, stopper, after>>
    /\ UNCHANGED <<roots, bootVars, nil, should, files, sysVars, boots>>

\* LoadBootstrapImages: no client is an error of the chain, an archive that
\* cannot be loaded ends init.
LoadBootstrapImages ==
    /\ pc = "load"
    /\ \/ Goto("services") /\ NoErr /\ UNCHANGED session
       \/ Err /\ sess # "recovery" /\ Goto("stop")
          /\ failed' = TRUE /\ UNCHANGED <<sess, stopper, after>>
       \/ Err /\ Dies
    /\ UNCHANGED <<roots, bootVars, nil, should, files, daemons, sysVars, boots>>

\* The bootstrap container: it assembles devices, waits for the state device
\* and formats it when it may.  What fails is logged.
BootstrapMain(fs) == [fs EXCEPT !.fs = fs.fs \/ cfg.autoformat]
\* The device is there: a label only once the partition was formatted.
Resolves == cfg.node \/ disk.fs
\* bootstrapServices: the container is not run when the device is there and
\* there are no boot commands.
BootstrapServices ==
    /\ pc = "services" /\ sess = "bootstrap"
    /\ \/ Resolves /\ ~cfg.bootcmd /\ failed' = FALSE /\ UNCHANGED disk /\ NoErr
       \/ /\ ~Resolves \/ cfg.bootcmd
          /\ disk' = BootstrapMain(disk) /\ failed' = FALSE /\ NoErr
       \/ /\ ~Resolves \/ cfg.bootcmd
          /\ Err /\ failed' \in BOOLEAN /\ UNCHANGED disk
    /\ Goto("stop")
    /\ UNCHANGED <<root, ramfs, bootVars, nil, should, sess, stopper, after, files,
                   daemons, sysVars, boots>>

\* runCloudInitServiceSet: cloud-init-save writes its files where init runs,
\* which is the initramfs unless the machine has none.
RunCloudInitServices ==
    /\ pc = "services" /\ sess = "cloud-init"
    /\ \E new \in SUBSET File :
         SetHere([Here EXCEPT !.conf =
                    [f \in File |-> IF f \in new THEN boots ELSE Here.conf[f]]])
    /\ \/ failed' = FALSE /\ NoErr
       \/ Err /\ failed' = TRUE
    /\ Goto("stop")
    /\ UNCHANGED <<root, bootVars, nil, should, sess, stopper, after, files,
                   daemons, sysVars, boots>>

\* recoveryServices: the console runs until the user leaves it.  Its daemon is
\* not stopped.
RecoveryServices ==
    /\ pc = "services" /\ sess = "recovery"
    /\ \/ Goto("console") /\ NoErr
       \/ Err /\ Goto("dead")
    /\ UNCHANGED <<roots, bootVars, nil, should, session, files, daemons,
                   sysVars, boots>>
LeaveConsole ==
    /\ pc = "console"
    /\ Goto("return")
    /\ UNCHANGED <<roots, bootVars, nil, should, session, files, daemons,
                   sysVars, boots, errors>>

\* Mutant: the goroutine ends without an answer.
StopDaemon_NoAnswer ==
    /\ stopper = "term"
    /\ daemons' = daemons \ {sess}
    /\ stopper' = None
    /\ UNCHANGED <<roots, bootVars, pc, nil, should, sess, failed, after,
                   files, sysVars, boots, errors>>
\* Mutant: the daemon is told to stop and not waited for.
StopDaemon_NoWait ==
    /\ stopper = "term"
    /\ stopper' = "answer"
    /\ UNCHANGED <<roots, bootVars, pc, nil, should, sess, failed, after,
                   files, daemons, sysVars, boots, errors>>

\* docker.Stop and the goroutine of docker.Start, over an unbuffered channel.
StopSend ==
    /\ pc = "stop" /\ stopper = "wait"
    /\ stopper' = "term" /\ Goto("stopwait")
    /\ UNCHANGED <<roots, bootVars, nil, should, sess, failed, after, files,
                   daemons, sysVars, boots, errors>>
StopDaemon ==
    /\ stopper = "term"
    /\ daemons' = daemons \ {sess}
    /\ stopper' = "answer"
    /\ UNCHANGED <<roots, bootVars, pc, nil, should, sess, failed, after,
                   files, sysVars, boots, errors>>
StopReceive ==
    /\ pc = "stopwait" /\ stopper = "answer"
    /\ stopper' = None /\ Goto("return")
    /\ UNCHANGED <<roots, bootVars, nil, should, sess, failed, after, files,
                   daemons, sysVars, boots, errors>>

Close == sess' = None /\ failed' = FALSE /\ UNCHANGED <<stopper, after>>

\* Recovery returned to its caller.
RecoveryReturns ==
    /\ pc = "return" /\ sess = "recovery"
    /\ Goto(after) /\ Close
    /\ UNCHANGED <<roots, bootVars, nil, should, files, daemons, sysVars,
                   boots, errors>>

-----------------------------------------------------------------------------
(* The state partition                                                       *)

\* tryMountStateAndBootstrap: no attempt without an initramfs or a device; a
\* mount that fails is tried again after bootstrap.
MountState ==
    /\ pc = "mount"
    /\ IF ~cfg.initrd \/ ~cfg.dev
         THEN /\ should' = FALSE
              /\ Continue /\ UNCHANGED session /\ NoErr
         ELSE \/ /\ disk.fs /\ should' = TRUE
                 /\ Continue /\ UNCHANGED session /\ NoErr
              \/ /\ IF disk.fs THEN Err ELSE NoErr
                 /\ Open("bootstrap") /\ UNCHANGED should
    /\ UNCHANGED <<roots, bootVars, nil, files, daemons, sysVars, boots>>

\* After bootstrap.  An error matters only when the state is required, and
\* then the chain goes on without a configuration.
MountAgain ==
    /\ pc = "return" /\ sess = "bootstrap"
    /\ \/ /\ ~failed /\ disk.fs
          /\ should' = TRUE /\ pc' = "cloud-init" /\ Close
          /\ UNCHANGED nil /\ NoErr
       \/ /\ IF failed \/ ~disk.fs THEN NoErr ELSE Err
          /\ should' = FALSE
          /\ IF cfg.required
               THEN /\ nil' = TRUE
                    /\ pc' = "start" /\ sess' = "recovery" /\ after' = "launch"
                    /\ failed' = FALSE /\ stopper' = None
               ELSE pc' = "cloud-init" /\ Close /\ UNCHANGED nil
    /\ UNCHANGED <<roots, bootVars, files, daemons, sysVars, boots>>

\* CloudInit: nothing without datasources; its errors are logged.  It loads the
\* configuration of the state partition first, and all of it at the end.
CloudInit ==
    /\ pc = "cloud-init"
    /\ \/ cfg.datasources /\ Open("cloud-init") /\ NoErr
       \/ ~cfg.datasources /\ Continue /\ UNCHANGED session /\ NoErr
       \/ Exits
    /\ UNCHANGED <<roots, bootVars, nil, should, files, daemons, sysVars, boots>>
CloudInitReturns ==
    /\ pc = "return" /\ sess = "cloud-init"
    /\ \/ pc' = "read" /\ Close /\ NoErr
       \/ Exits
    /\ UNCHANGED <<roots, bootVars, nil, should, files, daemons, sysVars, boots>>

\* ReadConfigFiles: a file that cannot be read is skipped.
ReadConfigFiles ==
    /\ pc = "read"
    /\ \/ mem' = Here.conf /\ UNCHANGED unsaved /\ NoErr
       \/ \E f \in File :
            /\ Here.conf[f] # 0 /\ Err
            /\ mem' = [Here.conf EXCEPT ![f] = 0] /\ unsaved' = unsaved \cup {f}
    /\ Continue
    /\ UNCHANGED <<roots, bootVars, nil, should, session, daemons,
                   sysVars, boots>>

\* SwitchRoot and switchRoot up to copyMoveRoot: the bind mount of the state
\* directory and the mounts that move.
SwitchRoot ==
    /\ pc = "switchroot"
    /\ \/ ~should /\ Continue /\ UNCHANGED session /\ NoErr
       \/ should /\ Goto("rmusr") /\ UNCHANGED session /\ NoErr
       \/ should /\ ChainFails
    /\ UNCHANGED <<roots, bootVars, nil, should, files, daemons, sysVars, boots>>

\* copyMoveRoot: a removal that fails half way is only logged.
RemoveUsr ==
    /\ pc = "rmusr"
    /\ \/ ~cfg.rmUsr /\ UNCHANGED disk /\ NoErr
       \/ cfg.rmUsr /\ disk' = [disk EXCEPT !.usr[ver] = None] /\ NoErr
       \/ /\ cfg.rmUsr /\ disk.usr[ver] # None /\ Err
          /\ disk' = [disk EXCEPT !.usr[ver] = "cut"]
    /\ Goto("cleanup")
    /\ UNCHANGED <<root, ramfs, bootVars, nil, should, session, files, daemons, sysVars, boots>>

\* cleanupTarget: the link is removed, then made again; the copy is skipped
\* when usr-ver exists.
Unlink ==
    /\ pc = "cleanup"
    /\ \/ /\ disk' = [disk EXCEPT !.link = None] /\ NoErr
          /\ Goto("symlink") /\ UNCHANGED session
       \/ ChainFails /\ UNCHANGED disk
    /\ UNCHANGED <<root, ramfs, bootVars, nil, should, files, daemons, sysVars, boots>>
Symlink ==
    /\ pc = "symlink"
    /\ \/ /\ disk' = [disk EXCEPT !.link = ver, !.tmp = None] /\ NoErr
          /\ Goto(IF disk.usr[ver] = None THEN "copy" ELSE "pivot")
          /\ UNCHANGED session
       \/ ChainFails /\ UNCHANGED disk
    /\ UNCHANGED <<root, ramfs, bootVars, nil, should, files, daemons, sysVars, boots>>

\* Mutant: /usr is copied to its place, not to a temporary directory.
CopyUsr_InPlace ==
    /\ pc = "copy"
    /\ \/ /\ disk' = [disk EXCEPT !.usr[ver] = "part"] /\ NoErr
          /\ Goto("rename") /\ UNCHANGED session
       \/ ChainFails /\ disk' = [disk EXCEPT !.usr[ver] = "part"]
    /\ UNCHANGED <<root, ramfs, bootVars, nil, should, files, daemons, sysVars, boots>>
CopyUsr ==
    /\ pc = "copy"
    /\ \/ /\ disk' = [disk EXCEPT !.tmp = "part"] /\ NoErr
          /\ Goto("rename") /\ UNCHANGED session
       \/ ChainFails /\ disk' = [disk EXCEPT !.tmp = "part"]
    /\ UNCHANGED <<root, ramfs, bootVars, nil, should, files, daemons, sysVars, boots>>
\* The copy is complete before it gets its name.
RenameUsr ==
    /\ pc = "rename"
    /\ \/ /\ disk' = [disk EXCEPT !.usr[ver] = "whole", !.tmp = None] /\ NoErr
          /\ Goto("delete") /\ UNCHANGED session
       \/ ChainFails /\ UNCHANGED disk
    /\ UNCHANGED <<root, ramfs, bootVars, nil, should, files, daemons, sysVars, boots>>
DeleteRoot ==
    /\ pc = "delete"
    /\ root' = "half"
    /\ \/ Goto("pivot") /\ UNCHANGED session /\ NoErr
       \/ ChainFails
    /\ UNCHANGED <<disk, ramfs, bootVars, nil, should, files, daemons, sysVars, boots>>
Pivot ==
    /\ pc = "pivot"
    /\ \/ root' = "state" /\ pc' = "oem2" /\ UNCHANGED session /\ NoErr
       \/ ChainFails /\ UNCHANGED root
    /\ UNCHANGED <<disk, ramfs, bootVars, nil, should, files, daemons, sysVars, boots>>

\* Mutant: a file that is there is kept.
WriteConfigFiles_KeepOld ==
    /\ pc = "write"
    /\ \E f \in File :
         /\ mem[f] # 0
         /\ SetHere(IF Here.conf[f] = 0 THEN [Here EXCEPT !.conf[f] = mem[f]] ELSE Here)
         /\ mem' = [mem EXCEPT ![f] = 0]
    /\ UNCHANGED <<root, bootVars, pc, nil, should, session, unsaved, daemons,
                   sysVars, boots, errors>>
\* WriteConfigFiles: every file is written to a temporary one and renamed; an
\* error is logged and the next file follows.
WriteConfigFiles ==
    /\ pc = "write"
    /\ \E f \in File :
         /\ mem[f] # 0
         /\ \/ /\ SetHere([Here EXCEPT !.conf[f] = mem[f]])
               /\ UNCHANGED unsaved /\ NoErr
            \/ /\ Err /\ unsaved' = unsaved \cup {f} /\ UNCHANGED <<disk, ramfs>>
         /\ mem' = [mem EXCEPT ![f] = 0]
    /\ UNCHANGED <<root, bootVars, pc, nil, should, session, daemons, sysVars, boots>>
WriteDone ==
    /\ pc = "write" /\ mem = NoFiles
    /\ Continue
    /\ UNCHANGED <<roots, bootVars, nil, should, session, files, daemons, sysVars,
                   boots, errors>>

-----------------------------------------------------------------------------
(* System Docker and sysinit                                                 *)

\* RunSysInit starts the sysinit process, before there is a daemon for it, and
\* closes its own input: an error of that leaves the process running.
RunSysInit ==
    /\ pc = "sysinit"
    /\ \/ sysinit' = "preload" /\ Continue /\ UNCHANGED session /\ NoErr
       \/ ChainFails /\ sysinit' \in {"preload", sysinit}
    /\ UNCHANGED <<roots, bootVars, nil, should, files, daemons, loading, boots>>

LaunchFails ==
    /\ pc' = "start" /\ sess' = "recovery" /\ after' = "dead"
    /\ failed' = FALSE /\ stopper' = None
    /\ UNCHANGED <<disk, ramfs>>
\* The end of RunInit: without a configuration it panics, and MainInit calls
\* Recovery again.  A daemon that cannot be launched leads to the recovery
\* console and the end of init.  createDaemonConfig makes the daemon's
\* configuration file unless it exists, and cleanupFiles removes empty ones of
\* other names.
LaunchDocker ==
    /\ pc = "launch"
    /\ \/ /\ ~nil /\ root # "half"
          /\ IF Here.json = None
               THEN SetHere([Here EXCEPT !.json = "empty"]) /\ Goto("json")
               ELSE UNCHANGED <<disk, ramfs>> /\ Goto("second")
          /\ UNCHANGED session /\ NoErr
       \/ /\ IF nil \/ root = "half" THEN NoErr ELSE Err
          /\ LaunchFails
    /\ UNCHANGED <<root, bootVars, nil, should, files, daemons, sysVars, boots>>
CreateDaemonConfig ==
    /\ pc = "json"
    /\ \/ SetHere([Here EXCEPT !.json = "whole"]) /\ Goto("second")
          /\ UNCHANGED session /\ NoErr
       \/ Err /\ LaunchFails
    /\ UNCHANGED <<root, bootVars, nil, should, files, daemons, sysVars, boots>>
\* Sockets, log file, binaries and limits; then the daemon is executed, in the
\* place of init.  With an empty configuration file it may refuse to run.
SecondPrepare ==
    /\ pc = "second"
    /\ \/ Goto("exec") /\ UNCHANGED <<disk, ramfs, session>> /\ NoErr
       \/ Err /\ LaunchFails
    /\ UNCHANGED <<root, bootVars, nil, should, files, daemons, sysVars, boots>>
ExecDocker ==
    /\ pc = "exec"
    /\ \/ /\ daemons' = daemons \cup {"system"} /\ Goto("up")
          /\ UNCHANGED <<disk, ramfs, session>> /\ NoErr
       \/ /\ Here.json = "empty" /\ Goto("dead")
          /\ UNCHANGED <<disk, ramfs, session, daemons, errors>>
       \/ Err /\ LaunchFails /\ UNCHANGED daemons
    /\ UNCHANGED <<root, bootVars, nil, should, files, sysVars, boots>>

SysRuns(p) == sysinit = p /\ pc # "dead"
SysGoto(p) == sysinit' = p
SysQuiet == UNCHANGED <<root, bootVars, pc, nil, should, session, files, daemons, boots>>
\* A client finds whichever daemon answers on the socket: the recovery
\* console's keeps its images elsewhere.
Client == daemons # {}
Stored == "system" \in daemons

\* The configuration is loaded, then PreloadImages: an archive without a stamp
\* is handed to the daemon.
PreloadImages ==
    /\ SysRuns("preload")
    /\ \/ Here.done /\ SysGoto("images") /\ NoErr /\ UNCHANGED loading
       \/ /\ ~Here.done /\ Client
          /\ loading' = (IF Stored THEN "system" ELSE "recovery")
          /\ SysGoto("preloaded") /\ NoErr
       \/ Err /\ sysinit' \in {"images", "failed"} /\ UNCHANGED loading
    /\ UNCHANGED <<disk, ramfs>> /\ SysQuiet
\* The daemon has ended with the archive: its image is there, or the answer
\* says why not.
ImageLoaded ==
    /\ loading # None /\ pc # "dead"
    /\ loading' = None
    /\ \/ loading = "system" /\ SetHere([Here EXCEPT !.preload = TRUE]) /\ NoErr
       \/ loading # "system" /\ SetHere([Here EXCEPT !.lost = TRUE]) /\ NoErr
       \/ Err /\ SetHere([Here EXCEPT !.lost = TRUE])
    /\ UNCHANGED sysinit /\ SysQuiet
\* Mutant: preload_wait is not looked at.
PreloadStamp_NoWait ==
    /\ SysRuns("preloaded")
    /\ SetHere([Here EXCEPT !.done = TRUE])
    /\ SysGoto("images")
    /\ UNCHANGED <<loading, errors>> /\ SysQuiet
\* The configuration is loaded again.  With preload_wait the answer is read to
\* its end, whatever it says, before the stamp is made.
PreloadStamp ==
    /\ SysRuns("preloaded")
    /\ \/ /\ cfg.preloadWait => loading = None
          /\ SetHere([Here EXCEPT !.done = TRUE])
          /\ SysGoto("images") /\ NoErr
       \/ Err /\ sysinit' \in {"images", "failed"} /\ UNCHANGED <<disk, ramfs>>
    /\ UNCHANGED loading /\ SysQuiet

\* Mutant: one stamp for all versions.
LoadSystemImages_OneStamp ==
    /\ SysRuns("images")
    /\ IF Here.stamps # {}
         THEN SysGoto("project") /\ UNCHANGED <<disk, ramfs>>
         ELSE /\ SetHere([Here EXCEPT !.stamps = @ \cup {ver}])
              /\ SysGoto("load")
    /\ UNCHANGED <<loading, errors>> /\ SysQuiet
\* LoadSystemImages: the stamp of the version is made, or not when that fails,
\* then the images are loaded.
LoadSystemImages ==
    /\ SysRuns("images")
    /\ \/ /\ ver \in Here.stamps
          /\ SysGoto("project") /\ NoErr /\ UNCHANGED <<disk, ramfs>>
       \/ /\ ver \notin Here.stamps
          /\ SetHere([Here EXCEPT !.stamps = @ \cup {ver}])
          /\ SysGoto("load") /\ NoErr
       \/ /\ ver \notin Here.stamps /\ Err
          /\ SysGoto("load") /\ UNCHANGED <<disk, ramfs>>
    /\ UNCHANGED loading /\ SysQuiet
\* loadImages: no client, no archive or a failing load ends sysinit.
LoadImages ==
    /\ SysRuns("load")
    /\ \/ /\ Client
          /\ SetHere(IF Stored THEN [Here EXCEPT !.images = @ \cup {ver}]
                               ELSE [Here EXCEPT !.cut = @ \cup {ver}])
          /\ SysGoto("project") /\ NoErr
       \/ /\ Err /\ SetHere([Here EXCEPT !.cut = @ \cup {ver}])
          /\ SysGoto("failed")
    /\ UNCHANGED loading /\ SysQuiet
\* The project is started; then sync and the banner.
StartProject ==
    /\ SysRuns("project")
    /\ \/ Client /\ SysGoto("started") /\ NoErr
       \/ Err /\ SysGoto("failed")
    /\ UNCHANGED <<disk, ramfs, loading>> /\ SysQuiet

-----------------------------------------------------------------------------
(* The machine                                                               *)

\* What a boot starts from: nothing in memory.
Fresh(initrd) ==
    [pc |-> "env", root |-> IF initrd THEN "initramfs" ELSE "state"]

\* Without preload_wait the stamp may be there before the image.
Reading == loading # None /\ root = "state" /\ ~cfg.preloadWait /\ disk.done

\* A power failure or a reboot, whatever is going on.  The next boot finds a
\* version and a configuration; whether there is an initramfs is a property of
\* the machine.
Reboot ==
    /\ boots < MaxBoots /\ boots' = boots + 1
    /\ cfg' \in {c \in Configs : c.initrd = cfg.initrd}
    /\ ver' \in Version
    /\ disk' = [disk EXCEPT
                   !.cut = IF sysinit = "load" /\ root = "state" THEN @ \cup {ver} ELSE @,
                   !.lost = @ \/ Reading]
    /\ pc' = Fresh(cfg.initrd).pc /\ root' = Fresh(cfg.initrd).root
    /\ nil' = TRUE /\ should' = FALSE
    /\ sess' = None /\ failed' = FALSE /\ stopper' = None /\ after' = None
    /\ ramfs' = EmptyFs /\ mem' = NoFiles /\ unsaved' = {} /\ daemons' = {}
    /\ sysinit' = None /\ loading' = None
    /\ UNCHANGED errors

Init ==
    /\ disk \in {EmptyFs, [EmptyFs EXCEPT !.fs = TRUE]}
    /\ cfg \in Configs /\ ver \in Version
    /\ pc = Fresh(cfg.initrd).pc /\ root = Fresh(cfg.initrd).root
    /\ nil = TRUE /\ should = FALSE
    /\ sess = None /\ failed = FALSE /\ stopper = None /\ after = None
    /\ ramfs = EmptyFs /\ mem = NoFiles /\ unsaved = {} /\ daemons = {}
    /\ sysinit = None /\ loading = None
    /\ boots = 1 /\ errors = 0

\* Steps of process 1, of the goroutine of docker.Start, and of sysinit.
InitStep ==
    \/ EnvInit \/ MountOem \/ PrintAndLoadConfig \/ MountBoot \/ B2DEnv
    \/ HypervisorTools \/ Proxy \/ PrepareFS \/ LoadModules \/ SharedRoot \/ B2D
    \/ SaveCmdline \/ LoadRecoveryConsole
    \/ DockerStart \/ LoadBootstrapImages \/ BootstrapServices
    \/ RunCloudInitServices \/ RecoveryServices \/ StopSend \/ StopReceive
    \/ RecoveryReturns \/ MountState \/ MountAgain \/ CloudInit
    \/ CloudInitReturns \/ ReadConfigFiles \/ SwitchRoot \/ RemoveUsr \/ Unlink
    \/ Symlink \/ CopyUsr \/ RenameUsr \/ DeleteRoot \/ Pivot
    \/ WriteConfigFiles \/ WriteDone \/ RunSysInit \/ LaunchDocker
    \/ CreateDaemonConfig \/ SecondPrepare \/ ExecDocker
SysStep ==
    \/ PreloadImages \/ PreloadStamp \/ LoadSystemImages \/ LoadImages \/ StartProject

Next ==
    \/ InitStep \/ StopDaemon \/ LeaveConsole
    \/ SysStep \/ ImageLoaded
    \/ Reboot

\* The scheduler runs every process and goroutine that can run, and a daemon
\* reads what it was given.  Nobody has to leave the recovery console, and the
\* power need not fail.
Fairness ==
    WF_vars(InitStep) /\ WF_vars(StopDaemon) /\ WF_vars(SysStep) /\ WF_vars(ImageLoaded)

Spec == Init /\ [][Next]_vars /\ Fairness

-----------------------------------------------------------------------------
(* Properties                                                                *)

\* After the change of root, /usr is the tree of the version that booted, and
\* complete, whatever earlier boots of any version were cut short at: a tree
\* is incomplete only where rm_usr removed it (copyMoveRoot, cleanupTarget).
UsrWhole ==
    root = "state" /\ should => disk.link = ver /\ disk.usr[ver] \in {"whole", "cut"}

\* What cloud-init wrote in the initramfs of this boot is on the root that
\* sysinit runs on, over what an earlier boot left there, unless reading or
\* writing that file failed (ReadConfigFiles, WriteConfigFiles).
ConfigKept ==
    sysinit # None =>
        \A f \in File \ unsaved :
            ramfs.conf[f] = boots => Here.conf[f] = boots

\* The project starts with the images of its version loaded, over upgrades and
\* boots cut short.  The exceptions are a load that failed, that lost power
\* after the stamp was made, or that went to the daemon of the recovery console
\* (LoadSystemImages, loadImages).
ServicesHaveImages ==
    sysinit = "started" => ver \in Here.images \cup Here.cut

\* An archive that has its stamp, which no later boot looks at again, is loaded,
\* or what became of it is known: System Docker refused it, the daemon of the
\* recovery console has it, or, without preload_wait only, it is being read or
\* was when the power failed (PreloadImages).
DoneIsLoaded ==
    disk.done => disk.preload \/ disk.lost \/ Reading

\* Two daemons never share the socket and the data directory, except that the
\* recovery console's is never stopped (docker.Start, docker.Stop).
OneDaemon ==
    Cardinality(daemons \ {"recovery"}) <= 1

\* Every boot comes to an end: System Docker runs, the user has the recovery
\* console, or init has exited (MainInit, docker.Stop).
BootSettles ==
    pc = "env" ~> pc \in {"up", "console", "dead"}

\* System Docker is not started with an empty configuration file: files that a
\* crash left without contents are deleted first (cleanupFiles).
NoEmptyJson ==
    pc = "exec" => Here.json # "empty"
=============================================================================
