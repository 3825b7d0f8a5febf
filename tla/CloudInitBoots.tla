--------------------------- MODULE CloudInitBoots ---------------------------
(* Cloud-init over several boots: init prepares the configuration             *)
(* (pkg/init/cloudinit), cloud-init-save applies the network, selects and     *)
(* saves (CloudInitSelect) and applies the network again (NetworkApply), the  *)
(* files are carried to the state partition (pkg/init/configfiles), the       *)
(* network service applies what is there, and the console and                 *)
(* cloud-init-execute act on it (cmd/cloudinitexecute).  The machine may be   *)
(* rebooted or lose power at any step.                                        *)
EXTENDS Naturals, Sequences, FiniteSets, TLC

CONSTANTS
    Physical, Wireless, Wild, Mac, Lease, Reach, MaxFaults,   \* see NetworkApply
    Key, MaxRetries,                         \* see CloudInitSelect
    Machines,   \* [initrd, names, platform, user]: has an initramfs, the
                \* datasources configured, the hypervisor or cloud it is known
                \* by, the network part of cloud-config.yml
    MaxBoots    \* bound on the boots

ASSUME BoundAssumption == {MaxFaults, MaxRetries, MaxBoots} \subseteq Nat
ASSUME LinkAssumption ==
    /\ {Physical, Wireless} \subseteq Seq(STRING)
    /\ \A i, j \in DOMAIN (Physical \o Wireless) :
           (Physical \o Wireless)[i] = (Physical \o Wireless)[j] => i = j

VARIABLES
    dev, index, mode, gateway, resolv, hostname, step, cfg, listed, todo,
    faults, broken, returned,
    boots, sources, pc, stop, done, timeout, main, chosen, left, tries, kind,
    data, file,
    machine,
    phase,      \* how far the boot is
    early,      \* cloud-config.yml where cloud-init-save runs
    state,      \* the files on the state partition of a machine with initramfs
    mem,        \* ConfigFiles: those still to be written there
    console,    \* console-init: the user whose keys it authorizes, or its step
    keys,       \* keys it still has to authorize for that user
    auth,       \* the authorized keys of each user
    missed,     \* history: a key could not be authorized in this boot
    resize,     \* cloud-init-execute: where applyPreConsole stands
    stamp, resized,
    applied     \* history: generation of what was acted on last

Net == INSTANCE NetworkApply
Sel == INSTANCE CloudInitSelect

netVars == <<dev, index, mode, gateway, resolv, hostname, step, cfg, listed,
             todo, faults, broken, returned>>
selectVars == <<sources, pc, stop, done, timeout, main, chosen, left, tries, kind, data>>
execVars == <<console, keys, auth, missed, resize, stamp, resized, applied>>
bootVars == <<machine, phase, early, state, mem>>
vars == <<netVars, boots, selectVars, file, bootVars, execVars>>

User == {"rancher", "docker"}
None == "none"

ASSUME LeaseAssumption == \A l \in DOMAIN Lease : Lease[l] # None

-----------------------------------------------------------------------------
(* Configuration                                                             *)

\* The files that this boot works on: until WriteConfigFiles those of the
\* initramfs, if there is one.
Root == IF machine.initrd THEN state ELSE file

\* util.Merge on the interfaces of two layers: field by field.
MergeIfaces(upper, lower) ==
    [k \in DOMAIN upper \cup DOMAIN lower |->
       (IF k \in DOMAIN upper THEN upper[k] ELSE <<>>)
       @@ (IF k \in DOMAIN lower THEN lower[k] ELSE <<>>)]

\* LoadConfig: cloud-config.yml over network.yml over boot.yml; a host name of
\* the meta-data is used when none is configured (mergeMetadata).
Field(f, name, default) == IF name \in DOMAIN f THEN f[name] ELSE default
LoadConfig(user, files) ==
    [ifaces |-> MergeIfaces(user.ifaces, Field(files["network"], "ifaces", <<>>)),
     dns |-> user.dns \/ Field(files["network"], "dns", FALSE),
     named |-> \/ user.named \/ Field(files["cloudConfig"], "named", FALSE)
               \/ Field(files["metadata"], "named", FALSE)]

\* mergeMetadata: the keys of the meta-data are added to the configured ones.
SSHAuthorizedKeys(files) ==
    Field(files["cloudConfig"], "keys", {}) \cup Field(files["metadata"], "keys", {})

-----------------------------------------------------------------------------
(* init and cloud-init-save                                                  *)

Goto(p) == phase' = p

\* The datasources configured, and those the platform adds.
Datasources == machine.names \cup ({machine.platform} \cap {"vmware", "exoscale", "proxmox"})

\* CloudInit: without a datasource, or a drive for the only one, there is no
\* cloud-init-save.  The network configuration of the state partition,
\* network.yml of an earlier boot included, is set in the initramfs, except on
\* DigitalOcean.
CloudInit ==
    /\ phase = "boot"
    /\ LET stored == LoadConfig(machine.user, state)
       IN early' = CASE ~machine.initrd -> machine.user
                     [] machine.initrd /\ DOMAIN stored.ifaces # {}
                          /\ Datasources # {"digitalocean"} ->
                          [stored EXCEPT !.named = FALSE]
                     [] OTHER -> [ifaces |-> <<>>, dns |-> FALSE, named |-> FALSE]
    /\ \/ Datasources # {} /\ Goto("before")
       \/ Datasources \in {{}, {"configdrive"}} /\ Goto("read")
    /\ UNCHANGED <<netVars, boots, selectVars, file, machine, state, mem, execVars>>

SelQuiet == UNCHANGED <<dev, index, mode, gateway, resolv, hostname, step, cfg, listed,
                        todo, broken, returned, bootVars, execVars>>

\* saveCloudConfig: the network is applied, a datasource is selected, and the
\* network is applied again with what is known now.
ApplyBefore ==
    /\ phase = "before" /\ Net!StartApply(LoadConfig(early, file)) /\ Goto("select")
    /\ UNCHANGED <<boots, selectVars, file, machine, early, state, mem, execVars>>
StartSelect ==
    /\ phase = "select" /\ step = "applied"
    /\ Sel!StartSelect(Datasources, machine.platform, \E l \in DOMAIN dev : dev[l].lease # None)
    /\ SelQuiet
ApplyAfter ==
    /\ phase = "select" /\ main = "returned"
    /\ IF sources = {} THEN UNCHANGED netVars
       ELSE Net!StartApply(LoadConfig(early, file))
    /\ Goto("read")
    /\ UNCHANGED <<boots, selectVars, file, machine, early, state, mem, execVars>>

\* The container has ended, with its goroutines, dhcpcd and wpa_supplicant; the
\* addresses and leases stay.  ReadConfigFiles takes the files there are, and
\* with the change of root the initramfs is deleted.
ReadConfigFiles ==
    /\ phase = "read" /\ step \in {"idle", "applied"}
    /\ IF machine.initrd THEN mem' = file /\ file' = Sel!NoFiles
                         ELSE UNCHANGED <<mem, file>>
    /\ Goto("write") /\ Sel!SelectGone
    /\ UNCHANGED <<netVars, boots, machine, early, state, execVars>>

\* Mutant: the directory is emptied first.
WriteConfigFiles_Fresh ==
    /\ phase = "write"
    /\ \E f \in Sel!Files :
         /\ mem[f].gen > 0
         /\ state' = [g \in Sel!Files |-> IF g = f THEN mem[f]
                                        ELSE IF state[g].gen = boots THEN state[g]
                                        ELSE Sel!NoFile]
         /\ mem' = [mem EXCEPT ![f] = Sel!NoFile]
    /\ UNCHANGED <<netVars, boots, selectVars, file, machine, phase, early, execVars>>
\* WriteConfigFiles: each file atomically, in the order of a Go map; a file
\* that is not there stays as an earlier boot left it.
WriteConfigFiles ==
    /\ phase = "write"
    /\ \E f \in Sel!Files :
         /\ mem[f].gen > 0
         /\ state' = [state EXCEPT ![f] = mem[f]]
         /\ mem' = [mem EXCEPT ![f] = Sel!NoFile]
    /\ UNCHANGED <<netVars, boots, selectVars, file, machine, phase, early, execVars>>

-----------------------------------------------------------------------------
(* The services                                                              *)

\* The network service; the console and cloud-init-execute are started after it.
NetworkService ==
    /\ phase = "write" /\ mem = Sel!NoFiles
    /\ Net!StartApply(LoadConfig(machine.user, Root))
    /\ applied' = [applied EXCEPT !["network"] = Root["network"].gen]
    /\ Goto("network")
    /\ UNCHANGED <<boots, selectVars, file, machine, early, state, mem,
                   console, keys, auth, missed, resize, stamp, resized>>
StartServices ==
    /\ phase = "network" /\ step = "applied"
    /\ Goto("services")
    /\ console' = "rancher" /\ keys' = SSHAuthorizedKeys(Root)
    /\ resize' = IF Field(Root["metadata"], "rootDisk", FALSE) /\ ~stamp
                   THEN "resize" ELSE "done"
    /\ UNCHANGED <<netVars, boots, selectVars, file, machine, early, state, mem,
                   auth, missed, stamp, resized, applied>>

Quiet == UNCHANGED <<dev, index, mode, gateway, resolv, hostname, step, cfg, listed,
                     todo, broken, returned, boots, selectVars, file, bootVars>>
Fault == faults < MaxFaults /\ faults' = faults + 1
Fine == UNCHANGED faults

\* Mutant: the file is written with the new key only.
AuthorizeSSHKey_Alone(k) ==
    /\ console \in User /\ k \in keys
    /\ auth' = [auth EXCEPT ![console] = {k}] /\ UNCHANGED missed /\ Fine
    /\ keys' = keys \ {k}
    /\ Quiet /\ UNCHANGED <<console, resize, stamp, resized, applied>>
\* authorizeSSHKey: the file is read, the key added unless it is there, and the
\* file replaced; an error is logged and the next key follows.
AuthorizeSSHKey(k) ==
    /\ console \in User /\ k \in keys
    /\ \/ auth' = [auth EXCEPT ![console] = @ \cup {k}] /\ UNCHANGED missed /\ Fine
       \/ Fault /\ missed' = TRUE /\ UNCHANGED auth
    /\ keys' = keys \ {k}
    /\ Quiet /\ UNCHANGED <<console, resize, stamp, resized, applied>>
\* authorizeSSHKeys of one user is done, or cannot find its directory.
NextUser ==
    /\ console \in User
    /\ \/ keys = {} /\ UNCHANGED missed /\ Fine
       \/ keys # {} /\ Fault /\ missed' = TRUE
    /\ IF console = "rancher" THEN console' = "docker" /\ keys' = SSHAuthorizedKeys(Root)
                              ELSE console' = "files" /\ keys' = {}
    /\ Quiet /\ UNCHANGED <<auth, resize, stamp, resized, applied>>
\* WriteFiles, the mounts and the commands of the configuration.
ApplyConsole ==
    /\ console = "files"
    /\ applied' = [applied EXCEPT !["cloudConfig"] = Root["cloudConfig"].gen]
    /\ console' = "script" /\ Fine
    /\ Quiet /\ UNCHANGED <<keys, auth, missed, resize, stamp, resized>>
\* console-init runs the script there is.
RunScript ==
    /\ console = "script"
    /\ applied' = [applied EXCEPT !["script"] = Root["script"].gen]
    /\ console' = "done" /\ Fine
    /\ Quiet /\ UNCHANGED <<keys, auth, missed, resize, stamp, resized>>

\* applyPreConsole: growpart, partprobe and resize2fs; the stamp when they did
\* not fail.  Then sysctl, and services that are to be restarted.
ResizeDevice ==
    /\ resize = "resize"
    /\ \/ resized' = TRUE /\ resize' = "stamp" /\ Fine
       \/ Fault /\ resize' = "done" /\ UNCHANGED resized
    /\ Quiet /\ UNCHANGED <<console, keys, auth, missed, stamp, applied>>
ResizeStamp ==
    /\ resize = "stamp"
    /\ stamp' = TRUE /\ resize' = "done" /\ Fine
    /\ Quiet /\ UNCHANGED <<console, keys, auth, missed, resized, applied>>

-----------------------------------------------------------------------------
(* The machine                                                               *)

NoUser == [ifaces |-> <<>>, dns |-> FALSE, named |-> FALSE]

Init ==
    /\ Net!NetInit /\ Sel!SelectInit
    /\ boots = 1 /\ file = Sel!NoFiles /\ state = Sel!NoFiles /\ mem = Sel!NoFiles
    /\ machine \in Machines /\ phase = "boot" /\ early = NoUser
    /\ console = "none" /\ keys = {} /\ auth = [u \in User |-> {}] /\ missed = FALSE
    /\ resize = "none" /\ stamp = FALSE /\ resized = FALSE
    /\ applied = [f \in {"network", "cloudConfig", "script"} |-> 0]

\* A reboot when everything is done, or a power failure, whatever is going on.
Reboot ==
    /\ boots < MaxBoots /\ boots' = boots + 1
    /\ IF console = "done" /\ resize = "done" THEN Fine ELSE Fault
    /\ phase' = "boot" /\ early' = NoUser /\ mem' = Sel!NoFiles
    /\ file' = IF machine.initrd THEN Sel!NoFiles ELSE file
    /\ console' = "none" /\ keys' = {} /\ missed' = FALSE /\ resize' = "none"
    /\ Net!FreshKernel /\ Sel!SelectGone
    /\ UNCHANGED <<machine, state, auth, stamp, resized, applied>>

NetStep == Net!ApplyStep /\ UNCHANGED <<boots, selectVars, file, bootVars, execVars>>
SelStep == Sel!SelectStep /\ SelQuiet
BootStep ==
    \/ CloudInit \/ ApplyBefore \/ StartSelect \/ ApplyAfter \/ ReadConfigFiles
    \/ WriteConfigFiles \/ NetworkService \/ StartServices
ConsoleStep == (\E k \in Key : AuthorizeSSHKey(k)) \/ NextUser \/ ApplyConsole \/ RunScript
ExecuteStep == ResizeDevice \/ ResizeStamp

Next == NetStep \/ SelStep \/ BootStep \/ ConsoleStep \/ ExecuteStep \/ Reboot
Spec == Init /\ [][Next]_vars

\* init, netconf and cloud-init-save run, and time passes.  Nothing is assumed of
\* the datasources' goroutines: a source may hang.  The power need not fail.
FairSpec ==
    /\ Spec
    /\ WF_vars(NetStep) /\ WF_vars(BootStep)
    /\ WF_vars(Sel!AllEnded /\ SelQuiet) /\ WF_vars(Sel!Timeout /\ SelQuiet)
    /\ WF_vars(Sel!Main /\ SelQuiet)

-----------------------------------------------------------------------------
(* Properties                                                                *)

NoneOnlyIfNone == Sel!NoneOnlyIfNone
UserDataFirst == Sel!UserDataFirst
Converges == Net!Converges
GatewayReplaced == Net!GatewayReplaced

\* When console-init is done, every key of the configuration it acts on is
\* authorized for both users, unless a call failed; and no key that was authorized,
\* for the other user or in an earlier boot, is ever lost (authorizeSSHKeys,
\* mergeMetadata).
KeysComplete ==
    console = "done" /\ ~missed => \A u \in User : SSHAuthorizedKeys(Root) \subseteq auth[u]
KeysAuthorized ==
    []KeysComplete /\ [][\A u \in User : auth[u] \subseteq auth'[u]]_auth

\* What the services act on is never older than what they acted on in an
\* earlier boot, though only some files are new in a boot and some may be
\* carried over before the power fails (saveFiles, WriteConfigFiles).
NeverOlder ==
    [][\A f \in DOMAIN applied : applied'[f] >= applied[f]]_applied

\* cloud-init-save does not keep a boot from going on: the datasources and the
\* fetch come to an end (selectDatasource, GetRetry).
SaveEnds == phase = "select" ~> phase # "select"
=============================================================================
