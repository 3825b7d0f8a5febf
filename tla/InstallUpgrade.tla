--------------------------- MODULE InstallUpgrade ---------------------------
(* ros install and ros os upgrade (cmd/control/install.go, os.go and         *)
(* cmd/control/install): a disk is partitioned, formatted, given a boot      *)
(* loader and the files of a version; an upgrade moves the current boot      *)
(* entry to the previous one and copies the new files over the boot          *)
(* directory.  Every command and every file is a step of its own that may    *)
(* fail, and the machine may lose power between any two of them; a file is   *)
(* truncated in one step and complete after another.  No partition has the   *)
(* label RANCHER_BOOT: nothing in the repository makes one.                  *)
EXTENDS Naturals, Sequences

CONSTANTS
    Disks,        \* the disks, in the order in which blkid prints them
    Version,
    Vmlinuz,      \* Vmlinuz[v]: the kernel file of version v
    Parameters,   \* the kernel parameters that may be given with --append
    NoAppend,     \* the empty --append
    Commands,     \* the command lines that are typed
    UpgradeLines, \* the ros os upgrade command lines that are typed
    MaxRuns,      \* bound on the commands
    MaxCrashes,   \* bound on the power failures
    MaxErrors     \* bound on the steps that fail

Disk == {Disks[i] : i \in DOMAIN Disks}
None == "none"
Broken == "broken"      \* a file that was opened for writing and not completed

\* The command lines of install and, without the installer's own fields, of os
\* upgrade.  The name of a partition says which disk it is on.
CommandLines ==
    [type : {"generic", "arm", "amazon-ebs-hvm", "googlecompute", "noformat", "raid",
             "bootstrap", "upgrade"},
     dev : Disk \cup {None}, part : BOOLEAN, ver : Version, app : Parameters,
     conf : BOOLEAN, kexec : BOOLEAN, iso : BOOLEAN, dist : BOOLEAN,
     statedir : BOOLEAN]

ASSUME DiskAssumption ==
    /\ Disks \in Seq(Disk)
    /\ \A i, j \in DOMAIN Disks : Disks[i] = Disks[j] => i = j
ASSUME CommandAssumption ==
    /\ Commands \subseteq {c \in CommandLines : c.part => c.dev \in Disk}
    /\ UpgradeLines \subseteq
          [ver : Version, app : Parameters, kexec : BOOLEAN, console : BOOLEAN]
    /\ NoAppend \in Parameters
    /\ None \notin Version \cup Parameters /\ Broken \notin Version \cup Parameters
ASSUME BoundAssumption == {MaxRuns, MaxCrashes, MaxErrors} \subseteq Nat

VARIABLES
    firmware,  \* "efi" or "bios": whether /sys/firmware/efi exists
    booted,    \* "iso" or the disk the running system was started from
    hostMounts,\* disks with a partition in /proc/mounts
    disk,      \* partition table, boot flag and MBR code of each disk
    fs,        \* file system of each disk's "state" and "esp" partition
    mnt,       \* what is mounted at baseName and at its boot directory
    pc, cmd,   \* the running installer
    file,      \* index of the file installRancher copies
    rebuild,   \* rancher.force_console_rebuild
    runs, crashes, errors,
    \* history
    logged,    \* an error of this run was only logged
    unread,    \* the append file could not be read in this run
    installed, \* disks on which a run without errors was completed
    unkept,    \* disks on which the entry kept as the previous one does not boot
    asked      \* last --append given for a disk, Broken if it was not written

fsVars == <<disk, fs, mnt>>
history == <<logged, unread, installed, unkept, asked>>
machine == <<firmware, booted, hostMounts, rebuild, runs, crashes>>
vars == <<firmware, booted, hostMounts, disk, fs, mnt, pc, cmd, file, rebuild,
          runs, crashes, errors, logged, unread, installed, unkept, asked>>

\* A boot entry, linux-current.cfg or linux-previous.cfg: the version it names
\* and the layout it was written for.  efiCfg turns the ../ of the files in an
\* entry into /, and neither form is found from the other layout's directory.
Layouts == {"efi", "bios"}
NoEntry == <<None, None>>
CutEntry == <<Broken, None>>

\* An empty file system.  cur and prev are its entries; files has the names of
\* the complete kernels, initrds, menus and boot loaders, dirs the layouts whose
\* directory (EFI/BOOT or syslinux) is there.  open is history: the names of
\* files that were complete when they were truncated and are not complete yet.
Format(kind) ==
    [kind |-> kind, cur |-> NoEntry, prev |-> NoEntry, files |-> {}, glob |-> None,
     app |-> NoAppend, dirs |-> {}, seed |-> FALSE, open |-> {}]
NoFs == Format(None)
EmptyDisk == [table |-> None, active |-> FALSE, mbr |-> FALSE]
NoMount == <<None, None>>
NoCmd == [type |-> None]

Part == {"state", "esp"}
Images(v) == {<<"vmlinuz", Vmlinuz[v]>>, <<"initrd", v>>}
Loader(layout) == <<"loader", layout>>
Menu(layout) == <<"syslinux.cfg", layout>>
CurrentCfg == <<"linux-current.cfg", None>>
GlobalCfg == <<"global.cfg", None>>

\* The files at the top of /dist, in the order of ReadDir, and the menu from
\* /dist/isolinux.
Dist == <<"global.cfg", "initrd", "linux-current.cfg", "vmlinuz", "syslinux.cfg">>

-----------------------------------------------------------------------------
(* Looking at the machine                                                    *)

\* util.Blkid: the first partition with the label.
Blkid(part) ==
    LET with == {i \in DOMAIN Disks : fs[Disks[i]][part].kind # None}
    IN  IF with = {} THEN NoMount
        ELSE <<Disks[CHOOSE i \in with : \A j \in with : i <= j], part>>

GetBootPartition == Blkid("esp")
GetStatePartition == Blkid("state")
IsEFIFirmware == firmware = "efi"

\* The file system that holds baseName/boot.
BootFs == IF mnt.boot # NoMount THEN mnt.boot ELSE mnt.base
Boot == fs[BootFs[1]][BootFs[2]]
SetBoot(b) == fs' = [fs EXCEPT ![BootFs[1]][BootFs[2]] = b]
Target == BootFs[1]

isEFILayout == "efi" \in Boot.dirs \/ Blkid("esp") # NoMount

\* The boot partition the firmware starts from, and the entries that can be
\* chosen there: those of the firmware's layout with their files.  global.cfg has
\* the kernel parameters that name the state partition.  linux-current.cfg is
\* included last, and the last DEFAULT wins.
StartPart == IF IsEFIFirmware THEN "esp" ELSE "state"
StartFs(d) == fs[d][StartPart]
Starts(d) ==
    /\ {Loader(firmware), Menu(firmware)} \subseteq StartFs(d).files
    /\ StartFs(d).glob \in Parameters
    /\ ~IsEFIFirmware => disk[d].table = "msdos" /\ disk[d].active /\ disk[d].mbr
Entries(d) ==
    {v \in Version : /\ <<v, firmware>> \in {StartFs(d).cur, StartFs(d).prev}
                     /\ Images(v) \subseteq StartFs(d).files}
Default(d) ==
    IF StartFs(d).cur[1] \in Version THEN StartFs(d).cur ELSE StartFs(d).prev
Bootable(d) == Starts(d) /\ Entries(d) # {}
DefaultBoots(d) ==
    Starts(d) /\ \E v \in Entries(d) : Default(d) = <<v, firmware>>

-----------------------------------------------------------------------------
(* Steps of an installer                                                     *)

Goto(p) == pc' = p
Upgrades == cmd.type = "upgrade"
Formats == cmd.type \in {"generic", "arm", "amazon-ebs-hvm", "googlecompute"}
Generic == cmd.type = "generic"
IgnoresErrors == cmd.type \in {"amazon-ebs-hvm", "googlecompute", "noformat", "raid"}
Efi == IF Generic THEN IsEFIFirmware
       ELSE cmd.type \in {"noformat", "upgrade"} /\ isEFILayout
Layout == IF Efi THEN "efi" ELSE "bios"

\* A step that returns its error, and one whose error is only logged.
Fails ==
    /\ errors < MaxErrors /\ errors' = errors + 1
    /\ Goto("failed")
    /\ UNCHANGED <<machine, fsVars, cmd, file, history>>
Logs(next) ==
    /\ errors < MaxErrors /\ errors' = errors + 1
    /\ logged' = TRUE /\ Goto(next)
    /\ UNCHANGED <<machine, cmd, file, unread, installed, unkept, asked>>
Quiet == UNCHANGED <<machine, cmd, errors, history>>

\* installAction: a device is needed unless the labels may be used, --statedir
\* needs noformat and --partition a machine without UEFI.
Valid(c) ==
    /\ c.type \in {"noformat", "raid", "bootstrap", "upgrade"} \/ c.dev \in Disk
    /\ c.statedir => c.type = "noformat"
    /\ ~(IsEFIFirmware /\ c.part /\ c.type = "generic")

installAction(c) ==
    /\ pc = "idle" /\ runs < MaxRuns /\ Valid(c)
    /\ c.type # "upgrade"
    /\ runs' = runs + 1 /\ cmd' = c /\ logged' = FALSE
    /\ Goto("outer")
    /\ UNCHANGED <<firmware, booted, hostMounts, fsVars, file, rebuild, crashes,
                   errors, unread, installed, unkept, asked>>

\* startUpgradeContainer: the console rebuild is asked for first; the installer
\* then runs as the container of the new image.
startUpgradeContainer(u) ==
    /\ pc = "idle" /\ runs < MaxRuns /\ booted # "iso"
    /\ fs[booted]["state"].glob # None \/ fs[booted]["esp"].glob # None
    /\ runs' = runs + 1 /\ rebuild' = (rebuild \/ u.console)
    /\ \/ /\ cmd' = [type |-> "upgrade", dev |-> None, part |-> FALSE,
                     ver |-> u.ver, app |-> u.app, conf |-> FALSE,
                     kexec |-> u.kexec, iso |-> FALSE, dist |-> TRUE,
                     statedir |-> FALSE]
          /\ Goto("mount")
       \/ UNCHANGED <<cmd, pc>>        \* the answer is no, or pull fails
    /\ logged' = FALSE
    /\ UNCHANGED <<firmware, booted, hostMounts, fsVars, file, crashes, errors,
                   unread, installed, unkept, asked>>

\* runInstall without --isoinstallerloaded: the installer's image is loaded from
\* the boot iso, or pulled when the iso cannot be mounted.
RunOuter ==
    /\ pc = "outer"
    /\ \/ /\ \E loaded \in {booted = "iso", FALSE} :
                 cmd' = [cmd EXCEPT !.iso = loaded]
          /\ Goto(IF Generic /\ ~cmd.part THEN "scan" ELSE "bootiso")
          /\ UNCHANGED <<machine, fsVars, file, errors, history>>
       \/ Fails

\* setDiskpartitions up to dd: a mounted partition ends it.  The mounts of other
\* containers are asked for with a command that prints nothing.
CheckMounts ==
    /\ pc = "scan"
    /\ Goto(IF disk[cmd.dev].table # None /\ cmd.dev \in hostMounts
            THEN "failed" ELSE "dd")
    /\ UNCHANGED <<fsVars, file>> /\ Quiet

\* When partprobe fails after dd the run has failed with an empty disk, as when
\* the next step fails.
ZeroDisk ==
    /\ pc = "dd"
    /\ \/ /\ disk' = [disk EXCEPT ![cmd.dev] = EmptyDisk]
          /\ fs' = [fs EXCEPT ![cmd.dev] = [p \in Part |-> NoFs]]
          /\ installed' = installed \ {cmd.dev}
          /\ unkept' = unkept \ {cmd.dev}
          /\ asked' = [asked EXCEPT ![cmd.dev] = NoAppend]
          /\ Goto("parted")
          /\ UNCHANGED <<machine, mnt, cmd, file, errors, logged, unread>>
       \/ Fails

MakePartitions ==
    /\ pc = "parted"
    /\ \/ /\ disk' = [disk EXCEPT ![cmd.dev].table =
                          IF IsEFIFirmware THEN "gpt" ELSE "msdos"]
          /\ Goto(IF IsEFIFirmware THEN "bootiso" ELSE "setbootable")
          /\ UNCHANGED <<fs, mnt, file>> /\ Quiet
       \/ Fails

setBootable ==
    /\ pc = "setbootable"
    /\ \/ /\ disk' = [disk EXCEPT ![cmd.dev].active = TRUE]
          /\ Goto("bootiso")
          /\ UNCHANGED <<fs, mnt, file>> /\ Quiet
       \/ Fails

\* The inner installer mounts the iso, on which its /dist points; when that
\* fails /dist is empty.
MountBootIso ==
    /\ pc = "bootiso"
    /\ \/ /\ Goto(IF Formats THEN "format" ELSE "mount")
          /\ cmd' = [cmd EXCEPT !.dist = TRUE]
          /\ UNCHANGED <<machine, fsVars, file, errors, history>>
       \/ /\ cmd.iso /\ errors < MaxErrors /\ errors' = errors + 1
          /\ cmd' = [cmd EXCEPT !.dist = FALSE] /\ logged' = TRUE
          /\ Goto(IF Formats THEN "format" ELSE "mount")
          /\ UNCHANGED <<machine, fsVars, file, unread, installed, unkept, asked>>
       \/ cmd.iso /\ Fails

\* The partition is given, or chosen by runInstall for the generic type.
formatdevice ==
    /\ pc = "format"
    /\ \/ /\ Generic \/ cmd.part
          /\ disk[cmd.dev].table # None
          /\ fs' = [fs EXCEPT ![cmd.dev]["state"] = Format("ext4")]
          /\ installed' = installed \ {cmd.dev}
          /\ unkept' = unkept \ {cmd.dev}
          /\ asked' = [asked EXCEPT ![cmd.dev] =
                                IF StartPart = "state" THEN NoAppend ELSE @]
          /\ Goto("mount")
          /\ UNCHANGED <<machine, disk, mnt, cmd, file, errors, logged, unread>>
       \/ /\ ~(Generic \/ cmd.part) \/ disk[cmd.dev].table = None
          /\ Goto("failed") /\ UNCHANGED <<fsVars, file>> /\ Quiet
       \/ Fails

\* Mutant: an upgrade forgets the separate boot partition.
MountDevice_StateOnly ==
    /\ pc = "mount"
    /\ LET d == IF Generic \/ cmd.part THEN <<cmd.dev, "state">> ELSE GetStatePartition
       IN  d # NoMount /\ mnt' = [mnt EXCEPT !.base = d]
    /\ Goto(CASE Generic /\ IsEFIFirmware -> "esp"
              [] cmd.type = "arm" -> "seed"
              [] cmd.type \in {"upgrade", "bootstrap"} -> "append"
              [] OTHER -> "loader")
    /\ UNCHANGED <<disk, fs, file>> /\ Quiet

\* Without a partition the labels decide, the boot partition's first.
MountDevice ==
    /\ pc = "mount"
    /\ LET given == Generic \/ cmd.part
           d == IF given THEN <<cmd.dev, "state">>
                ELSE IF GetBootPartition # NoMount THEN GetBootPartition
                ELSE GetStatePartition
       IN  IF d = NoMount \/ (~given /\ cmd.type = "bootstrap")
              \/ (given /\ fs[d[1]][d[2]].kind = None)
           THEN Goto("failed") /\ UNCHANGED fsVars
           ELSE /\ mnt' = IF ~given /\ GetBootPartition # NoMount
                          THEN [mnt EXCEPT !.boot = d] ELSE [mnt EXCEPT !.base = d]
                /\ Goto(CASE Generic /\ IsEFIFirmware -> "esp"
                          [] cmd.type = "arm" -> "seed"
                          [] cmd.type \in {"upgrade", "bootstrap"} -> "append"
                          [] OTHER -> "loader")
                /\ UNCHANGED <<disk, fs>>
    /\ UNCHANGED file /\ Quiet

MountFails == pc = "mount" /\ Fails

formatAndMountESP ==
    /\ pc = "esp"
    /\ \/ /\ fs' = [fs EXCEPT ![cmd.dev]["esp"] = Format("vfat")]
          /\ mnt' = [mnt EXCEPT !.boot = <<cmd.dev, "esp">>]
          /\ asked' = [asked EXCEPT ![cmd.dev] = NoAppend]
          /\ Goto("loader")
          /\ UNCHANGED <<machine, disk, cmd, file, errors, logged, unread, installed,
                         unkept>>
       \/ Fails

AfterLoader == IF cmd.type = "raid" THEN "append" ELSE "seed"

\* The directory of the layout.  CopyFile leaves a file that is there alone, so a
\* loader that an earlier run was cut short in may stay incomplete for good.
Directory(next) ==
    /\ SetBoot([Boot EXCEPT !.dirs = @ \cup {Layout}])
    /\ next \in {"modules"} \cup
          (IF Layout \in Boot.dirs /\ Loader(Layout) \notin Boot.files
           THEN {AfterLoader} ELSE {})
LoaderFails ==
    \/ ~IgnoresErrors /\ Fails
    \/ IgnoresErrors /\ Logs(AfterLoader) /\ UNCHANGED fsVars

installSyslinuxEFI ==
    /\ pc = "loader" /\ Efi
    /\ \/ \E next \in {"modules", AfterLoader} :
              Directory(next) /\ Goto(next) /\ UNCHANGED <<disk, mnt, file>> /\ Quiet
       \/ LoaderFails

\* The boot flag may fail; MBR code, modules and extlinux may not.
installSyslinux ==
    /\ pc = "loader" /\ ~Efi
    /\ \/ \E next \in {"modules", AfterLoader} :
              /\ Directory(next)
              /\ \/ /\ disk' = [disk EXCEPT ![Target].mbr = TRUE, ![Target].active = TRUE]
                    /\ Goto(next) /\ UNCHANGED <<mnt, file>> /\ Quiet
                 \/ /\ disk' = [disk EXCEPT ![Target].mbr = TRUE]
                    /\ Logs(next) /\ UNCHANGED mnt
       \/ LoaderFails

\* The loader and its modules, and for the BIOS extlinux.
CopyModules ==
    /\ pc = "modules"
    /\ \/ /\ SetBoot([Boot EXCEPT !.files = @ \cup {Loader(Layout)}])
          /\ Goto(AfterLoader) /\ UNCHANGED <<disk, mnt, file>> /\ Quiet
       \/ LoaderFails

\* With a boot partition anywhere the cloud-config goes to the partition
\* GetStatePartition finds, otherwise to baseName.
seedData ==
    /\ pc = "seed"
    /\ LET part == IF GetBootPartition # NoMount THEN GetStatePartition
                   ELSE mnt.base
       IN  \/ /\ part # NoMount
              /\ fs' = [fs EXCEPT ![part[1]][part[2]].seed = @ \/ cmd.conf]
              /\ Goto("append")
              /\ UNCHANGED <<disk, mnt, file>> /\ Quiet
           \/ cmd.type \in {"generic", "noformat"} /\ Fails
           \/ cmd.type \notin {"generic", "noformat"} /\ Logs("append")
              /\ UNCHANGED fsVars

\* layDownOS: without --append the parameters kept in the append file are used;
\* an error in reading it is dropped.
ReadAppend ==
    /\ pc = "append" /\ cmd.app = NoAppend
    /\ \/ /\ cmd' = [cmd EXCEPT !.app = Boot.app] /\ UNCHANGED <<errors, unread>>
       \/ /\ errors < MaxErrors /\ errors' = errors + 1
          /\ unread' = TRUE /\ UNCHANGED cmd
    /\ Goto("rotate")
    /\ UNCHANGED <<machine, fsVars, file, logged, installed, unkept, asked>>

\* --append is kept for the upgrades to come.  The file is truncated and written,
\* and nobody is told when either fails.
Asks(a) ==
    asked' = [asked EXCEPT ![Target] = IF BootFs[2] = StartPart THEN a ELSE @]
OpenAppend ==
    /\ pc = "append" /\ cmd.app # NoAppend
    /\ Asks(Broken)
    /\ \/ SetBoot([Boot EXCEPT !.app = NoAppend]) /\ Goto("keep") /\ UNCHANGED errors
       \/ /\ errors < MaxErrors /\ errors' = errors + 1
          /\ Goto("rotate") /\ UNCHANGED fs
    /\ UNCHANGED <<machine, disk, mnt, cmd, file, logged, unread, installed, unkept>>

\* Mutant: --append is passed on and not kept.
WriteAppend_NotKept ==
    /\ pc = "keep"
    /\ Asks(cmd.app) /\ Goto("rotate")
    /\ UNCHANGED <<machine, fsVars, cmd, file, errors, logged, unread, installed,
                   unkept>>

WriteAppend ==
    /\ pc = "keep"
    /\ \/ /\ SetBoot([Boot EXCEPT !.app = cmd.app]) /\ Asks(cmd.app)
          /\ UNCHANGED errors
       \/ errors < MaxErrors /\ errors' = errors + 1 /\ UNCHANGED <<fs, asked>>
    /\ Goto("rotate")
    /\ UNCHANGED <<machine, disk, mnt, cmd, file, logged, unread, installed, unkept>>

\* installRancher: the entries are moved only when the new one is different, in
\* its version or in its layout.
NewEntry == <<cmd.ver, Layout>>
Different == Boot.cur # IF cmd.dist THEN NewEntry ELSE NoEntry
CurrentBoots ==
    \E v \in Version : Boot.cur = <<v, firmware>> /\ Images(v) \subseteq Boot.files

RemovePrevious ==
    /\ pc = "rotate"
    /\ \/ /\ IF Boot.cur # NoEntry /\ Different
             THEN /\ SetBoot([Boot EXCEPT !.prev = NoEntry])
                  /\ unkept' = IF CurrentBoots THEN unkept ELSE unkept \cup {Target}
                  /\ Goto("rename") /\ UNCHANGED file
             ELSE Goto("copy") /\ file' = 1 /\ UNCHANGED <<fs, unkept>>
          /\ UNCHANGED <<machine, disk, mnt, cmd, errors, logged, unread, installed,
                         asked>>
       \/ Boot.cur # NoEntry /\ Different /\ Boot.prev # NoEntry /\ Fails

\* Mutant: the current entry is overwritten without being kept.
RenameCurrent_NotKept ==
    /\ pc = "rename"
    /\ file' = 1 /\ Goto("copy")
    /\ SetBoot([Boot EXCEPT !.cur = NoEntry, !.open = @ \ {CurrentCfg}])
    /\ UNCHANGED <<disk, mnt>> /\ Quiet

\* Nobody looks at the result of the rename.
RenameCurrent ==
    /\ pc = "rename"
    /\ file' = 1 /\ Goto("copy")
    /\ \/ /\ SetBoot([Boot EXCEPT !.prev = Boot.cur, !.cur = NoEntry,
                                  !.open = @ \ {CurrentCfg}])
          /\ Quiet
       \/ /\ errors < MaxErrors /\ errors' = errors + 1
          /\ unkept' = unkept \cup {Target}
          /\ UNCHANGED <<machine, fs, cmd, logged, unread, installed, asked>>
    /\ UNCHANGED <<disk, mnt>>

Name(i) == CASE Dist[i] = "initrd" -> <<"initrd", cmd.ver>>
             [] Dist[i] = "vmlinuz" -> <<"vmlinuz", Vmlinuz[cmd.ver]>>
             [] Dist[i] = "syslinux.cfg" -> Menu(Layout)
             [] OTHER -> <<Dist[i], None>>
Copying == pc = "copy" /\ cmd.dist /\ file <= Len(Dist)

\* The boot directory with file i truncated, and with it complete: copied as it
\* is or, for the EFI layout, by copyEFICfg.  The menu's directory is made.
Cut(i) ==
    CASE Dist[i] = "global.cfg" -> [Boot EXCEPT !.glob = Broken]
      [] Dist[i] = "linux-current.cfg" ->
            [Boot EXCEPT !.cur = CutEntry,
                         !.open = IF Boot.cur[1] \in Version THEN @ \cup {CurrentCfg} ELSE @]
      [] OTHER -> [Boot EXCEPT !.files = @ \ {Name(i)},
                               !.open = @ \cup ({Name(i)} \cap Boot.files),
                               !.dirs = IF Dist[i] = "syslinux.cfg" THEN @ \cup {Layout} ELSE @]
Whole(i) ==
    CASE Dist[i] = "global.cfg" -> [Boot EXCEPT !.glob = NoAppend]
      [] Dist[i] = "linux-current.cfg" ->
            [Boot EXCEPT !.cur = NewEntry, !.open = @ \ {CurrentCfg}]
      [] OTHER -> [Boot EXCEPT !.files = @ \cup {Name(i)}, !.open = @ \ {Name(i)}]

\* CopyFileOverwrite and copyEFICfg truncate a file before they write it; only
\* global.cfg is left alone when it is there.  Errors are logged.
OpenFile ==
    /\ Copying
    /\ \/ /\ IF Dist[file] = "global.cfg" /\ Boot.glob # None
             THEN file' = file + 1 /\ UNCHANGED <<pc, fs>>
             ELSE SetBoot(Cut(file)) /\ Goto("write") /\ UNCHANGED file
          /\ UNCHANGED <<disk, mnt>> /\ Quiet
       \/ /\ errors < MaxErrors /\ errors' = errors + 1 /\ logged' = TRUE
          /\ file' = file + 1
          /\ UNCHANGED <<machine, fsVars, pc, cmd, unread, installed, unkept, asked>>

WriteFile ==
    /\ pc = "write"
    /\ Goto("copy") /\ file' = file + 1
    /\ \/ SetBoot(Whole(file)) /\ Quiet
       \/ /\ errors < MaxErrors /\ errors' = errors + 1 /\ logged' = TRUE
          /\ UNCHANGED <<machine, fs, cmd, unread, installed, unkept, asked>>
    /\ UNCHANGED <<disk, mnt>>

\* A global.cfg, copied now or found, is truncated and gets the kernel parameters.
OpenGlobal ==
    /\ pc = "copy" /\ ~Copying
    /\ \/ /\ IF Boot.glob = None THEN Goto("ok") /\ UNCHANGED fs
             ELSE /\ SetBoot([Boot EXCEPT !.glob = Broken,
                                 !.open = IF Boot.glob \in Parameters
                                          THEN @ \cup {GlobalCfg} ELSE @])
                  /\ Goto("global")
          /\ UNCHANGED <<disk, mnt, file>> /\ Quiet
       \/ Boot.glob # None /\ Fails

WriteGlobal ==
    /\ pc = "global"
    /\ \/ /\ SetBoot([Boot EXCEPT !.glob = cmd.app, !.open = @ \ {GlobalCfg}])
          /\ Goto("ok")
          /\ UNCHANGED <<disk, mnt, file>> /\ Quiet
       \/ Fails

\* power.Kexec with the entry that was just written; it takes the names of the
\* files from it and looks for them in the boot directory.
Kexec ==
    /\ cmd.kexec /\ pc = "ok"
    /\ Boot.cur[1] \in Version /\ Images(Boot.cur[1]) \subseteq Boot.files
    /\ booted' = Target

\* The deferred unmounts, and what the callers do with the result: install ends
\* on an error and reboots or starts the new kernel otherwise; os upgrade does
\* not look at the container's exit status.
NoMounts == [base |-> NoMount, boot |-> NoMount]
Started(d) == IF DefaultBoots(d) THEN {d} ELSE {"iso"}
Finish ==
    /\ pc \in {"ok", "failed"}
    /\ \/ UNCHANGED booted                                  \* no reboot
       \/ Kexec
       \/ /\ (pc = "ok" /\ ~cmd.kexec) \/ Upgrades
          /\ \E d \in Disk : booted' \in Started(d)
    /\ hostMounts' = IF booted' \in Disk THEN hostMounts \cup {booted'} ELSE hostMounts
    /\ LET done == {d \in Disk : pc = "ok" /\ ~logged /\ Target = d /\ DefaultBoots(d)}
       IN  installed' = installed \cup done /\ unkept' = unkept \ done
    /\ mnt' = NoMounts
    /\ pc' = "idle" /\ cmd' = NoCmd /\ file' = 1 /\ logged' = FALSE /\ unread' = FALSE
    /\ UNCHANGED <<firmware, disk, fs, rebuild, runs, crashes, errors, asked>>

\* A power failure; a disk may be started from its menu, the iso always.
Crash ==
    /\ crashes < MaxCrashes /\ crashes' = crashes + 1
    /\ pc # "idle"
    /\ booted' \in {"iso"} \cup {d \in Disk : Bootable(d)}
    /\ \E auto \in SUBSET {d \in Disk : fs[d]["state"].kind # None} :
           hostMounts' = auto \cup ({booted'} \cap Disk)
    /\ mnt' = NoMounts /\ pc' = "idle" /\ cmd' = NoCmd /\ file' = 1
    /\ logged' = FALSE /\ unread' = FALSE
    /\ UNCHANGED <<firmware, disk, fs, rebuild, runs, errors, installed, unkept, asked>>

Init ==
    /\ firmware \in {"efi", "bios"}
    /\ booted = "iso" /\ hostMounts = {}
    /\ disk = [d \in Disk |-> EmptyDisk]
    /\ fs = [d \in Disk |-> [p \in Part |-> NoFs]]
    /\ mnt = NoMounts
    /\ pc = "idle" /\ cmd = NoCmd /\ file = 1
    /\ rebuild = FALSE
    /\ runs = 0 /\ crashes = 0 /\ errors = 0
    /\ logged = FALSE /\ unread = FALSE /\ installed = {} /\ unkept = {}
    /\ asked = [d \in Disk |-> NoAppend]

Step ==
    \/ RunOuter \/ CheckMounts \/ ZeroDisk \/ MakePartitions \/ setBootable
    \/ MountBootIso \/ formatdevice \/ MountDevice \/ MountFails
    \/ formatAndMountESP \/ installSyslinuxEFI \/ installSyslinux \/ CopyModules
    \/ seedData \/ ReadAppend \/ OpenAppend \/ WriteAppend \/ RemovePrevious
    \/ RenameCurrent \/ OpenFile \/ WriteFile \/ OpenGlobal \/ WriteGlobal \/ Finish

Next ==
    \/ \E c \in Commands : installAction(c)
    \/ \E u \in UpgradeLines : startUpgradeContainer(u)
    \/ Step
    \/ Crash

Spec == Init /\ [][Next]_vars

-----------------------------------------------------------------------------
(* Properties                                                                *)

\* A file that an entry of disk d needs was complete, was truncated by the
\* installer in place, and is not complete again: the menu, global.cfg,
\* linux-current.cfg when the version is installed once more, and a kernel or
\* initrd that the new version shares with an entry.
Overwritten(d) ==
    \/ {Menu(firmware), GlobalCfg, CurrentCfg} \cap StartFs(d).open # {}
    \/ \E v \in Version :
          /\ <<v, firmware>> \in {StartFs(d).cur, StartFs(d).prev}
          /\ ~(Images(v) \subseteq StartFs(d).files)
          /\ Images(v) \subseteq StartFs(d).files \cup StartFs(d).open

\* A disk on which an install was completed always has an entry that boots,
\* whatever fails and wherever the power is lost in later runs: the old entry is
\* kept as linux-previous.cfg before the new files are written.  What can stop it
\* is a file of that entry that was truncated in place and not completed, and
\* nothing else: not a new file that is missing, cut or was never opened.  Left
\* out are the disks whose kept entry was not one that boots, because the run
\* before had been cut short or had written the other layout's, or because the
\* rename failed.
Fallback == \A d \in installed \ unkept : Bootable(d) \/ Overwritten(d)

\* When the installer ends well and has logged no error, the disk it wrote to
\* starts the version it was asked for.
SuccessBoots ==
    pc = "ok" /\ ~logged /\ (Generic \/ (Upgrades /\ Target \in installed)) =>
        /\ Starts(Target) /\ Default(Target) = <<cmd.ver, firmware>>
        /\ cmd.ver \in Entries(Target)

\* Kernel parameters given once with --append are still passed after upgrades
\* that do not repeat them, on the partition the machine starts from: layDownOS
\* keeps them in the append file.  Nobody is told when that file could not be
\* written, was cut short by a power failure, or cannot be read.
AppendKept ==
    /\ pc = "ok" /\ Upgrades /\ Target \in installed
    /\ asked[Target] # Broken /\ ~unread
    => StartFs(Target).glob = asked[Target]
=============================================================================
