------------------------ MODULE InstallUpgradeProofs ------------------------
(***************************************************************************)
(* What the installer leaves on a disk, for any number of disks, versions, *)
(* runs, steps that fail and power failures.  In IInv, Grounds is about    *)
(* the disks, whoever works on them; Position says where the installer is, *)
(* and Falling, Succeeding and Appending what it has done there, one for   *)
(* each property.                                                          *)
(***************************************************************************)
EXTENDS InstallUpgrade, WellFoundedInduction, TLAPS

\* Where the installer is: before a partition is mounted, and after.
Opening == {"outer", "scan", "dd", "parted", "setbootable", "bootiso"}
Laying == {"rotate", "rename", "copy", "write", "global", "ok"}
Mounted == {"loader", "modules", "seed", "append", "keep"} \cup Laying
Place == (Disk \X Part) \cup {NoMount}

ImageName == UNION {Images(v) : v \in Version}
LayoutName == {"loader", "syslinux.cfg"} \X Layouts
FileName == ImageName \cup LayoutName
Entry == (Version \cup {None, Broken}) \X (Layouts \cup {None})
FileSystem ==
    [kind : {None, "ext4", "vfat"}, cur : Entry, prev : Entry, files : SUBSET FileName,
     glob : Parameters \cup {None, Broken}, app : Parameters, dirs : SUBSET Layouts,
     seed : BOOLEAN, open : SUBSET (FileName \cup {CurrentCfg, GlobalCfg})]
Head512 == [table : {None, "gpt", "msdos"}, active : BOOLEAN, mbr : BOOLEAN]

TypeOK ==
    /\ firmware \in Layouts
    /\ disk \in [Disk -> Head512]
    /\ fs \in [Disk -> [Part -> FileSystem]]
    /\ mnt \in [base : Place, boot : Place]
    /\ pc \in {"idle", "format", "mount", "esp", "failed"} \cup Opening \cup Mounted
    /\ pc # "idle" => cmd \in CommandLines
    /\ file \in 1..6 /\ logged \in BOOLEAN /\ unread \in BOOLEAN
    /\ installed \subseteq Disk
    /\ asked \in [Disk -> Parameters \cup {Broken}]

\* A boot directory whose loader is complete, and whose menu and global.cfg are or
\* were when they were truncated in place; an entry e whose files are or were; and
\* a boot directory with such an entry.
Sound(w, b) ==
    /\ Loader(w) \in b.files
    /\ Menu(w) \in b.files \cup b.open
    /\ b.glob \in Parameters \/ GlobalCfg \in b.open
Holds(w, b, e) == \E v \in Version : e = <<v, w>> /\ Images(v) \subseteq b.files \cup b.open
Standing(w, b) == CurrentCfg \in b.open \/ Holds(w, b, b.cur) \/ Holds(w, b, b.prev)

\* The disks: one that was installed is sound and has an entry; the append files
\* have what was asked for; linux-current.cfg is not whole while it is truncated;
\* and a machine without UEFI never gets an ESP or the EFI layout.
Ready(d) == ~IsEFIFirmware => disk[d].table = "msdos" /\ disk[d].active /\ disk[d].mbr
NoEsp ==
    ~IsEFIFirmware => \A d \in Disk : /\ fs[d]["esp"].kind = None /\ disk[d].table # "gpt"
                                     /\ \A p \in Part : "efi" \notin fs[d][p].dirs
Kinds ==
    \A d \in Disk, p \in Part :
        /\ fs[d][p].kind = None => fs[d][p].files = {}
        /\ CurrentCfg \in fs[d][p].open => fs[d][p].cur = CutEntry
        /\ GlobalCfg \in fs[d][p].open => fs[d][p].glob # None
AllSound == \A d \in installed : Sound(firmware, StartFs(d)) /\ Ready(d)
AllStanding == \A d \in installed \ unkept : Standing(firmware, StartFs(d))
Asked == \A d \in Disk : asked[d] # Broken => fs[d][StartPart].app = asked[d]
Grounds == NoEsp /\ Kinds /\ AllSound /\ AllStanding /\ Asked

\* Where the installer works.
Position ==
    /\ pc # "idle" =>
          /\ Formats \/ cmd.part => cmd.dev \in Disk
          /\ pc = "format" => Formats
          /\ pc \in {"scan", "dd", "parted", "setbootable", "esp"} => Generic
          /\ pc = "esp" => IsEFIFirmware
          /\ Upgrades => ~cmd.part /\ cmd.dist /\ pc \notin Opening
          /\ ~logged /\ pc \in {"format", "mount", "esp"} \cup Mounted => cmd.dist
          /\ pc = "write" => cmd.dist /\ file <= 5
    /\ pc \in {"idle", "format", "mount"} \cup Opening => mnt = NoMounts
    /\ pc \in Mounted => BootFs \in Disk \X Part /\ Boot.kind # None
    /\ pc \in Mounted /\ Generic => BootFs = <<cmd.dev, StartPart>>
    /\ pc \in Mounted /\ Upgrades /\ Target \in installed => BootFs[2] = StartPart

\* An entry is left until another one is: the previous one, or the one that is
\* being written once more.
Held == Holds(firmware, Boot, Boot.prev) \/ Holds(firmware, Boot, NewEntry)
Falling ==
    /\ pc \in {"parted", "setbootable", "esp"} => cmd.dev \notin installed
    /\ pc = "mount" /\ Generic => cmd.dev \notin installed
    /\ pc = "rename" => Target \in unkept \/ CurrentBoots
    /\ /\ pc \in {"copy", "write"} /\ cmd.dist /\ BootFs[2] = StartPart
       /\ Target \in installed \ unkept
       => Held

\* Each file that was copied without an error is whole.
Loaded(d) == Loader(firmware) \in StartFs(d).files /\ Ready(d)
Copied(b, n) ==
    /\ n > 1 => b.glob # None
    /\ n > 2 => <<"initrd", cmd.ver>> \in b.files
    /\ n > 3 => b.cur = NewEntry
    /\ n > 4 => <<"vmlinuz", Vmlinuz[cmd.ver]>> \in b.files
    /\ n > 5 => Menu(Layout) \in b.files
Succeeding ==
    /\ pc = "mount" /\ Generic => fs[cmd.dev]["state"].dirs = {}
    /\ pc \in {"mount", "esp", "loader"} /\ Generic => disk[cmd.dev].table # None
    /\ pc = "loader" /\ Generic => Boot.dirs = {}
    /\ pc = "modules" /\ Generic /\ ~logged => Ready(cmd.dev)
    /\ pc \in Mounted \ {"loader", "modules"} /\ Generic /\ ~logged => Loaded(cmd.dev)
    /\ pc \in {"copy", "write"} /\ ~logged => Copied(Boot, file)
    /\ pc \in {"global", "ok"} /\ ~logged => Copied(Boot, 6)

\* The command that runs has the parameters of the append file.
Appending ==
    /\ pc = "keep" /\ BootFs[2] = StartPart => asked[Target] = Broken
    /\ /\ pc \in Laying /\ BootFs[2] = StartPart /\ asked[Target] # Broken /\ ~unread
       => cmd.app = asked[Target]
    /\ pc = "ok" => Boot.glob \in {None, cmd.app}

IInv == TypeOK /\ Grounds /\ Position /\ Falling /\ Succeeding /\ Appending

-----------------------------------------------------------------------------
(* Disks, partitions and commands.                                         *)

\* Blkid finds a partition with the label if there is one.
LEMMA BlkidFinds ==
  ASSUME TypeOK, NEW p \in Part
  PROVE  \/ Blkid(p) = NoMount /\ \A d \in Disk : fs[d][p].kind = None
         \/ \E d \in Disk : Blkid(p) = <<d, p>> /\ fs[d][p].kind # None
<1> DEFINE with == {i \in DOMAIN Disks : fs[Disks[i]][p].kind # None}
           first == CHOOSE i \in with : \A j \in with : i <= j
<1>1. DOMAIN Disks \subseteq Nat
  BY DiskAssumption
<1>2. CASE with = {}
  <2>1. Blkid(p) = NoMount
    BY <1>2 DEF Blkid
  <2> QED
    BY <1>2, <2>1 DEF Disk
<1>3. CASE with # {}
  <2>1. with \subseteq Nat
    BY <1>1
  <2>2. PICK i \in with : \A j \in with : ~(<<j, i>> \in OpToRel(<, Nat))
    BY <1>3, <2>1, NatLessThanWellFounded, WFMin
  <2>3. \A j \in with : i <= j
    <3> SUFFICES ASSUME NEW j \in with PROVE i <= j
      OBVIOUS
    <3>1. i \in Nat /\ j \in Nat
      BY <2>1
    <3>2. <<j, i>> \notin OpToRel(<, Nat)
      BY <2>2
    <3>3. ~(j < i)
      BY <3>1, <3>2 DEF OpToRel
    <3> QED
      BY <3>1, <3>3
  <2>4. first \in with
    BY <2>3
  <2>5. Blkid(p) = <<Disks[first], p>>
    BY <1>3 DEF Blkid
  <2>6. Disks[first] \in Disk /\ fs[Disks[first]][p].kind # None
    BY <2>4 DEF Disk
  <2> QED
    BY <2>5, <2>6
<1> QED
  BY <1>2, <1>3

\* Nothing that the disks are judged by has changed.
LEMMA GroundsKept ==
  ASSUME Grounds, UNCHANGED <<firmware, fs, disk, installed, asked>>, unkept \subseteq unkept'
  PROVE  Grounds'
<1>1. NoEsp' /\ Kinds' /\ Asked'
  BY DEF Grounds, NoEsp, Kinds, Asked, IsEFIFirmware, StartPart
<1>2. AllSound' /\ AllStanding'
  BY DEF Grounds, AllSound, AllStanding, Ready, IsEFIFirmware, StartFs, StartPart
<1> QED
  BY <1>1, <1>2 DEF Grounds

\* Where the boot directory is, and what is in it.
LEMMA BootKept ==
  ASSUME UNCHANGED mnt
  PROVE  /\ BootFs' = BootFs /\ Target' = Target
         /\ UNCHANGED fs => Boot' = Boot
BY DEF BootFs, Target, Boot

\* What an installer that has not mounted anything has to see to.
LEMMA BeforeMount ==
  ASSUME pc' \in {"format", "mount", "failed"} \cup Opening,
         mnt' = NoMounts \/ pc' = "failed",
         (Formats \/ cmd.part => cmd.dev \in Disk)',
         (pc = "format" => Formats)',
         (pc \in {"scan", "dd", "parted", "setbootable"} => Generic)',
         (Upgrades => ~cmd.part /\ cmd.dist /\ pc \notin Opening)',
         (~logged /\ pc \in {"format", "mount"} => cmd.dist)',
         (pc \in {"parted", "setbootable"} => cmd.dev \notin installed)',
         (pc = "mount" /\ Generic =>
            /\ cmd.dev \notin installed /\ disk[cmd.dev].table # None
            /\ fs[cmd.dev]["state"].dirs = {})'
  PROVE  Position' /\ Falling' /\ Succeeding' /\ Appending'
BY DEF Position, Falling, Succeeding, Appending, Opening, Mounted, Laying

\* A step that fails leaves everything where it is.
LEMMA FailsInv == IInv /\ pc # "idle" /\ Fails => IInv'
<1> SUFFICES ASSUME IInv, pc # "idle", Fails PROVE IInv'
  OBVIOUS
<1>1. /\ pc' = "failed"
      /\ UNCHANGED <<firmware, fs, disk, mnt, cmd, file, logged, unread, installed, unkept, asked>>
  BY DEF Fails, Goto, machine, fsVars, history
<1>2. TypeOK'
  BY <1>1 DEF IInv, TypeOK
<1>3. Grounds'
  BY <1>1, GroundsKept DEF IInv
<1>4. Position' /\ Falling' /\ Succeeding' /\ Appending'
  BY <1>1, BeforeMount DEF IInv, Position, Formats, Generic, Upgrades, Opening
<1> QED
  BY <1>2, <1>3, <1>4 DEF IInv
-----------------------------------------------------------------------------
(* Before a partition is mounted.                                          *)

\* ros install is started.
LEMMA InstallActionInv == ASSUME IInv, NEW c \in Commands, installAction(c) PROVE IInv'
<1>1. /\ pc = "idle" /\ pc' = "outer" /\ cmd' = c /\ logged' = FALSE /\ Valid(c) /\ c.type # "upgrade"
      /\ UNCHANGED <<firmware, fs, disk, mnt, file, unread, installed, unkept, asked>>
  BY DEF installAction, Goto, fsVars
<1>2. c \in CommandLines /\ (c.part => c.dev \in Disk)
  BY CommandAssumption
<1>3. TypeOK'
  BY <1>1, <1>2 DEF IInv, TypeOK, Opening
<1>4. Grounds'
  BY <1>1, GroundsKept DEF IInv
<1>5. c.type \in {"generic", "arm", "amazon-ebs-hvm", "googlecompute"} => c.dev \in Disk
  BY <1>1 DEF Valid
<1>6. mnt' = NoMounts
  BY <1>1 DEF IInv, Position
<1>7. Position' /\ Falling' /\ Succeeding' /\ Appending'
  BY <1>1, <1>2, <1>5, <1>6, BeforeMount DEF Formats, Generic, Upgrades, Opening
<1> QED
  BY <1>3, <1>4, <1>7 DEF IInv

\* An upgrade is started on a disk that has a boot directory.
LEMMA StartUpgradeInv ==
  ASSUME IInv, NEW u \in UpgradeLines, startUpgradeContainer(u) PROVE IInv'
<1>1. /\ pc = "idle" /\ logged' = FALSE
      /\ UNCHANGED <<firmware, fs, disk, mnt, file, unread, installed, unkept, asked>>
  BY DEF startUpgradeContainer, fsVars
<1>2. u \in [ver : Version, app : Parameters, kexec : BOOLEAN, console : BOOLEAN]
  BY CommandAssumption
<1>3. Grounds'
  BY <1>1, GroundsKept DEF IInv
<1>4. CASE /\ cmd' = [type |-> "upgrade", dev |-> None, part |-> FALSE,
                      ver |-> u.ver, app |-> u.app, conf |-> FALSE,
                      kexec |-> u.kexec, iso |-> FALSE, dist |-> TRUE,
                      statedir |-> FALSE]
           /\ pc' = "mount"
  <2>1. cmd' \in CommandLines /\ cmd'.type = "upgrade" /\ ~cmd'.part /\ cmd'.dist
    BY <1>2, <1>4 DEF CommandLines
  <2>2. TypeOK'
    BY <1>1, <1>4, <2>1 DEF IInv, TypeOK
  <2>3. mnt' = NoMounts
    BY <1>1 DEF IInv, Position
  <2>4. Position' /\ Falling' /\ Succeeding' /\ Appending'
    BY <1>4, <2>1, <2>3, BeforeMount DEF Formats, Generic, Upgrades, Opening
  <2> QED
    BY <1>3, <2>2, <2>4 DEF IInv
<1>5. CASE UNCHANGED <<cmd, pc>>
  <2>1. TypeOK'
    BY <1>1, <1>5 DEF IInv, TypeOK
  <2>2. Position' /\ Falling' /\ Succeeding' /\ Appending'
    BY <1>1, <1>5 DEF IInv, Position, Falling, Succeeding, Appending, Mounted, Laying
  <2> QED
    BY <1>3, <2>1, <2>2 DEF IInv
<1> QED
  BY <1>4, <1>5 DEF startUpgradeContainer, Goto

\* The installer's container is started.
LEMMA RunOuterInv == IInv /\ RunOuter => IInv'
<1> SUFFICES ASSUME IInv, RunOuter PROVE IInv'
  OBVIOUS
<1>0. pc = "outer"
  BY DEF RunOuter
<1>1. CASE Fails
  BY <1>0, <1>1, FailsInv
<1>2. CASE ~Fails
  <2>1. /\ \E loaded \in {booted = "iso", FALSE} : cmd' = [cmd EXCEPT !.iso = loaded]
        /\ pc' = IF Generic /\ ~cmd.part THEN "scan" ELSE "bootiso"
        /\ UNCHANGED <<firmware, fs, disk, mnt, file, logged, unread, installed, unkept, asked>>
    BY <1>2 DEF RunOuter, Goto, machine, fsVars, history
  <2>2. cmd \in CommandLines
    BY <1>0 DEF IInv, TypeOK
  <2>3. cmd' \in CommandLines
    BY <2>1, <2>2 DEF CommandLines
  <2>4. cmd'.type = cmd.type /\ cmd'.part = cmd.part /\ cmd'.dev = cmd.dev /\ cmd'.dist = cmd.dist
    BY <2>1, <2>2 DEF CommandLines
  <2>5. TypeOK'
    BY <2>1, <2>3 DEF IInv, TypeOK, Opening
  <2>6. Grounds'
    BY <2>1, GroundsKept DEF IInv
  <2>7. mnt' = NoMounts
    BY <1>0, <2>1 DEF IInv, Position, Opening
  <2>8. ~Upgrades /\ (Formats \/ cmd.part => cmd.dev \in Disk)
    BY <1>0 DEF IInv, Position, Opening
  <2>9. Position' /\ Falling' /\ Succeeding' /\ Appending'
    BY <2>1, <2>4, <2>7, <2>8, BeforeMount DEF Formats, Generic, Upgrades, Opening
  <2> QED
    BY <2>5, <2>6, <2>9 DEF IInv
<1> QED
  BY <1>1, <1>2

\* A mounted disk is left alone.
LEMMA CheckMountsInv == IInv /\ CheckMounts => IInv'
<1> SUFFICES ASSUME IInv, CheckMounts PROVE IInv'
  OBVIOUS
<1>1. /\ pc = "scan" /\ pc' \in {"failed", "dd"}
      /\ UNCHANGED <<firmware, fs, disk, mnt, cmd, file, logged, unread, installed, unkept, asked>>
  BY DEF CheckMounts, Goto, Quiet, machine, fsVars, history
<1>2. TypeOK'
  BY <1>1 DEF IInv, TypeOK, Opening
<1>3. Grounds'
  BY <1>1, GroundsKept DEF IInv
<1>4. mnt' = NoMounts
  BY <1>1 DEF IInv, Position, Opening
<1>5. Position' /\ Falling' /\ Succeeding' /\ Appending'
  BY <1>1, <1>4, BeforeMount DEF IInv, Position, Formats, Generic, Upgrades, Opening
<1> QED
  BY <1>2, <1>3, <1>5 DEF IInv

\* The disks but one, and that one has no longer been installed.
LEMMA OneDiskNew ==
  ASSUME TypeOK, Grounds, NEW e \in Disk, UNCHANGED firmware, e \notin installed',
         installed' \subseteq installed, unkept \ {e} \subseteq unkept',
         \A d \in Disk : d # e => fs'[d] = fs[d] /\ disk'[d] = disk[d] /\ asked'[d] = asked[d],
         ~IsEFIFirmware => fs'[e]["esp"].kind = None /\ disk'[e].table # "gpt",
         \A p \in Part : /\ fs'[e][p].kind = None => fs'[e][p].files = {}
                         /\ CurrentCfg \in fs'[e][p].open => fs'[e][p].cur = CutEntry
                         /\ GlobalCfg \in fs'[e][p].open => fs'[e][p].glob # None
                         /\ ~IsEFIFirmware => "efi" \notin fs'[e][p].dirs,
         asked'[e] # Broken => fs'[e][StartPart].app = asked'[e]
  PROVE  Grounds'
<1>1. StartPart' = StartPart /\ IsEFIFirmware' = IsEFIFirmware
  BY DEF StartPart, IsEFIFirmware
<1>2. NoEsp'
  BY <1>1 DEF Grounds, NoEsp
<1>3. Kinds'
  BY DEF Grounds, Kinds
<1>4. Asked'
  BY <1>1 DEF Grounds, Asked
<1>5. \A d \in installed' : d # e /\ d \in Disk /\ d \in installed
  BY DEF TypeOK
<1>6. \A d \in installed' : StartFs(d)' = StartFs(d) /\ disk'[d] = disk[d]
  BY <1>1, <1>5 DEF StartFs
<1>7. AllSound'
  BY <1>1, <1>5, <1>6 DEF Grounds, AllSound, Ready
<1>8. AllStanding'
  BY <1>5, <1>6 DEF Grounds, AllStanding
<1> QED
  BY <1>2, <1>3, <1>4, <1>7, <1>8 DEF Grounds

\* The names of the files of a boot directory.
LEMMA Names ==
  ASSUME NEW l \in Layouts
  PROVE  /\ Loader(l) \in FileName /\ Menu(l) \in FileName
         /\ \A v \in Version : Images(v) \subseteq FileName
<1>1. Loader(l) \in LayoutName /\ Menu(l) \in LayoutName
  BY DEF Loader, Menu, LayoutName
<1>2. \A v \in Version : Images(v) \subseteq ImageName
  BY DEF ImageName
<1> QED
  BY <1>1, <1>2 DEF FileName

\* An empty file system.
LEMMA NewFs ==
  ASSUME NEW k \in {None, "ext4", "vfat"}
  PROVE  /\ Format(k) \in FileSystem /\ Format(k).kind = k /\ Format(k).app = NoAppend
         /\ Format(k).files = {} /\ Format(k).open = {} /\ Format(k).dirs = {}
         /\ Format(k).cur = NoEntry
<1>1. NoEntry \in Entry
  BY DEF NoEntry, Entry
<1> QED
  BY <1>1, CommandAssumption DEF Format, FileSystem

\* The disk is zeroed.
LEMMA ZeroDiskInv == IInv /\ ZeroDisk => IInv'
<1> SUFFICES ASSUME IInv, ZeroDisk PROVE IInv'
  OBVIOUS
<1>0. pc = "dd" /\ cmd.dev \in Disk /\ Generic /\ mnt = NoMounts
  BY DEF ZeroDisk, IInv, Position, Opening, Formats, Generic
<1>1. CASE Fails
  BY <1>0, <1>1, FailsInv
<1>2. CASE ~Fails
  <2>1. /\ disk' = [disk EXCEPT ![cmd.dev] = EmptyDisk]
        /\ fs' = [fs EXCEPT ![cmd.dev] = [p \in Part |-> NoFs]]
        /\ installed' = installed \ {cmd.dev} /\ unkept' = unkept \ {cmd.dev}
        /\ asked' = [asked EXCEPT ![cmd.dev] = NoAppend]
        /\ pc' = "parted" /\ UNCHANGED <<firmware, mnt, cmd, file, logged, unread>>
    BY <1>2 DEF ZeroDisk, Goto, machine
  <2>2. NoFs \in FileSystem /\ NoFs.kind = None /\ NoFs.app = NoAppend
        /\ NoFs.files = {} /\ NoFs.open = {} /\ NoFs.dirs = {}
    BY NewFs DEF NoFs
  <2>3. EmptyDisk \in Head512 /\ EmptyDisk.table = None
    BY DEF EmptyDisk, Head512, None
  <2>4. fs \in [Disk -> [Part -> FileSystem]] /\ disk \in [Disk -> Head512]
        /\ asked \in [Disk -> Parameters \cup {Broken}]
    BY DEF IInv, TypeOK
  <2>5. fs' \in [Disk -> [Part -> FileSystem]] /\ fs'[cmd.dev] = [p \in Part |-> NoFs]
        /\ \A d \in Disk : d # cmd.dev => fs'[d] = fs[d]
    BY <1>0, <2>1, <2>2, <2>4
  <2>6. disk' \in [Disk -> Head512] /\ disk'[cmd.dev] = EmptyDisk
        /\ \A d \in Disk : d # cmd.dev => disk'[d] = disk[d]
    BY <1>0, <2>1, <2>3, <2>4
  <2>7. asked' \in [Disk -> Parameters \cup {Broken}] /\ asked'[cmd.dev] = NoAppend
        /\ \A d \in Disk : d # cmd.dev => asked'[d] = asked[d]
    BY <1>0, <2>1, <2>4, CommandAssumption
  <2>8. TypeOK'
    BY <1>0, <2>1, <2>5, <2>6, <2>7 DEF IInv, TypeOK, Opening
  <2>9. \A p \in Part : fs'[cmd.dev][p] = NoFs
    BY <2>5
  <2>10. Grounds'
    <3>1. fs'[cmd.dev]["esp"].kind = None /\ disk'[cmd.dev].table # "gpt"
      BY <2>2, <2>3, <2>6, <2>9 DEF Part, None
    <3>2. \A p \in Part : /\ fs'[cmd.dev][p].files = {} /\ fs'[cmd.dev][p].open = {}
                          /\ fs'[cmd.dev][p].dirs = {} /\ fs'[cmd.dev][p].app = NoAppend
      BY <2>2, <2>9
    <3>3. fs'[cmd.dev][StartPart].app = asked'[cmd.dev]
      BY <2>7, <3>2 DEF StartPart, Part
    <3> QED
      BY <1>0, <2>1, <2>5, <2>6, <2>7, <3>1, <3>2, <3>3, OneDiskNew DEF IInv
  <2>11. Position' /\ Falling' /\ Succeeding' /\ Appending'
    BY <1>0, <2>1, BeforeMount DEF IInv, Position, Formats, Generic, Upgrades, Opening
  <2> QED
    BY <2>8, <2>10, <2>11 DEF IInv
<1> QED
  BY <1>1, <1>2

\* The table, and the flag that a BIOS looks for.
LEMMA TableInv == IInv /\ (MakePartitions \/ setBootable) => IInv'
<1> SUFFICES ASSUME IInv, MakePartitions \/ setBootable PROVE IInv'
  OBVIOUS
<1>0. pc \in {"parted", "setbootable"} /\ cmd.dev \in Disk /\ Generic /\ cmd.dev \notin installed
      /\ mnt = NoMounts
  BY DEF MakePartitions, setBootable, IInv, Position, Opening, Falling, Formats, Generic
<1>1. CASE Fails
  BY <1>0, <1>1, FailsInv
<1>2. CASE ~Fails
  <2>1. /\ UNCHANGED <<firmware, fs, mnt, cmd, file, logged, unread, installed, unkept, asked>>
        /\ pc' \in {"bootiso", "setbootable"}
    BY <1>2 DEF MakePartitions, setBootable, Goto, Quiet, machine, history
  <2>d. \/ disk' = [disk EXCEPT ![cmd.dev].table = IF IsEFIFirmware THEN "gpt" ELSE "msdos"]
        \/ disk' = [disk EXCEPT ![cmd.dev].active = TRUE]
    BY <1>2 DEF MakePartitions, setBootable
  <2>2. disk \in [Disk -> Head512] /\ (~IsEFIFirmware => disk[cmd.dev].table # "gpt")
    BY <1>0 DEF IInv, TypeOK, Grounds, NoEsp
  <2>3. disk' \in [Disk -> Head512] /\ (~IsEFIFirmware => disk'[cmd.dev].table # "gpt")
    <3>1. CASE disk' = [disk EXCEPT ![cmd.dev].active = TRUE]
      BY <1>0, <2>2, <3>1 DEF Head512
    <3>2. CASE disk' = [disk EXCEPT ![cmd.dev].table = IF IsEFIFirmware THEN "gpt" ELSE "msdos"]
      BY <1>0, <2>2, <3>2 DEF Head512
    <3> QED
      BY <2>d, <3>1, <3>2
  <2>4. \A d \in Disk : d # cmd.dev => disk'[d] = disk[d]
    BY <1>0, <2>d, <2>2
  <2>5. TypeOK'
    BY <1>0, <2>1, <2>3 DEF IInv, TypeOK, Opening
  <2>6. Grounds'
    <3>1. ~IsEFIFirmware => fs'[cmd.dev]["esp"].kind = None
      BY <1>0, <2>1 DEF IInv, Grounds, NoEsp
    <3>2. \A p \in Part : /\ fs'[cmd.dev][p].kind = None => fs'[cmd.dev][p].files = {}
                          /\ CurrentCfg \in fs'[cmd.dev][p].open => fs'[cmd.dev][p].cur = CutEntry
                          /\ GlobalCfg \in fs'[cmd.dev][p].open => fs'[cmd.dev][p].glob # None
                          /\ ~IsEFIFirmware => "efi" \notin fs'[cmd.dev][p].dirs
      BY <1>0, <2>1 DEF IInv, Grounds, Kinds, NoEsp
    <3>3. asked'[cmd.dev] # Broken => fs'[cmd.dev][StartPart].app = asked'[cmd.dev]
      BY <1>0, <2>1 DEF IInv, Grounds, Asked
    <3> QED
      BY <1>0, <2>1, <2>3, <2>4, <3>1, <3>2, <3>3, OneDiskNew DEF IInv
  <2>7. Position' /\ Falling' /\ Succeeding' /\ Appending'
    BY <1>0, <2>1, BeforeMount DEF IInv, Position, Formats, Generic, Upgrades, Opening
  <2> QED
    BY <2>5, <2>6, <2>7 DEF IInv
<1> QED
  BY <1>1, <1>2

\* The files come from the boot iso, or nowhere when it cannot be mounted.
LEMMA MountBootIsoInv == IInv /\ MountBootIso => IInv'
<1> SUFFICES ASSUME IInv, MountBootIso PROVE IInv'
  OBVIOUS
<1>0. pc = "bootiso" /\ mnt = NoMounts /\ cmd \in CommandLines
  BY DEF MountBootIso, IInv, Position, Opening, TypeOK
<1>1. CASE Fails
  BY <1>0, <1>1, FailsInv
<1>2. CASE ~Fails
  <2>1. /\ \/ cmd' = [cmd EXCEPT !.dist = TRUE] /\ logged' = logged
           \/ cmd.iso /\ cmd' = [cmd EXCEPT !.dist = FALSE] /\ logged' = TRUE
        /\ pc' = IF Formats THEN "format" ELSE "mount"
        /\ UNCHANGED <<firmware, fs, disk, mnt, file, unread, installed, unkept, asked>>
    BY <1>2 DEF MountBootIso, Goto, machine, fsVars, history
  <2>2. cmd' \in CommandLines /\ logged' \in BOOLEAN
    BY <1>0, <2>1 DEF CommandLines, IInv, TypeOK
  <2>3. cmd'.type = cmd.type /\ cmd'.part = cmd.part /\ cmd'.dev = cmd.dev
    BY <1>0, <2>1 DEF CommandLines
  <2>4. ~logged' => cmd'.dist
    BY <1>0, <2>1 DEF CommandLines
  <2>5. TypeOK'
    BY <2>1, <2>2 DEF IInv, TypeOK
  <2>6. Grounds'
    BY <2>1, GroundsKept DEF IInv
  <2>7. ~Upgrades /\ (Formats \/ cmd.part => cmd.dev \in Disk)
    BY <1>0 DEF IInv, Position, Opening
  <2>8. Position' /\ Falling' /\ Succeeding' /\ Appending'
    BY <1>0, <2>1, <2>3, <2>4, <2>7, BeforeMount DEF Formats, Generic, Upgrades, Opening
  <2> QED
    BY <2>5, <2>6, <2>8 DEF IInv
<1> QED
  BY <1>1, <1>2

\* The state partition of the disk is new, and so are its entries.
LEMMA FormatInv == IInv /\ formatdevice => IInv'
<1> SUFFICES ASSUME IInv, formatdevice PROVE IInv'
  OBVIOUS
<1>0. pc = "format" /\ cmd.dev \in Disk /\ mnt = NoMounts /\ cmd \in CommandLines /\ ~Upgrades
      /\ (~logged => cmd.dist)
  BY DEF formatdevice, IInv, Position, TypeOK, Formats, Upgrades
<1>1. CASE Fails
  BY <1>0, <1>1, FailsInv
<1>2. CASE /\ ~(Generic \/ cmd.part) \/ disk[cmd.dev].table = None
           /\ Goto("failed") /\ UNCHANGED <<fsVars, file>> /\ Quiet
  <2>1. /\ pc' = "failed"
        /\ UNCHANGED <<firmware, fs, disk, mnt, cmd, file, logged, unread, installed, unkept, asked>>
    BY <1>2 DEF Goto, Quiet, machine, fsVars, history
  <2>2. TypeOK'
    BY <1>0, <2>1 DEF IInv, TypeOK
  <2>3. Grounds'
    BY <2>1, GroundsKept DEF IInv
  <2>4. Position' /\ Falling' /\ Succeeding' /\ Appending'
    BY <1>0, <2>1, BeforeMount DEF Formats, Generic, Upgrades, Opening
  <2> QED
    BY <2>2, <2>3, <2>4 DEF IInv
<1>3. CASE /\ disk[cmd.dev].table # None
           /\ fs' = [fs EXCEPT ![cmd.dev]["state"] = Format("ext4")]
           /\ installed' = installed \ {cmd.dev} /\ unkept' = unkept \ {cmd.dev}
           /\ asked' = [asked EXCEPT ![cmd.dev] = IF StartPart = "state" THEN NoAppend ELSE @]
           /\ Goto("mount")
           /\ UNCHANGED <<machine, disk, mnt, cmd, file, errors, logged, unread>>
  <2>1. pc' = "mount" /\ UNCHANGED <<firmware, disk, mnt, cmd, file, logged, unread>>
    BY <1>3 DEF Goto, machine
  <2>2. /\ Format("ext4") \in FileSystem /\ Format("ext4").kind = "ext4"
        /\ Format("ext4").app = NoAppend /\ Format("ext4").files = {}
        /\ Format("ext4").open = {} /\ Format("ext4").dirs = {}
    BY NewFs
  <2>3. fs \in [Disk -> [Part -> FileSystem]] /\ asked \in [Disk -> Parameters \cup {Broken}]
    BY DEF IInv, TypeOK
  <2>4. "state" \in Part /\ "esp" \in Part
    BY DEF Part
  <2>5. fs' \in [Disk -> [Part -> FileSystem]]
    BY <1>0, <1>3, <2>2, <2>3, <2>4
  <2>6. /\ fs'[cmd.dev]["state"] = Format("ext4")
        /\ \A p \in Part : p # "state" => fs'[cmd.dev][p] = fs[cmd.dev][p]
        /\ \A d \in Disk : d # cmd.dev => fs'[d] = fs[d]
    BY <1>0, <1>3, <2>2, <2>3, <2>4
  <2>7. asked' \in [Disk -> Parameters \cup {Broken}]
    BY <1>0, <1>3, <2>3, <2>4, CommandAssumption
  <2>8. /\ asked'[cmd.dev] = IF StartPart = "state" THEN NoAppend ELSE asked[cmd.dev]
        /\ \A d \in Disk : d # cmd.dev => asked'[d] = asked[d]
    BY <1>0, <1>3, <2>3
  <2>9. TypeOK'
    BY <1>0, <1>3, <2>1, <2>5, <2>7 DEF IInv, TypeOK
  <2>10. Grounds'
    <3>1. ~IsEFIFirmware => fs'[cmd.dev]["esp"].kind = None /\ disk'[cmd.dev].table # "gpt"
      BY <1>0, <2>1, <2>4, <2>6 DEF IInv, Grounds, NoEsp
    <3>2. \A p \in Part : /\ fs'[cmd.dev][p].kind = None => fs'[cmd.dev][p].files = {}
                          /\ CurrentCfg \in fs'[cmd.dev][p].open => fs'[cmd.dev][p].cur = CutEntry
                          /\ GlobalCfg \in fs'[cmd.dev][p].open => fs'[cmd.dev][p].glob # None
                          /\ ~IsEFIFirmware => "efi" \notin fs'[cmd.dev][p].dirs
      BY <1>0, <2>2, <2>6 DEF IInv, Grounds, Kinds, NoEsp
    <3>3. asked'[cmd.dev] # Broken => fs'[cmd.dev][StartPart].app = asked'[cmd.dev]
      <4>1. CASE StartPart = "state"
        BY <2>2, <2>6, <2>8, <4>1
      <4>2. CASE StartPart # "state"
        <5>1. StartPart \in Part
          BY DEF StartPart, Part
        <5> QED
          BY <1>0, <2>6, <2>8, <4>2, <5>1 DEF IInv, Grounds, Asked
      <4> QED
        BY <4>1, <4>2
    <3> QED
      BY <1>0, <1>3, <2>1, <2>6, <2>8, <3>1, <3>2, <3>3, OneDiskNew DEF IInv
  <2>11. Position' /\ Falling' /\ Succeeding' /\ Appending'
    <3>1. fs'[cmd.dev]["state"].dirs = {}
      BY <2>2, <2>6
    <3> QED
      BY <1>0, <1>3, <2>1, <3>1, BeforeMount DEF Formats, Generic, Upgrades, Opening
  <2> QED
    BY <2>9, <2>10, <2>11 DEF IInv
<1> QED
  BY <1>1, <1>2, <1>3 DEF formatdevice

-----------------------------------------------------------------------------
(* A partition is mounted.                                                 *)

\* The partition that is given, or the one the labels say.
LEMMA MountDeviceInv == IInv /\ MountDevice => IInv'
<1> SUFFICES ASSUME IInv, MountDevice PROVE IInv'
  OBVIOUS
<1> DEFINE given == Generic \/ cmd.part
           d == IF given THEN <<cmd.dev, "state">>
                ELSE IF GetBootPartition # NoMount THEN GetBootPartition
                ELSE GetStatePartition
           next == CASE Generic /\ IsEFIFirmware -> "esp"
                     [] cmd.type = "arm" -> "seed"
                     [] cmd.type \in {"upgrade", "bootstrap"} -> "append"
                     [] OTHER -> "loader"
<1>0. pc = "mount" /\ mnt = NoMounts /\ cmd \in CommandLines /\ (given => cmd.dev \in Disk)
      /\ (Upgrades => ~cmd.part /\ cmd.dist) /\ (~logged => cmd.dist)
  BY DEF MountDevice, IInv, Position, TypeOK, Formats, Generic
<1>1. UNCHANGED <<firmware, fs, disk, cmd, file, logged, unread, installed, unkept, asked>>
  BY DEF MountDevice, Quiet, machine, fsVars, history
<1>2. Grounds'
  BY <1>1, GroundsKept DEF IInv
<1>3. CASE pc' = "failed" /\ UNCHANGED mnt
  <2>1. TypeOK'
    BY <1>0, <1>1, <1>3 DEF IInv, TypeOK
  <2>2. Position' /\ Falling' /\ Succeeding' /\ Appending'
    BY <1>0, <1>1, <1>3, BeforeMount DEF IInv, Position, Formats, Generic, Upgrades, Opening
  <2> QED
    BY <1>2, <2>1, <2>2 DEF IInv
<1>4. CASE /\ d # NoMount /\ (given => fs[d[1]][d[2]].kind # None) /\ pc' = next
           /\ mnt' = IF ~given /\ GetBootPartition # NoMount
                     THEN [mnt EXCEPT !.boot = d] ELSE [mnt EXCEPT !.base = d]
  <2>1. "state" \in Part /\ "esp" \in Part
    BY DEF Part
  <2>2. d \in Disk \X Part /\ fs[d[1]][d[2]].kind # None
    <3>1. CASE given
      BY <1>0, <1>4, <2>1, <3>1
    <3>2. CASE ~given
      <4>1. d \in {Blkid("esp"), Blkid("state")}
        BY <3>2 DEF GetBootPartition, GetStatePartition
      <4> QED
        BY <1>4, <2>1, <4>1, BlkidFinds DEF IInv
    <3> QED
      BY <3>1, <3>2
  <2>3. d # NoMount
    BY <1>4
  <2>4. mnt' \in [base : Place, boot : Place]
    BY <1>0, <1>4, <2>2 DEF NoMounts, Place
  <2>5. BootFs' = d
    BY <1>0, <1>4, <2>3 DEF NoMounts, BootFs
  <2>6. next \in {"esp", "seed", "append", "loader"}
    OBVIOUS
  <2>7. TypeOK'
    BY <1>0, <1>1, <1>4, <2>4, <2>6 DEF IInv, TypeOK, Mounted
  <2>8. Boot'.kind # None
    BY <1>1, <2>2, <2>5 DEF Boot
  <2>9. ASSUME Upgrades, d[1] \in installed PROVE d[2] = StartPart
    <3>1. ~given /\ d[1] \in Disk
      BY <1>0, <2>2, <2>9 DEF Generic, Upgrades
    <3>2. StartFs(d[1]).kind # None
      <4>1. Loader(firmware) \in StartFs(d[1]).files
        BY <2>9 DEF IInv, Grounds, AllSound, Sound
      <4>2. StartPart \in Part
        BY <2>1 DEF StartPart
      <4> QED
        BY <3>1, <4>1, <4>2 DEF IInv, Grounds, Kinds, StartFs
    <3>3. CASE IsEFIFirmware
      <4>1. Blkid("esp") # NoMount
        <5>1. \E e \in Disk : fs[e]["esp"].kind # None
          BY <3>1, <3>2, <3>3 DEF StartFs, StartPart
        <5> HIDE DEF d
        <5>2. "esp" \in Part /\ TypeOK
          BY <2>1 DEF IInv
        <5>3. \A e \in Disk : <<e, "esp">> # NoMount
          BY DEF NoMount, None
        <5> QED
          BY <5>1, <5>2, <5>3, BlkidFinds
      <4> QED
        BY <2>1, <3>1, <3>3, <4>1, BlkidFinds DEF IInv, GetBootPartition, StartPart
    <3>4. CASE ~IsEFIFirmware
      <4>1. Blkid("esp") = NoMount
        BY <2>1, <3>4, BlkidFinds DEF IInv, Grounds, NoEsp
      <4>2. d = Blkid("state")
        BY <3>1, <4>1 DEF GetBootPartition, GetStatePartition
      <4> QED
        BY <1>4, <2>1, <3>4, <4>2, BlkidFinds DEF IInv, StartPart
    <3> QED
      BY <3>3, <3>4
  <2>10. Generic /\ pc' # "esp" => d = <<cmd.dev, StartPart>>
    <3>1. Generic /\ IsEFIFirmware => next = "esp"
      BY DEF Generic
    <3>2. Generic => d = <<cmd.dev, "state">>
      OBVIOUS
    <3>3. pc' = next
      BY <1>4
    <3> HIDE DEF next, d
    <3> QED
      BY <3>1, <3>2, <3>3 DEF StartPart
  <2>11. Generic => cmd.dev \notin installed /\ disk[cmd.dev].table # None
    BY <1>0 DEF IInv, Falling, Succeeding
  <2>d. Generic => Boot'.dirs = {}
    <3>1. Generic => fs'[cmd.dev]["state"].dirs = {}
      BY <1>0, <1>1 DEF IInv, Succeeding
    <3>2. Generic => BootFs' = <<cmd.dev, "state">>
      BY <2>5
    <3> QED
      BY <3>1, <3>2 DEF Boot
  <2>12. pc' = "esp" => Generic /\ IsEFIFirmware
    BY <1>4
  <2>13. pc' \in {"seed", "append"} => ~Generic
    BY <1>4 DEF Generic
  <2>14. StartPart' = StartPart /\ IsEFIFirmware' = IsEFIFirmware
    BY <1>1 DEF StartPart, IsEFIFirmware
  <2>15. Position'
    BY <1>0, <1>1, <1>4, <2>2, <2>5, <2>6, <2>8, <2>9, <2>10, <2>12, <2>14
       DEF IInv, Position, Formats, Generic, Upgrades, Opening, Mounted, Laying, Target
  <2>16. Falling' /\ Succeeding' /\ Appending'
    BY <1>1, <1>4, <2>6, <2>11, <2>12, <2>13, <2>d
       DEF Falling, Succeeding, Appending, Mounted, Laying, Generic
  <2> QED
    BY <1>2, <2>7, <2>15, <2>16 DEF IInv
<1> QED
  BY <1>3, <1>4 DEF MountDevice, Goto, fsVars

\* The ESP of the disk is new; it is where UEFI looks for the entries.
LEMMA EspInv == IInv /\ formatAndMountESP => IInv'
<1> SUFFICES ASSUME IInv, formatAndMountESP PROVE IInv'
  OBVIOUS
<1>0. pc = "esp" /\ Generic /\ IsEFIFirmware /\ cmd.dev \in Disk /\ cmd \in CommandLines
      /\ (~logged => cmd.dist) /\ cmd.dev \notin installed /\ disk[cmd.dev].table # None
  BY DEF formatAndMountESP, IInv, Position, TypeOK, Formats, Generic, Falling, Succeeding
<1>1. CASE Fails
  BY <1>0, <1>1, FailsInv
<1>2. CASE ~Fails
  <2>1. /\ fs' = [fs EXCEPT ![cmd.dev]["esp"] = Format("vfat")]
        /\ mnt' = [mnt EXCEPT !.boot = <<cmd.dev, "esp">>]
        /\ asked' = [asked EXCEPT ![cmd.dev] = NoAppend]
        /\ pc' = "loader"
        /\ UNCHANGED <<firmware, disk, cmd, file, logged, unread, installed, unkept>>
    BY <1>2 DEF formatAndMountESP, Goto, machine
  <2>2. /\ Format("vfat") \in FileSystem /\ Format("vfat").kind = "vfat"
        /\ Format("vfat").app = NoAppend /\ Format("vfat").files = {}
        /\ Format("vfat").open = {} /\ Format("vfat").dirs = {}
    BY NewFs
  <2>3. /\ fs \in [Disk -> [Part -> FileSystem]] /\ mnt \in [base : Place, boot : Place]
        /\ asked \in [Disk -> Parameters \cup {Broken}]
    BY DEF IInv, TypeOK
  <2>4. "state" \in Part /\ "esp" \in Part
    BY DEF Part
  <2>5. fs' \in [Disk -> [Part -> FileSystem]]
    BY <1>0, <2>1, <2>2, <2>3, <2>4
  <2>6. /\ fs'[cmd.dev]["esp"] = Format("vfat")
        /\ \A p \in Part : p # "esp" => fs'[cmd.dev][p] = fs[cmd.dev][p]
        /\ \A d \in Disk : d # cmd.dev => fs'[d] = fs[d]
    BY <1>0, <2>1, <2>2, <2>3, <2>4
  <2>7. asked' \in [Disk -> Parameters \cup {Broken}] /\ asked'[cmd.dev] = NoAppend
        /\ \A d \in Disk : d # cmd.dev => asked'[d] = asked[d]
    BY <1>0, <2>1, <2>3, CommandAssumption
  <2>9. mnt' \in [base : Place, boot : Place] /\ mnt'.boot = <<cmd.dev, "esp">>
    BY <1>0, <2>1, <2>3, <2>4 DEF Place
  <2>10. TypeOK'
    BY <1>0, <2>1, <2>5, <2>7, <2>9 DEF IInv, TypeOK, Mounted
  <2>11. Grounds'
    <3>1. \A p \in Part : /\ fs'[cmd.dev][p].kind = None => fs'[cmd.dev][p].files = {}
                          /\ CurrentCfg \in fs'[cmd.dev][p].open => fs'[cmd.dev][p].cur = CutEntry
                          /\ GlobalCfg \in fs'[cmd.dev][p].open => fs'[cmd.dev][p].glob # None
      BY <1>0, <2>2, <2>6 DEF IInv, Grounds, Kinds
    <3>2. fs'[cmd.dev][StartPart].app = asked'[cmd.dev]
      BY <1>0, <2>2, <2>6, <2>7 DEF StartPart
    <3> QED
      BY <1>0, <2>1, <2>6, <2>7, <3>1, <3>2, OneDiskNew DEF IInv
  <2>12. BootFs' = <<cmd.dev, "esp">> /\ BootFs' \in Disk \X Part
    BY <1>0, <2>4, <2>9 DEF BootFs, NoMount, None
  <2>13. Boot'.kind # None /\ Boot'.dirs = {}
    BY <2>2, <2>6, <2>12 DEF Boot, None
  <2>14. StartPart' = "esp" /\ IsEFIFirmware'
    BY <1>0, <2>1 DEF StartPart, IsEFIFirmware
  <2>15. Position'
    BY <1>0, <2>1, <2>12, <2>13, <2>14 DEF Position, Formats, Generic, Upgrades, Opening, Mounted, Laying
  <2>16. Falling' /\ Succeeding' /\ Appending'
    BY <1>0, <2>1, <2>13 DEF Falling, Succeeding, Appending, Mounted, Laying, Generic
  <2> QED
    BY <2>10, <2>11, <2>15, <2>16 DEF IInv
<1> QED
  BY <1>1, <1>2

-----------------------------------------------------------------------------
(* The boot directory.                                                     *)

\* What SetBoot changes.
LEMMA BootSet ==
  ASSUME TypeOK, BootFs \in Disk \X Part, NEW b \in FileSystem, SetBoot(b), UNCHANGED mnt
  PROVE  /\ fs' \in [Disk -> [Part -> FileSystem]]
         /\ BootFs' = BootFs /\ Target' = Target /\ Boot' = b
         /\ \A d \in Disk, p \in Part : <<d, p>> # BootFs => fs'[d][p] = fs[d][p]
<1>1. PICK e \in Disk, q \in Part : BootFs = <<e, q>>
  OBVIOUS
<1>2. fs' = [fs EXCEPT ![e][q] = b]
  BY <1>1 DEF SetBoot
<1>3. fs \in [Disk -> [Part -> FileSystem]]
  BY DEF TypeOK
<1>4. fs' \in [Disk -> [Part -> FileSystem]]
  BY <1>2, <1>3
<1>5. fs'[e][q] = b /\ \A d \in Disk, p \in Part : d # e \/ p # q => fs'[d][p] = fs[d][p]
  BY <1>2, <1>3
<1>6. BootFs' = BootFs
  BY DEF BootFs
<1> QED
  BY <1>1, <1>4, <1>5, <1>6 DEF Target, Boot

\* What a step owes to a boot directory that becomes b.
Sane(b) ==
    /\ b \in FileSystem /\ b.kind = Boot.kind
    /\ CurrentCfg \in b.open => b.cur = CutEntry
    /\ GlobalCfg \in b.open => b.glob # None
    /\ "efi" \in b.dirs => "efi" \in Boot.dirs \/ IsEFIFirmware
    /\ Sound(firmware, Boot) => Sound(firmware, b)

\* The grounds after a change of the boot directory.
LEMMA BootGrounds ==
  ASSUME TypeOK, Grounds, BootFs \in Disk \X Part, Boot.kind # None, NEW b, SetBoot(b), Sane(b),
         UNCHANGED <<firmware, mnt, installed>>, unkept \subseteq unkept',
         \A d \in Disk : /\ disk'[d].table = disk[d].table
                         /\ disk[d].active => disk'[d].active
                         /\ disk[d].mbr => disk'[d].mbr,
         \A d \in Disk : d # Target \/ BootFs[2] # StartPart => asked'[d] = asked[d],
         BootFs[2] = StartPart /\ asked'[Target] # Broken => b.app = asked'[Target],
         /\ Target \in installed \ unkept' /\ BootFs[2] = StartPart /\ Standing(firmware, Boot)
         => Standing(firmware, b)
  PROVE  Grounds'
<1>0. b \in FileSystem
  BY DEF Sane
<1>1. PICK e \in Disk, q \in Part : BootFs = <<e, q>> /\ Target = e
  BY DEF Target
<1>2. Boot = fs[e][q] /\ fs'[e][q] = b /\ \A d \in Disk, p \in Part : d # e \/ p # q => fs'[d][p] = fs[d][p]
  <2>1. Boot' = b /\ BootFs' = BootFs
    BY <1>0, BootSet
  <2> QED
    BY <1>0, <1>1, <2>1, BootSet DEF Boot
<1>3. IsEFIFirmware' = IsEFIFirmware /\ StartPart' = StartPart /\ StartPart \in Part
  BY DEF IsEFIFirmware, StartPart, Part
<1>4. NoEsp'
  BY <1>1, <1>2, <1>3 DEF NoEsp, Grounds, Sane, Part
<1>5. Kinds'
  BY <1>1, <1>2 DEF Kinds, Grounds, Sane
<1>6. Asked'
  <2> SUFFICES ASSUME NEW d \in Disk, asked'[d] # Broken PROVE fs'[d][StartPart].app = asked'[d]
    BY <1>3 DEF Asked
  <2>1. CASE d = e /\ q = StartPart
    BY <1>1, <1>2, <2>1
  <2>2. CASE ~(d = e /\ q = StartPart)
    BY <1>1, <1>2, <1>3, <2>2 DEF Asked, Grounds
  <2> QED
    BY <2>1, <2>2
<1>7. installed \subseteq Disk
  BY DEF TypeOK
<1>8. \A d \in Disk : StartFs(d) = fs[d][StartPart] /\ StartFs(d)' = fs'[d][StartPart]
  BY <1>3 DEF StartFs
<1>9. \A d \in Disk : Ready(d) => Ready(d)'
  BY <1>3 DEF Ready
<1>10. AllSound'
  <2> SUFFICES ASSUME NEW d \in installed PROVE Sound(firmware, fs'[d][StartPart]) /\ Ready(d)'
    BY <1>7, <1>8 DEF AllSound
  <2>1. d \in Disk /\ Sound(firmware, fs[d][StartPart]) /\ Ready(d)
    BY <1>7, <1>8 DEF Grounds, AllSound
  <2>2. CASE d = e /\ q = StartPart
    BY <1>2, <1>9, <2>1, <2>2 DEF Sane
  <2>3. CASE ~(d = e /\ q = StartPart)
    BY <1>2, <1>3, <1>9, <2>1, <2>3
  <2> QED
    BY <2>2, <2>3
<1>11. AllStanding'
  <2> SUFFICES ASSUME NEW d \in installed \ unkept' PROVE Standing(firmware, fs'[d][StartPart])
    BY <1>7, <1>8 DEF AllStanding
  <2>1. d \in Disk /\ Standing(firmware, fs[d][StartPart])
    BY <1>7, <1>8 DEF Grounds, AllStanding
  <2>2. CASE d = e /\ q = StartPart
    BY <1>1, <1>2, <2>1, <2>2
  <2>3. CASE ~(d = e /\ q = StartPart)
    BY <1>2, <1>3, <2>1, <2>3
  <2> QED
    BY <2>2, <2>3
<1> QED
  BY <1>4, <1>5, <1>6, <1>10, <1>11 DEF Grounds

\* Whether there is a partition with a label depends on the kinds only.
LEMMA BlkidKept ==
  ASSUME NEW q \in Part, \A d \in Disk, p \in Part : fs'[d][p].kind = fs[d][p].kind
  PROVE  Blkid(q)' = NoMount <=> Blkid(q) = NoMount
<1>1. {i \in DOMAIN Disks : fs'[Disks[i]][q].kind # None} = {i \in DOMAIN Disks : fs[Disks[i]][q].kind # None}
  BY DEF Disk
<1>2. \A x : <<x, q>> # NoMount
  BY DEF NoMount, None, Part
<1>3. Blkid(q) = NoMount <=> {i \in DOMAIN Disks : fs[Disks[i]][q].kind # None} = {}
  BY <1>2 DEF Blkid
<1>4. Blkid(q)' = NoMount <=> {i \in DOMAIN Disks : fs'[Disks[i]][q].kind # None} = {}
  BY <1>2 DEF Blkid
<1> QED
  BY <1>1, <1>3, <1>4

\* The layout stays what it was when the installer started to write.
LEMMA LayoutKept ==
  ASSUME UNCHANGED firmware, cmd'.type = cmd.type,
         \A d \in Disk, p \in Part : fs'[d][p].kind = fs[d][p].kind,
         "efi" \in Boot.dirs => "efi" \in Boot'.dirs,
         "efi" \in Boot'.dirs => "efi" \in Boot.dirs \/ Efi \/ cmd.type \notin {"noformat", "upgrade"}
  PROVE  Layout' = Layout
<1>1. Blkid("esp")' = NoMount <=> Blkid("esp") = NoMount
  BY BlkidKept DEF Part
<1>2. Generic' = Generic /\ IsEFIFirmware' = IsEFIFirmware
  BY DEF Generic, IsEFIFirmware
<1>3. CASE cmd.type \in {"noformat", "upgrade"}
  <2>1. Efi <=> isEFILayout
    BY <1>3 DEF Efi, Generic
  <2>2. Efi' <=> isEFILayout'
    BY <1>3 DEF Efi, Generic
  <2>3. isEFILayout' <=> isEFILayout
    BY <1>1, <1>3, <2>1 DEF isEFILayout
  <2> QED
    BY <2>1, <2>2, <2>3 DEF Layout
<1>4. CASE cmd.type \notin {"noformat", "upgrade"}
  <2>1. Efi <=> Generic /\ IsEFIFirmware
    BY <1>4 DEF Efi
  <2>2. Efi' <=> Generic' /\ IsEFIFirmware'
    BY <1>4 DEF Efi
  <2> QED
    BY <1>2, <2>1, <2>2 DEF Layout
<1> QED
  BY <1>3, <1>4

\* The layout a new disk gets, the one an installed disk has, and without UEFI the
\* only one there is, is the one the firmware starts.
LEMMA LayoutIsFirmware ==
  ASSUME IInv, pc \in Mounted, Generic \/ ~IsEFIFirmware \/ (Upgrades /\ Target \in installed)
  PROVE  Layout = firmware
<1>1. firmware \in {"efi", "bios"} /\ (IsEFIFirmware <=> firmware = "efi")
  BY DEF IInv, TypeOK, IsEFIFirmware, Layouts
<1>2. BootFs \in Disk \X Part /\ Boot = fs[Target][BootFs[2]] /\ Target \in Disk /\ BootFs[2] \in Part
  BY DEF IInv, Position, Boot, Target
<1>3. CASE Generic
  BY <1>1, <1>3 DEF Layout, Efi
<1>4. CASE ~IsEFIFirmware
  <2>1. Blkid("esp") = NoMount
    BY <1>4, BlkidFinds DEF IInv, Grounds, NoEsp, Part
  <2>2. "efi" \notin Boot.dirs
    BY <1>2, <1>4 DEF IInv, Grounds, NoEsp
  <2>3. ~Efi
    BY <1>4, <2>1, <2>2 DEF Efi, isEFILayout
  <2> QED
    BY <1>1, <1>4, <2>3 DEF Layout
<1>5. CASE IsEFIFirmware /\ Upgrades /\ Target \in installed
  <2>1. Loader(firmware) \in fs[Target]["esp"].files
    BY <1>5 DEF IInv, Grounds, AllSound, Sound, StartFs, StartPart
  <2>2. "esp" \in Part
    BY DEF Part
  <2>3. fs[Target]["esp"].kind # None
    BY <1>2, <2>1, <2>2 DEF IInv, Grounds, Kinds
  <2>4. \A e \in Disk : <<e, "esp">> # NoMount
    BY DEF NoMount, None
  <2>5. Blkid("esp") # NoMount
    <3>1. TypeOK
      BY DEF IInv
    <3> QED
      BY <1>2, <2>2, <2>3, <2>4, <3>1, BlkidFinds
  <2>6. Efi
    BY <1>5, <2>5 DEF Efi, isEFILayout, Upgrades, Generic
  <2> QED
    BY <1>1, <1>5, <2>6 DEF Layout
<1> QED
  BY <1>3, <1>4, <1>5

\* The installer stays where it is, and its command what it is.
LEMMA PositionKept ==
  ASSUME IInv, pc \in Mounted, pc' \in Mounted, UNCHANGED <<firmware, mnt, installed>>,
         /\ cmd'.type = cmd.type /\ cmd'.part = cmd.part /\ cmd'.dev = cmd.dev
         /\ cmd'.dist = cmd.dist,
         Boot'.kind # None, logged => logged', pc' = "write" => cmd.dist /\ file' <= 5
  PROVE  Position'
<1>1. BootFs' = BootFs /\ Target' = Target
  BY BootKept
<1>2. StartPart' = StartPart
  BY DEF StartPart, IsEFIFirmware
<1>3. /\ Formats \/ cmd.part => cmd.dev \in Disk
      /\ Upgrades => ~cmd.part /\ cmd.dist
      /\ ~logged => cmd.dist
      /\ BootFs \in Disk \X Part
      /\ Generic => BootFs = <<cmd.dev, StartPart>>
      /\ Upgrades /\ Target \in installed => BootFs[2] = StartPart
  BY DEF IInv, Position, Mounted, Laying
<1>4. Formats' = Formats /\ Generic' = Generic /\ Upgrades' = Upgrades
  BY DEF Formats, Generic, Upgrades
<1> QED
  BY <1>1, <1>2, <1>3, <1>4 DEF Position, Mounted, Laying, Opening

\* Up to the append file only the boot loader matters.
LEMMA LoaderOnward ==
  ASSUME IInv, pc \in Mounted, pc' \in {"modules", "seed", "append"},
         UNCHANGED <<firmware, mnt, cmd, installed>>, Boot'.kind # None, logged => logged',
         pc' = "modules" /\ Generic /\ ~logged' => Ready(cmd.dev)',
         pc' # "modules" /\ Generic /\ ~logged' => Loaded(cmd.dev)'
  PROVE  Position' /\ Falling' /\ Succeeding' /\ Appending'
<1>1. Position'
  BY PositionKept DEF Mounted
<1>2. Falling' /\ Appending'
  BY DEF Falling, Appending, Laying
<1>3. Succeeding'
  BY DEF Succeeding, Generic
<1> QED
  BY <1>1, <1>2, <1>3

\* The installer's file system.
LEMMA BootThere ==
  ASSUME IInv, pc \in Mounted
  PROVE  /\ BootFs \in Disk \X Part /\ Boot \in FileSystem /\ Boot.kind # None
         /\ Target \in Disk /\ BootFs[2] \in Part /\ BootFs = <<Target, BootFs[2]>>
         /\ cmd \in CommandLines /\ pc # "idle" /\ Boot = fs[Target][BootFs[2]]
<1>1. BootFs \in Disk \X Part /\ Boot.kind # None
  BY DEF IInv, Position
<1> QED
  BY <1>1 DEF IInv, TypeOK, Boot, Target, Mounted, Laying

\* What is known of the installer's file system.
LEMMA BootSane ==
  ASSUME IInv, pc \in Mounted
  PROVE  /\ CurrentCfg \in Boot.open => Boot.cur = CutEntry
         /\ GlobalCfg \in Boot.open => Boot.glob # None
         /\ "efi" \in Boot.dirs => IsEFIFirmware
         /\ BootFs[2] = StartPart /\ asked[Target] # Broken => Boot.app = asked[Target]
         /\ BootFs[2] = StartPart => Boot = StartFs(Target)
<1>1. BootFs = <<Target, BootFs[2]>> /\ Target \in Disk /\ BootFs[2] \in Part /\ Boot = fs[Target][BootFs[2]]
  BY BootThere
<1>2. /\ CurrentCfg \in Boot.open => Boot.cur = CutEntry
      /\ GlobalCfg \in Boot.open => Boot.glob # None
  BY <1>1 DEF IInv, Grounds, Kinds
<1>3. "efi" \in Boot.dirs => IsEFIFirmware
  BY <1>1 DEF IInv, Grounds, NoEsp
<1>4. BootFs[2] = StartPart /\ asked[Target] # Broken => Boot.app = asked[Target]
  BY <1>1 DEF IInv, Grounds, Asked
<1> QED
  BY <1>1, <1>2, <1>3, <1>4 DEF StartFs

\* A step that changes the boot directory and not the append file.
LEMMA BootStep ==
  ASSUME IInv, pc \in Mounted, NEW b, SetBoot(b), Sane(b), b.app = Boot.app,
         UNCHANGED <<firmware, mnt, installed, asked>>, unkept \subseteq unkept',
         \A d \in Disk : /\ disk'[d].table = disk[d].table
                         /\ disk[d].active => disk'[d].active
                         /\ disk[d].mbr => disk'[d].mbr,
         /\ Target \in installed \ unkept' /\ BootFs[2] = StartPart /\ Standing(firmware, Boot)
         => Standing(firmware, b)
  PROVE  /\ Grounds' /\ fs' \in [Disk -> [Part -> FileSystem]]
         /\ Boot' = b /\ BootFs' = BootFs /\ Target' = Target
         /\ \A d \in Disk, p \in Part : fs'[d][p].kind = fs[d][p].kind
<1>1. BootFs \in Disk \X Part /\ Boot.kind # None /\ Boot = fs[Target][BootFs[2]]
      /\ BootFs = <<Target, BootFs[2]>> /\ TypeOK /\ Grounds /\ b \in FileSystem /\ b.kind = Boot.kind
  BY BootThere DEF IInv, Sane
<1>2. BootFs[2] = StartPart /\ asked[Target] # Broken => b.app = asked[Target]
  BY BootSane
<1>3. Grounds'
  BY <1>1, <1>2, BootGrounds
<1>4. /\ fs' \in [Disk -> [Part -> FileSystem]]
      /\ BootFs' = BootFs /\ Target' = Target /\ Boot' = b
      /\ \A d \in Disk, p \in Part : <<d, p>> # BootFs => fs'[d][p] = fs[d][p]
  BY <1>1, BootSet
<1>5. fs'[Target][BootFs[2]] = b
  BY <1>4 DEF Boot, Target
<1>6. \A d \in Disk, p \in Part : fs'[d][p].kind = fs[d][p].kind
  <2> SUFFICES ASSUME NEW d \in Disk, NEW p \in Part PROVE fs'[d][p].kind = fs[d][p].kind
    OBVIOUS
  <2>1. CASE <<d, p>> = BootFs
    BY <1>1, <1>5, <2>1
  <2>2. CASE <<d, p>> # BootFs
    BY <1>4, <2>2
  <2> QED
    BY <2>1, <2>2
<1> QED
  BY <1>3, <1>4, <1>6

\* The loader is given up: the run ends, or goes on.
LEMMA LoaderFailsInv ==
  ASSUME IInv, pc \in {"loader", "modules"}, LoaderFails PROVE IInv'
<1>a. AfterLoader \in {"seed", "append"}
  BY DEF AfterLoader
<1>0. pc \in Mounted
  BY DEF Mounted
<1>b. Boot.kind # None /\ pc # "idle" /\ cmd \in CommandLines
  BY <1>0, BootThere
<1>1. CASE Fails
  BY <1>b, <1>1, FailsInv
<1>2. CASE IgnoresErrors /\ Logs(AfterLoader) /\ UNCHANGED fsVars
  <2>1. /\ logged' = TRUE /\ pc' = AfterLoader
        /\ UNCHANGED <<firmware, fs, disk, mnt, cmd, file, unread, installed, unkept, asked>>
    BY <1>2 DEF Logs, Goto, machine, fsVars
  <2>2. TypeOK'
    BY <1>a, <1>b, <2>1 DEF IInv, TypeOK, Mounted
  <2>3. Grounds'
    BY <2>1, GroundsKept DEF IInv
  <2>4. Boot' = Boot
    BY <2>1, BootKept
  <2> QED
    BY <1>0, <1>a, <1>b, <2>1, <2>2, <2>3, <2>4, LoaderOnward DEF IInv
<1> QED
  BY <1>1, <1>2 DEF LoaderFails

\* The directory of the layout is made.
LEMMA DirectoryMade ==
  ASSUME IInv, pc = "loader", NEW next, Directory(next), UNCHANGED <<firmware, mnt, installed, asked, unkept>>,
         \A d \in Disk : /\ disk'[d].table = disk[d].table
                         /\ disk[d].active => disk'[d].active
                         /\ disk[d].mbr => disk'[d].mbr
  PROVE  /\ Grounds' /\ fs' \in [Disk -> [Part -> FileSystem]] /\ Boot'.kind # None
         /\ next \in {"modules", "seed", "append"} /\ (Generic => next = "modules")
<1>0. pc \in Mounted
  BY DEF Mounted
<1>1. Boot \in FileSystem /\ Boot.kind # None
  BY <1>0, BootThere
<1>2. PICK b : b = [Boot EXCEPT !.dirs = @ \cup {Layout}]
  OBVIOUS
<1>3. Layout \in Layouts
  BY DEF Layout, Layouts
<1>4. /\ b \in FileSystem /\ b.kind = Boot.kind /\ b.app = Boot.app /\ b.glob = Boot.glob
      /\ b.cur = Boot.cur /\ b.prev = Boot.prev /\ b.files = Boot.files /\ b.open = Boot.open
      /\ b.dirs = Boot.dirs \cup {Layout}
  BY <1>1, <1>2, <1>3 DEF FileSystem
<1>5. Layout = "efi" => IsEFIFirmware
  BY <1>0, LayoutIsFirmware DEF IsEFIFirmware
<1>6. Sane(b)
  <2>1. Sound(firmware, Boot) => Sound(firmware, b)
    BY <1>4 DEF Sound
  <2>2. "efi" \in b.dirs => "efi" \in Boot.dirs \/ IsEFIFirmware
    BY <1>4, <1>5
  <2> QED
    BY <1>0, <1>4, <2>1, <2>2, BootSane DEF Sane
<1>7. Standing(firmware, Boot) => Standing(firmware, b)
  BY <1>4 DEF Standing, Holds
<1>8. SetBoot(b)
  BY <1>2 DEF Directory
<1>9. Grounds' /\ fs' \in [Disk -> [Part -> FileSystem]] /\ Boot' = b
  BY <1>0, <1>4, <1>6, <1>7, <1>8, BootStep
<1>10. next \in {"modules", "seed", "append"}
  BY DEF Directory, AfterLoader
<1>11. Generic => next = "modules"
  BY DEF Directory, IInv, Succeeding
<1> QED
  BY <1>1, <1>4, <1>9, <1>10, <1>11

\* The boot loader for UEFI.
LEMMA SyslinuxEFIInv == IInv /\ installSyslinuxEFI => IInv'
<1> SUFFICES ASSUME IInv, installSyslinuxEFI PROVE IInv'
  OBVIOUS
<1>0. pc = "loader" /\ pc \in Mounted /\ Efi
  BY DEF installSyslinuxEFI, Mounted
<1>1. CASE LoaderFails
  BY <1>0, <1>1, LoaderFailsInv
<1>2. ASSUME NEW next, Directory(next), pc' = next, UNCHANGED <<disk, mnt, file>>, Quiet
      PROVE  IInv'
  <2>1. UNCHANGED <<firmware, disk, mnt, cmd, file, logged, unread, installed, unkept, asked>>
    BY <1>2 DEF Quiet, machine, history
  <2>2. /\ Grounds' /\ fs' \in [Disk -> [Part -> FileSystem]] /\ Boot'.kind # None
        /\ next \in {"modules", "seed", "append"} /\ (Generic => next = "modules")
    BY <1>0, <1>2, <2>1, DirectoryMade
  <2>3. TypeOK'
    BY <1>0, <1>2, <2>1, <2>2 DEF IInv, TypeOK, Mounted
  <2>4. Generic => Ready(cmd.dev)'
    BY <1>0, <2>1 DEF Efi, Ready, IsEFIFirmware
  <2> QED
    BY <1>0, <1>2, <2>1, <2>2, <2>3, <2>4, LoaderOnward DEF IInv
<1> QED
  BY <1>1, <1>2 DEF installSyslinuxEFI, Goto

\* With a BIOS the first sector is part of it.
LEMMA SyslinuxInv == IInv /\ installSyslinux => IInv'
<1> SUFFICES ASSUME IInv, installSyslinux PROVE IInv'
  OBVIOUS
<1>0. pc = "loader" /\ pc \in Mounted /\ ~Efi
  BY DEF installSyslinux, Mounted
<1>b. Target \in Disk /\ cmd \in CommandLines
  BY <1>0, BootThere
<1>1. CASE LoaderFails
  BY <1>0, <1>1, LoaderFailsInv
<1>2. ASSUME NEW next, Directory(next), pc' = next,
             \/ disk' = [disk EXCEPT ![Target].mbr = TRUE, ![Target].active = TRUE] /\ UNCHANGED logged
             \/ disk' = [disk EXCEPT ![Target].mbr = TRUE] /\ logged' = TRUE,
             UNCHANGED <<firmware, mnt, cmd, file, unread, installed, unkept, asked>>
      PROVE  IInv'
  <2>d. disk \in [Disk -> Head512]
    BY DEF IInv, TypeOK
  <2>e. /\ disk' \in [Disk -> Head512]
        /\ \A d \in Disk : /\ disk'[d].table = disk[d].table
                           /\ disk[d].active => disk'[d].active
                           /\ disk[d].mbr => disk'[d].mbr
        /\ ~logged' => disk'[Target].active /\ disk'[Target].mbr
    <3>1. CASE disk' = [disk EXCEPT ![Target].mbr = TRUE, ![Target].active = TRUE]
      BY <1>b, <2>d, <3>1 DEF Head512
    <3>2. CASE disk' = [disk EXCEPT ![Target].mbr = TRUE] /\ logged' = TRUE
      BY <1>b, <2>d, <3>2 DEF Head512
    <3> QED
      BY <1>2, <3>1, <3>2
  <2>2. /\ Grounds' /\ fs' \in [Disk -> [Part -> FileSystem]] /\ Boot'.kind # None
        /\ next \in {"modules", "seed", "append"} /\ (Generic => next = "modules")
    BY <1>0, <1>2, <2>e, DirectoryMade
  <2>l. logged' \in BOOLEAN /\ (logged => logged')
    <3>1. logged \in BOOLEAN
      BY DEF IInv, TypeOK
    <3>2. logged' = logged \/ logged' = TRUE
      BY <1>2
    <3> QED
      BY <3>1, <3>2
  <2>3. TypeOK'
    BY <1>0, <1>b, <1>2, <2>2, <2>e, <2>l DEF IInv, TypeOK, Mounted
  <2>4. Generic /\ ~logged' => Ready(cmd.dev)'
    <3>1. Generic => ~IsEFIFirmware /\ BootFs = <<cmd.dev, "state">> /\ Target = cmd.dev
      BY <1>0 DEF Efi, IInv, Position, StartPart, Target
    <3>2. Generic => disk[cmd.dev].table = "msdos"
      BY <1>0, <1>b, <2>d, <3>1 DEF IInv, Grounds, NoEsp, Succeeding, Head512
    <3> QED
      BY <1>2, <1>b, <2>e, <3>1, <3>2 DEF Ready, IsEFIFirmware
  <2> QED
    BY <1>0, <1>b, <1>2, <2>2, <2>3, <2>4, <2>l, LoaderOnward DEF IInv
<1> QED
  BY <1>1, <1>2 DEF installSyslinux, Logs, Quiet, Goto, machine, history

\* The loader is complete.
LEMMA CopyModulesInv == IInv /\ CopyModules => IInv'
<1> SUFFICES ASSUME IInv, CopyModules PROVE IInv'
  OBVIOUS
<1>0. pc = "modules" /\ pc \in Mounted
  BY DEF CopyModules, Mounted
<1>1. CASE LoaderFails
  BY <1>0, <1>1, LoaderFailsInv
<1>2. CASE /\ SetBoot([Boot EXCEPT !.files = @ \cup {Loader(Layout)}])
           /\ Goto(AfterLoader) /\ UNCHANGED <<disk, mnt, file>> /\ Quiet
  <2>a. AfterLoader \in {"seed", "append"}
    BY DEF AfterLoader
  <2>b. Boot \in FileSystem /\ Boot.kind # None /\ cmd \in CommandLines
    BY <1>0, BootThere
  <2>1. /\ pc' = AfterLoader
        /\ UNCHANGED <<firmware, disk, mnt, cmd, file, logged, unread, installed, unkept, asked>>
    BY <1>2 DEF Quiet, Goto, machine, history
  <2>2. PICK f : f = Boot.files \cup {Loader(Layout)}
    OBVIOUS
  <2>3. f \in SUBSET FileName
    <3>1. Layout \in Layouts
      BY DEF Layout, Layouts
    <3>2. Loader(Layout) \in FileName
      BY <3>1, Names
    <3> QED
      BY <2>2, <2>b, <3>2 DEF FileSystem
  <2>4. PICK b : b = [Boot EXCEPT !.files = f]
    OBVIOUS
  <2>5. /\ b \in FileSystem /\ b.kind = Boot.kind /\ b.app = Boot.app /\ b.glob = Boot.glob
        /\ b.cur = Boot.cur /\ b.prev = Boot.prev /\ b.files = f /\ b.open = Boot.open
        /\ b.dirs = Boot.dirs
    BY <2>b, <2>3, <2>4 DEF FileSystem
  <2>6. Sane(b)
    <3>1. Sound(firmware, Boot) => Sound(firmware, b)
      BY <2>2, <2>5 DEF Sound
    <3> QED
      BY <1>0, <2>5, <3>1, BootSane DEF Sane
  <2>7. Standing(firmware, Boot) => Standing(firmware, b)
    BY <2>2, <2>5 DEF Standing, Holds
  <2>8. SetBoot(b)
    BY <1>2, <2>2, <2>4
  <2>9. Grounds' /\ fs' \in [Disk -> [Part -> FileSystem]] /\ Boot' = b /\ BootFs' = BootFs
    BY <1>0, <2>1, <2>5, <2>6, <2>7, <2>8, BootStep
  <2>10. TypeOK'
    BY <1>0, <2>a, <2>b, <2>1, <2>9 DEF IInv, TypeOK, Mounted
  <2>11. Generic /\ ~logged' => Loaded(cmd.dev)'
    <3> SUFFICES ASSUME Generic, ~logged PROVE Loaded(cmd.dev)'
      BY <2>1
    <3>1. BootFs = <<cmd.dev, StartPart>> /\ Ready(cmd.dev)
      BY <1>0 DEF IInv, Position, Succeeding
    <3>2. Layout = firmware
      BY <1>0, LayoutIsFirmware
    <3>3. StartPart' = StartPart /\ firmware' = firmware
      BY <2>1 DEF StartPart, IsEFIFirmware
    <3>4. StartFs(cmd.dev)' = b
      BY <2>1, <2>9, <3>1, <3>3 DEF Boot, StartFs
    <3>5. Loader(firmware) \in b.files
      BY <2>2, <2>5, <3>2
    <3>6. Ready(cmd.dev)'
      BY <2>1, <3>1 DEF Ready, IsEFIFirmware
    <3> QED
      BY <3>3, <3>4, <3>5, <3>6 DEF Loaded
  <2> QED
    BY <1>0, <2>a, <2>b, <2>1, <2>5, <2>9, <2>10, <2>11, LoaderOnward DEF IInv
<1> QED
  BY <1>1, <1>2 DEF CopyModules

\* The cloud-config is nothing that the other files depend on.
LEMMA SeedDataInv == IInv /\ seedData => IInv'
<1> SUFFICES ASSUME IInv, seedData PROVE IInv'
  OBVIOUS
<1>0. pc = "seed" /\ pc \in Mounted
  BY DEF seedData, Mounted
<1>b. /\ BootFs \in Disk \X Part /\ Boot \in FileSystem /\ Boot.kind # None
      /\ Target \in Disk /\ BootFs[2] \in Part /\ BootFs = <<Target, BootFs[2]>>
      /\ cmd \in CommandLines /\ pc # "idle" /\ Boot = fs[Target][BootFs[2]]
  BY <1>0, BootThere
<1>l. Generic /\ ~logged => Loaded(cmd.dev) /\ cmd.dev \in Disk
  BY <1>0, <1>b DEF IInv, Succeeding, Mounted, Position, Formats, Generic
<1>1. CASE Fails
  BY <1>0, <1>b, <1>1, FailsInv
<1>2. CASE Logs("append") /\ UNCHANGED fsVars
  <2>1. /\ logged' = TRUE /\ pc' = "append"
        /\ UNCHANGED <<firmware, fs, disk, mnt, cmd, file, unread, installed, unkept, asked>>
    BY <1>2 DEF Logs, Goto, machine, fsVars
  <2>2. TypeOK'
    BY <1>b, <2>1 DEF IInv, TypeOK, Mounted
  <2>3. Grounds'
    BY <2>1, GroundsKept DEF IInv
  <2>4. Boot' = Boot
    BY <2>1, BootKept
  <2> QED
    BY <1>0, <1>b, <2>1, <2>2, <2>3, <2>4, LoaderOnward DEF IInv
<1>3. ASSUME NEW place \in {GetStatePartition, mnt.base}, place # NoMount,
             fs' = [fs EXCEPT ![place[1]][place[2]].seed = @ \/ cmd.conf],
             Goto("append"), UNCHANGED <<disk, mnt, file>>, Quiet
      PROVE  IInv'
  <2>1. /\ pc' = "append"
        /\ UNCHANGED <<firmware, disk, mnt, cmd, file, logged, unread, installed, unkept, asked>>
    BY <1>3 DEF Quiet, Goto, machine, history
  <2>2. place \in Disk \X Part
    <3>1. mnt.base \in Place
      BY DEF IInv, TypeOK
    <3>2. GetStatePartition \in Place
      BY BlkidFinds DEF IInv, GetStatePartition, Place, Part
    <3> QED
      BY <1>3, <3>1, <3>2 DEF Place
  <2>3. PICK e \in Disk, q \in Part : place = <<e, q>>
    BY <2>2
  <2>4. fs' = [fs EXCEPT ![e][q].seed = @ \/ cmd.conf]
    BY <1>3, <2>3
  <2>5. fs \in [Disk -> [Part -> FileSystem]] /\ fs[e][q] \in FileSystem
    BY DEF IInv, TypeOK
  <2>6. fs'[e][q] = [fs[e][q] EXCEPT !.seed = @ \/ cmd.conf]
        /\ \A d \in Disk, p \in Part : d # e \/ p # q => fs'[d][p] = fs[d][p]
    BY <2>4, <2>5
  <2>7. fs'[e][q] \in FileSystem
    BY <2>5, <2>6 DEF FileSystem
  <2>8. fs' \in [Disk -> [Part -> FileSystem]]
    BY <2>4, <2>5, <2>7
  <2>9. \A d \in Disk, p \in Part :
           /\ fs'[d][p].kind = fs[d][p].kind /\ fs'[d][p].dirs = fs[d][p].dirs
           /\ fs'[d][p].glob = fs[d][p].glob /\ fs'[d][p].app = fs[d][p].app
           /\ fs'[d][p].cur = fs[d][p].cur /\ fs'[d][p].prev = fs[d][p].prev
           /\ fs'[d][p].files = fs[d][p].files /\ fs'[d][p].open = fs[d][p].open
    BY <2>5, <2>6 DEF FileSystem
  <2>10. TypeOK'
    BY <1>b, <2>1, <2>8 DEF IInv, TypeOK, Mounted
  <2>11. installed \subseteq Disk /\ StartPart \in Part
    BY DEF IInv, TypeOK, StartPart, Part
  <2>12. \A d \in Disk : StartFs(d) = fs[d][StartPart] /\ StartFs(d)' = fs'[d][StartPart]
    BY <2>1 DEF StartFs, StartPart, IsEFIFirmware
  <2>13. \A d \in Disk : Loaded(d) => Loaded(d)'
    BY <2>1, <2>9, <2>11, <2>12 DEF Loaded, Ready, IsEFIFirmware
  <2>14. NoEsp' /\ Kinds' /\ Asked'
    <3>1. StartPart' = StartPart /\ IsEFIFirmware' = IsEFIFirmware
      BY <2>1 DEF StartPart, IsEFIFirmware
    <3> QED
      BY <2>1, <2>9, <2>11, <3>1 DEF IInv, Grounds, NoEsp, Kinds, Asked, Part
  <2>15. AllSound'
    <3> SUFFICES ASSUME NEW d \in installed PROVE Sound(firmware, StartFs(d)') /\ Ready(d)'
      BY <2>1 DEF AllSound
    <3>1. d \in Disk /\ Sound(firmware, StartFs(d)) /\ Ready(d)
      BY <2>11 DEF IInv, Grounds, AllSound
    <3>2. Sound(firmware, StartFs(d)')
      BY <2>9, <2>11, <2>12, <3>1 DEF Sound
    <3> QED
      BY <2>1, <3>1, <3>2 DEF Ready, IsEFIFirmware
  <2>16. AllStanding'
    <3> SUFFICES ASSUME NEW d \in installed \ unkept PROVE Standing(firmware, StartFs(d)')
      BY <2>1 DEF AllStanding
    <3>1. d \in Disk /\ Standing(firmware, StartFs(d))
      BY <2>11 DEF IInv, Grounds, AllStanding
    <3>2. PICK b, c : b = StartFs(d) /\ c = StartFs(d)'
      OBVIOUS
    <3>3. b.cur = c.cur /\ b.prev = c.prev /\ b.files = c.files /\ b.open = c.open
      BY <2>9, <2>11, <2>12, <3>1, <3>2
    <3> QED
      BY <3>1, <3>2, <3>3 DEF Standing, Holds
  <2>17. Boot'.kind # None
    <3>1. Boot' = fs'[Target][BootFs[2]]
      BY <1>b, <2>1, BootKept DEF Boot, Target
    <3> QED
      BY <1>b, <2>9, <3>1
  <2> QED
    BY <1>0, <1>l, <2>1, <2>10, <2>13, <2>14, <2>15, <2>16, <2>17, LoaderOnward DEF IInv, Grounds
<1> QED
  BY <1>1, <1>2, <1>3 DEF seedData
-----------------------------------------------------------------------------
(* The files of the version.                                               *)

\* After the boot loader: a disk that the installer has made ready stays so.
LEMMA Onward ==
  ASSUME IInv, pc \in Mounted \ {"loader", "modules"}, pc' \in Mounted \ {"loader", "modules"},
         UNCHANGED <<firmware, mnt, disk, installed>>,
         cmd' \in CommandLines,
         /\ cmd'.type = cmd.type /\ cmd'.part = cmd.part /\ cmd'.dev = cmd.dev
         /\ cmd'.dist = cmd.dist,
         fs' \in [Disk -> [Part -> FileSystem]], asked' \in [Disk -> Parameters \cup {Broken}],
         file' \in 1..6, logged' = logged \/ logged' = TRUE, unread' = unread \/ unread' = TRUE,
         Boot'.kind = Boot.kind, Loader(firmware) \in Boot.files => Loader(firmware) \in Boot'.files,
         pc' = "write" => cmd.dist /\ file' <= 5
  PROVE  TypeOK' /\ Position' /\ (Generic' /\ ~logged' => Loaded(cmd.dev)')
<1>1. pc \in Mounted /\ pc' \in Mounted /\ Boot.kind # None
  BY BootThere
<1>2. logged' \in BOOLEAN /\ (logged => logged')
  <2>1. logged \in BOOLEAN
    BY DEF IInv, TypeOK
  <2>2. logged' = logged \/ logged' = TRUE
    OBVIOUS
  <2> QED
    BY ONLY <2>1, <2>2
<1>3. unread' \in BOOLEAN
  <2>1. unread \in BOOLEAN
    BY DEF IInv, TypeOK
  <2>2. unread' = unread \/ unread' = TRUE
    OBVIOUS
  <2> QED
    BY ONLY <2>1, <2>2
<1>4. TypeOK'
  BY <1>1, <1>2, <1>3 DEF IInv, TypeOK
<1>5. Position'
  BY <1>1, <1>2, PositionKept
<1>6. ASSUME Generic', ~logged' PROVE Loaded(cmd.dev)'
  <2>1. Generic /\ ~logged
    BY <1>2, <1>6 DEF Generic
  <2>2. BootFs = <<cmd.dev, StartPart>> /\ Loaded(cmd.dev)
    BY <1>1, <2>1 DEF IInv, Position, Succeeding
  <2>3. BootFs' = BootFs /\ StartPart' = StartPart
    BY BootKept DEF StartPart, IsEFIFirmware
  <2>4. Boot = StartFs(cmd.dev) /\ Boot' = StartFs(cmd.dev)'
    BY <2>2, <2>3 DEF Boot, StartFs
  <2> QED
    BY <2>2, <2>4 DEF Loaded, Ready, IsEFIFirmware
<1> QED
  BY <1>4, <1>5, <1>6

\* The grounds when it is no longer known what was asked for.
LEMMA AskedLost ==
  ASSUME Grounds, UNCHANGED <<firmware, fs, disk, installed, unkept>>,
         \A d \in Disk : asked'[d] # Broken => asked'[d] = asked[d]
  PROVE  Grounds'
<1>1. NoEsp' /\ Kinds' /\ Asked'
  BY DEF Grounds, NoEsp, Kinds, Asked, IsEFIFirmware, StartPart
<1>2. AllSound' /\ AllStanding'
  BY DEF Grounds, AllSound, AllStanding, Ready, IsEFIFirmware, StartFs, StartPart
<1> QED
  BY <1>1, <1>2 DEF Grounds

\* What was asked for is noted for the partition that starts the machine.
LEMMA AskedNoted ==
  ASSUME IInv, pc \in Mounted, NEW k \in Parameters \cup {Broken}, Asks(k)
  PROVE  /\ asked' \in [Disk -> Parameters \cup {Broken}]
         /\ \A d \in Disk : d # Target \/ BootFs[2] # StartPart => asked'[d] = asked[d]
         /\ BootFs[2] = StartPart => asked'[Target] = k
<1>1. Target \in Disk
  BY BootThere
<1>2. asked \in [Disk -> Parameters \cup {Broken}]
  BY DEF IInv, TypeOK
<1>3. CASE BootFs[2] = StartPart
  <2>1. asked' = [asked EXCEPT ![Target] = k]
    BY <1>3 DEF Asks
  <2> QED
    BY <1>1, <1>2, <1>3, <2>1
<1>4. CASE BootFs[2] # StartPart
  <2>1. asked' = [asked EXCEPT ![Target] = @]
    BY <1>4 DEF Asks
  <2> QED
    BY <1>1, <1>2, <1>4, <2>1
<1> QED
  BY <1>3, <1>4

\* The append file gets the parameters a, or none.
LEMMA AppendSet ==
  ASSUME IInv, pc \in Mounted, NEW a \in Parameters, NEW k \in Parameters \cup {Broken},
         k # Broken => k = a, SetBoot([Boot EXCEPT !.app = a]), Asks(k),
         UNCHANGED <<firmware, disk, mnt, installed, unkept>>
  PROVE  /\ Grounds' /\ fs' \in [Disk -> [Part -> FileSystem]]
         /\ Boot'.kind = Boot.kind /\ Boot'.files = Boot.files
<1>1. /\ BootFs \in Disk \X Part /\ Boot \in FileSystem /\ Boot.kind # None
  BY BootThere
<1>2. PICK b : b = [Boot EXCEPT !.app = a]
  OBVIOUS
<1>3. /\ b \in FileSystem /\ b.kind = Boot.kind /\ b.app = a /\ b.glob = Boot.glob
      /\ b.cur = Boot.cur /\ b.prev = Boot.prev /\ b.files = Boot.files /\ b.open = Boot.open
      /\ b.dirs = Boot.dirs
  BY <1>1, <1>2 DEF FileSystem
<1>4. Sane(b)
  <2>1. Sound(firmware, Boot) => Sound(firmware, b)
    BY <1>3 DEF Sound
  <2> QED
    BY <1>3, <2>1, BootSane DEF Sane
<1>5. Standing(firmware, Boot) => Standing(firmware, b)
  BY <1>3 DEF Standing, Holds
<1>6. SetBoot(b)
  BY <1>2
<1>7. /\ \A d \in Disk : d # Target \/ BootFs[2] # StartPart => asked'[d] = asked[d]
      /\ BootFs[2] = StartPart /\ asked'[Target] # Broken => b.app = asked'[Target]
  BY <1>3, AskedNoted
<1>8. TypeOK /\ Grounds
  BY DEF IInv
<1>9. Grounds'
  BY <1>1, <1>4, <1>5, <1>6, <1>7, <1>8, BootGrounds
<1>10. Boot' = b /\ fs' \in [Disk -> [Part -> FileSystem]]
  BY <1>1, <1>3, <1>6, <1>8, BootSet
<1> QED
  BY <1>3, <1>9, <1>10

\* The append file is read when nothing is given.
LEMMA ReadAppendInv == IInv /\ ReadAppend => IInv'
<1> SUFFICES ASSUME IInv, ReadAppend PROVE IInv'
  OBVIOUS
<1>0. /\ pc = "append" /\ pc \in Mounted \ {"loader", "modules"} /\ pc' = "rotate"
      /\ pc' \in Mounted \ {"loader", "modules"}
      /\ UNCHANGED <<firmware, fs, disk, mnt, file, logged, installed, unkept, asked>>
  BY DEF ReadAppend, Mounted, Laying, Goto, machine, fsVars
<1>b. Boot \in FileSystem /\ cmd \in CommandLines
  BY <1>0, BootThere
<1>c. BootFs' = BootFs /\ Target' = Target /\ Boot' = Boot
  BY <1>0, BootKept
<1>g. Grounds'
  BY <1>0, GroundsKept DEF IInv
<1>t. /\ fs' \in [Disk -> [Part -> FileSystem]] /\ asked' \in [Disk -> Parameters \cup {Broken}]
      /\ file' \in 1..6
  BY <1>0 DEF IInv, TypeOK
<1>1. CASE cmd' = [cmd EXCEPT !.app = Boot.app] /\ UNCHANGED unread
  <2>1. /\ cmd' \in CommandLines /\ cmd'.app = Boot.app /\ cmd'.type = cmd.type
        /\ cmd'.part = cmd.part /\ cmd'.dev = cmd.dev /\ cmd'.dist = cmd.dist
    <3>1. Boot.app \in Parameters
      BY <1>b DEF FileSystem
    <3> QED
      BY <1>1, <1>b, <3>1 DEF CommandLines
  <2>2. TypeOK' /\ Position' /\ (Generic' /\ ~logged' => Loaded(cmd.dev)')
    BY <1>0, <1>1, <1>c, <1>t, <2>1, Onward
  <2>3. Falling' /\ Succeeding'
    BY <1>0, <2>2 DEF Falling, Succeeding
  <2>4. BootFs[2] = StartPart /\ asked[Target] # Broken => Boot.app = asked[Target]
    BY <1>0, BootSane
  <2>5. StartPart' = StartPart
    BY <1>0 DEF StartPart, IsEFIFirmware
  <2>6. Appending'
    BY <1>0, <1>c, <2>1, <2>4, <2>5 DEF Appending
  <2> QED
    BY <1>g, <2>2, <2>3, <2>6 DEF IInv
<1>2. CASE unread' = TRUE /\ UNCHANGED cmd
  <2>1. TypeOK' /\ Position' /\ (Generic' /\ ~logged' => Loaded(cmd.dev)')
    BY <1>0, <1>2, <1>b, <1>c, <1>t, Onward
  <2>2. Falling' /\ Succeeding'
    BY <1>0, <2>1 DEF Falling, Succeeding
  <2>3. Appending'
    BY <1>0, <1>2 DEF Appending
  <2> QED
    BY <1>g, <2>1, <2>2, <2>3 DEF IInv
<1> QED
  BY <1>1, <1>2 DEF ReadAppend

\* The append file is truncated, or cannot be opened.
LEMMA OpenAppendInv == IInv /\ OpenAppend => IInv'
<1> SUFFICES ASSUME IInv, OpenAppend PROVE IInv'
  OBVIOUS
<1>0. /\ pc = "append" /\ pc \in Mounted \ {"loader", "modules"} /\ pc' \in {"keep", "rotate"}
      /\ pc' \in Mounted \ {"loader", "modules"} /\ Asks(Broken)
      /\ UNCHANGED <<firmware, disk, mnt, cmd, file, logged, unread, installed, unkept>>
  BY DEF OpenAppend, Mounted, Laying, Goto, machine
<1>b. Boot \in FileSystem /\ cmd \in CommandLines /\ pc \in Mounted
  BY <1>0, BootThere
<1>c. BootFs' = BootFs /\ Target' = Target /\ StartPart' = StartPart
  BY <1>0, BootKept DEF StartPart, IsEFIFirmware
<1>n. /\ asked' \in [Disk -> Parameters \cup {Broken}]
      /\ \A d \in Disk : d # Target \/ BootFs[2] # StartPart => asked'[d] = asked[d]
      /\ BootFs[2] = StartPart => asked'[Target] = Broken
  BY <1>0, <1>b, AskedNoted
<1>1. /\ Grounds' /\ fs' \in [Disk -> [Part -> FileSystem]]
      /\ Boot'.kind = Boot.kind /\ Boot'.files = Boot.files
  <2>1. CASE SetBoot([Boot EXCEPT !.app = NoAppend])
    <3>1. NoAppend \in Parameters
      BY CommandAssumption
    <3> QED
      BY <1>0, <1>b, <2>1, <3>1, AppendSet
  <2>2. CASE UNCHANGED fs
    <3>1. \A d \in Disk : asked'[d] # Broken => asked'[d] = asked[d]
      BY <1>n
    <3>2. Grounds'
      BY <1>0, <2>2, <3>1, AskedLost DEF IInv
    <3> QED
      BY <1>0, <2>2, <3>2, BootKept DEF IInv, TypeOK
  <2> QED
    BY <2>1, <2>2 DEF OpenAppend
<1>2. file' \in 1..6
  BY <1>0 DEF IInv, TypeOK
<1>3. TypeOK' /\ Position' /\ (Generic' /\ ~logged' => Loaded(cmd.dev)')
  BY <1>0, <1>1, <1>2, <1>b, <1>n, Onward
<1>4. Falling' /\ Succeeding'
  BY <1>0, <1>3 DEF Falling, Succeeding
<1>5. Appending'
  BY <1>0, <1>c, <1>n DEF Appending
<1> QED
  BY <1>1, <1>3, <1>4, <1>5 DEF IInv

\* The append file is complete, or stays truncated.
LEMMA WriteAppendInv == IInv /\ WriteAppend => IInv'
<1> SUFFICES ASSUME IInv, WriteAppend PROVE IInv'
  OBVIOUS
<1>0. /\ pc = "keep" /\ pc \in Mounted \ {"loader", "modules"} /\ pc' = "rotate"
      /\ pc' \in Mounted \ {"loader", "modules"}
      /\ UNCHANGED <<firmware, disk, mnt, cmd, file, logged, unread, installed, unkept>>
  BY DEF WriteAppend, Mounted, Laying, Goto, machine
<1>b. Boot \in FileSystem /\ cmd \in CommandLines /\ pc \in Mounted /\ cmd.app \in Parameters
  BY <1>0, BootThere DEF CommandLines
<1>c. BootFs' = BootFs /\ Target' = Target /\ StartPart' = StartPart
  BY <1>0, BootKept DEF StartPart, IsEFIFirmware
<1>1. /\ Grounds' /\ fs' \in [Disk -> [Part -> FileSystem]] /\ asked' \in [Disk -> Parameters \cup {Broken}]
      /\ Boot'.kind = Boot.kind /\ Boot'.files = Boot.files
      /\ BootFs[2] = StartPart => asked'[Target] \in {Broken, cmd.app}
  <2>1. CASE SetBoot([Boot EXCEPT !.app = cmd.app]) /\ Asks(cmd.app)
    <3>1. /\ asked' \in [Disk -> Parameters \cup {Broken}]
          /\ BootFs[2] = StartPart => asked'[Target] = cmd.app
      BY <1>b, <2>1, AskedNoted
    <3>2. /\ Grounds' /\ fs' \in [Disk -> [Part -> FileSystem]]
          /\ Boot'.kind = Boot.kind /\ Boot'.files = Boot.files
      BY <1>0, <1>b, <2>1, AppendSet
    <3> QED
      BY <3>1, <3>2
  <2>2. CASE UNCHANGED <<fs, asked>>
    <3>1. Grounds'
      BY <1>0, <2>2, GroundsKept DEF IInv
    <3>2. BootFs[2] = StartPart => asked[Target] = Broken
      BY <1>0 DEF IInv, Appending
    <3> QED
      BY <1>0, <2>2, <3>1, <3>2, BootKept DEF IInv, TypeOK
  <2> QED
    BY <2>1, <2>2 DEF WriteAppend
<1>2. file' \in 1..6
  BY <1>0 DEF IInv, TypeOK
<1>3. TypeOK' /\ Position' /\ (Generic' /\ ~logged' => Loaded(cmd.dev)')
  BY <1>0, <1>1, <1>2, <1>b, Onward
<1>4. Falling' /\ Succeeding'
  BY <1>0, <1>3 DEF Falling, Succeeding
<1>5. Appending'
  BY <1>0, <1>c, <1>1 DEF Appending
<1> QED
  BY <1>1, <1>3, <1>4, <1>5 DEF IInv

\* From the append file on the parameters stay what they are.
LEMMA StillAppending ==
  ASSUME IInv, pc \in Laying, pc' \in Laying, UNCHANGED <<firmware, mnt, asked, unread, cmd>>,
         pc' = "ok" => Boot'.glob \in {None, cmd.app}
  PROVE  Appending'
<1>1. BootFs' = BootFs /\ Target' = Target /\ StartPart' = StartPart
  BY BootKept DEF StartPart, IsEFIFirmware
<1> QED
  BY <1>1 DEF IInv, Appending, Laying

\* The installer's disk has an entry.
LEMMA StandingHere ==
  ASSUME IInv, pc \in Mounted, BootFs[2] = StartPart, Target \in installed \ unkept
  PROVE  Standing(firmware, Boot)
<1>1. Boot = StartFs(Target)
  BY BootSane
<1> QED
  BY <1>1 DEF IInv, Grounds, AllStanding

\* The previous entry goes only when the current one boots, or when it was left
\* by a run cut short.
LEMMA RemovePreviousInv == IInv /\ RemovePrevious => IInv'
<1> SUFFICES ASSUME IInv, RemovePrevious PROVE IInv'
  OBVIOUS
<1>0. pc = "rotate" /\ pc \in Mounted \ {"loader", "modules"} /\ pc \in Laying /\ pc \in Mounted
  BY DEF RemovePrevious, Mounted, Laying
<1>b. Boot \in FileSystem /\ cmd \in CommandLines /\ pc # "idle"
  BY <1>0, BootThere
<1>1. CASE Fails
  BY <1>b, <1>1, FailsInv
<1>2. CASE /\ SetBoot([Boot EXCEPT !.prev = NoEntry])
           /\ unkept' = IF CurrentBoots THEN unkept ELSE unkept \cup {Target}
           /\ pc' = "rename"
           /\ UNCHANGED <<firmware, disk, mnt, cmd, file, logged, unread, installed, asked>>
  <2>1. PICK b : b = [Boot EXCEPT !.prev = NoEntry]
    OBVIOUS
  <2>2. NoEntry \in Entry
    BY DEF NoEntry, Entry
  <2>3. /\ b \in FileSystem /\ b.kind = Boot.kind /\ b.app = Boot.app /\ b.glob = Boot.glob
        /\ b.cur = Boot.cur /\ b.files = Boot.files /\ b.open = Boot.open /\ b.dirs = Boot.dirs
    BY <1>b, <2>1, <2>2 DEF FileSystem
  <2>4. Sane(b)
    <3>1. Sound(firmware, Boot) => Sound(firmware, b)
      BY <2>3 DEF Sound
    <3> QED
      BY <1>0, <2>3, <3>1, BootSane DEF Sane
  <2>5. SetBoot(b) /\ unkept \subseteq unkept' /\ (Target \in unkept' \/ CurrentBoots)
    BY <1>2, <2>1
  <2>6. Target \notin unkept' => Standing(firmware, b)
    BY <2>3, <2>5 DEF Standing, Holds, CurrentBoots
  <2>7. /\ Grounds' /\ fs' \in [Disk -> [Part -> FileSystem]]
        /\ Boot' = b /\ BootFs' = BootFs /\ Target' = Target
    BY <1>0, <1>2, <2>3, <2>4, <2>5, <2>6, BootStep
  <2>8. asked' \in [Disk -> Parameters \cup {Broken}] /\ file' \in 1..6
    BY <1>2 DEF IInv, TypeOK
  <2>9. pc' \in Mounted \ {"loader", "modules"} /\ pc' \in Laying
    BY <1>2 DEF Mounted, Laying
  <2>10. TypeOK' /\ Position' /\ (Generic' /\ ~logged' => Loaded(cmd.dev)')
    BY <1>0, <1>2, <1>b, <2>3, <2>7, <2>8, <2>9, Onward
  <2>11. Falling'
    <3>1. CurrentBoots => CurrentBoots'
      BY <1>2, <2>3, <2>7 DEF CurrentBoots
    <3> QED
      BY <1>2, <2>5, <2>7, <3>1 DEF Falling
  <2>12. Succeeding'
    BY <1>2, <2>10 DEF Succeeding
  <2>13. Appending'
    BY <1>0, <1>2, <2>9, StillAppending
  <2> QED
    BY <2>7, <2>10, <2>11, <2>12, <2>13 DEF IInv
<1>3. CASE /\ ~(Boot.cur # NoEntry /\ Different) /\ pc' = "copy" /\ file' = 1
           /\ UNCHANGED <<firmware, disk, fs, mnt, cmd, logged, unread, installed, unkept, asked>>
  <2>1. Grounds'
    BY <1>3, GroundsKept DEF IInv
  <2>2. Boot' = Boot /\ BootFs' = BootFs /\ Target' = Target /\ StartPart' = StartPart
    BY <1>3, BootKept DEF StartPart, IsEFIFirmware
  <2>3. fs' \in [Disk -> [Part -> FileSystem]] /\ asked' \in [Disk -> Parameters \cup {Broken}] /\ file' \in 1..6
    BY <1>3 DEF IInv, TypeOK
  <2>4. pc' \in Mounted \ {"loader", "modules"} /\ pc' \in Laying
    BY <1>3 DEF Mounted, Laying
  <2>5. TypeOK' /\ Position' /\ (Generic' /\ ~logged' => Loaded(cmd.dev)')
    BY <1>0, <1>3, <1>b, <2>2, <2>3, <2>4, Onward
  <2>6. ASSUME cmd.dist, BootFs[2] = StartPart, Target \in installed \ unkept PROVE Held
    <3>1. Standing(firmware, Boot)
      BY <1>0, <2>6, StandingHere
    <3>2. Boot.cur \in {NoEntry, NewEntry}
      BY <1>3, <2>6 DEF Different
    <3>3. cmd.ver \in Version /\ NewEntry = <<cmd.ver, Layout>>
      BY <1>b DEF CommandLines, NewEntry
    <3>4. CurrentCfg \notin Boot.open
      <4>1. CutEntry # NoEntry /\ CutEntry # NewEntry
        BY <3>3, CommandAssumption DEF CutEntry, NoEntry, None, Broken
      <4> QED
        BY <1>0, <3>2, <4>1, BootSane
    <3>5. ~Holds(firmware, Boot, NoEntry)
      BY CommandAssumption DEF Holds, NoEntry
    <3> QED
      BY <3>1, <3>2, <3>4, <3>5 DEF Standing, Held
  <2>7. Falling'
    <3>1. Layout' = Layout
      BY <1>3, <2>2, LayoutKept
    <3>2. Held => Held'
      BY <1>3, <2>2, <3>1 DEF Held, NewEntry
    <3> QED
      BY <1>3, <2>2, <2>6, <3>2 DEF Falling
  <2>8. Succeeding'
    BY <1>3, <2>5 DEF Succeeding, Copied
  <2>9. Appending'
    BY <1>0, <1>3, <2>4, StillAppending
  <2> QED
    BY <2>1, <2>5, <2>7, <2>8, <2>9 DEF IInv
<1> QED
  BY <1>1, <1>2, <1>3 DEF RemovePrevious, Goto, machine

\* The names of the files are different ones.
LEMMA NamesDiffer ==
  ASSUME NEW w
  PROVE  /\ CurrentCfg # GlobalCfg /\ Menu(w) # CurrentCfg /\ Menu(w) # GlobalCfg
         /\ \A v : CurrentCfg \notin Images(v) /\ GlobalCfg \notin Images(v)
BY DEF CurrentCfg, GlobalCfg, Menu, Images

\* The current entry becomes the previous one, or stays to be overwritten.
LEMMA RenameCurrentInv == IInv /\ RenameCurrent => IInv'
<1> SUFFICES ASSUME IInv, RenameCurrent PROVE IInv'
  OBVIOUS
<1>0. /\ pc = "rename" /\ pc \in Mounted \ {"loader", "modules"} /\ pc \in Mounted /\ pc \in Laying
      /\ pc' = "copy" /\ pc' \in Mounted \ {"loader", "modules"} /\ pc' \in Laying /\ file' = 1
      /\ UNCHANGED <<firmware, disk, mnt, cmd, logged, unread, installed, asked>>
  BY DEF RenameCurrent, Quiet, Goto, machine, history, Mounted, Laying
<1>b. Boot \in FileSystem /\ cmd \in CommandLines
  BY <1>0, BootThere
<1>t. asked' \in [Disk -> Parameters \cup {Broken}] /\ file' \in 1..6
  BY <1>0 DEF IInv, TypeOK
<1>a. Appending'
  BY <1>0, StillAppending
<1>1. CASE SetBoot([Boot EXCEPT !.prev = Boot.cur, !.cur = NoEntry, !.open = @ \ {CurrentCfg}])
           /\ UNCHANGED unkept
  <2>1. PICK o : o = Boot.open \ {CurrentCfg}
    OBVIOUS
  <2>2. PICK b : b = [Boot EXCEPT !.prev = Boot.cur, !.cur = NoEntry, !.open = o]
    OBVIOUS
  <2>3. NoEntry \in Entry /\ o \in SUBSET (FileName \cup {CurrentCfg, GlobalCfg})
    BY <1>b, <2>1 DEF NoEntry, Entry, FileSystem
  <2>4. /\ b \in FileSystem /\ b.kind = Boot.kind /\ b.app = Boot.app /\ b.glob = Boot.glob
        /\ b.cur = NoEntry /\ b.prev = Boot.cur /\ b.files = Boot.files /\ b.open = o
        /\ b.dirs = Boot.dirs
    BY <1>b, <2>2, <2>3 DEF FileSystem
  <2>5. Sane(b)
    <3>1. Sound(firmware, Boot) => Sound(firmware, b)
      BY <2>1, <2>4, NamesDiffer DEF Sound
    <3>2. CurrentCfg \notin b.open /\ (GlobalCfg \in b.open => GlobalCfg \in Boot.open)
      BY <2>1, <2>4
    <3> QED
      BY <1>0, <2>4, <3>1, <3>2, BootSane DEF Sane
  <2>6. Target \in unkept \/ Holds(firmware, b, b.prev)
    <3>1. Target \in unkept \/ CurrentBoots
      BY <1>0 DEF IInv, Falling
    <3> QED
      BY <2>4, <3>1 DEF Holds, CurrentBoots
  <2>7. /\ SetBoot(b) /\ UNCHANGED unkept
    BY <1>1, <2>1, <2>2
  <2>8. /\ Grounds' /\ fs' \in [Disk -> [Part -> FileSystem]]
        /\ Boot' = b /\ BootFs' = BootFs /\ Target' = Target
    BY <1>0, <2>4, <2>5, <2>6, <2>7, BootStep DEF Standing
  <2>9. TypeOK' /\ Position' /\ (Generic' /\ ~logged' => Loaded(cmd.dev)')
    BY <1>0, <1>b, <1>t, <2>4, <2>8, Onward
  <2>10. Falling'
    <3>1. Target' \notin unkept' => Held'
      BY <1>0, <2>6, <2>7, <2>8 DEF Held
    <3> QED
      BY <1>0, <3>1 DEF Falling
  <2>11. Succeeding'
    BY <1>0, <2>9 DEF Succeeding, Copied
  <2> QED
    BY <1>a, <2>8, <2>9, <2>10, <2>11 DEF IInv
<1>2. CASE unkept' = unkept \cup {Target} /\ UNCHANGED fs
  <2>1. Grounds'
    BY <1>0, <1>2, GroundsKept DEF IInv
  <2>2. Boot' = Boot /\ BootFs' = BootFs /\ Target' = Target
    BY <1>0, <1>2, BootKept
  <2>3. fs' \in [Disk -> [Part -> FileSystem]]
    BY <1>2 DEF IInv, TypeOK
  <2>4. TypeOK' /\ Position' /\ (Generic' /\ ~logged' => Loaded(cmd.dev)')
    BY <1>0, <1>b, <1>t, <2>2, <2>3, Onward
  <2>5. Falling'
    BY <1>0, <1>2, <2>2 DEF Falling
  <2>6. Succeeding'
    BY <1>0, <2>4 DEF Succeeding, Copied
  <2> QED
    BY <1>a, <2>1, <2>4, <2>5, <2>6 DEF IInv
<1> QED
  BY <1>1, <1>2 DEF RenameCurrent, Quiet, history

\* What a step owes to a boot directory that becomes b while the files are
\* copied: nothing that an entry may need is lost, it is whole or open.
Carries(b) ==
    /\ Sane(b) /\ b.app = Boot.app /\ b.prev = Boot.prev
    /\ Loader(firmware) \in Boot.files => Loader(firmware) \in b.files
    /\ (Boot.files \cup Boot.open) \ {CurrentCfg, GlobalCfg} \subseteq b.files \cup b.open
    /\ "efi" \in Boot.dirs => "efi" \in b.dirs
    /\ "efi" \in b.dirs => "efi" \in Boot.dirs \/ Efi

\* The same, field by field.
LEMMA CarriesFields ==
  ASSUME IInv, pc \in Mounted, NEW b \in FileSystem,
         b.kind = Boot.kind, b.app = Boot.app, b.prev = Boot.prev,
         Loader(firmware) \in Boot.files => Loader(firmware) \in b.files,
         (Boot.files \cup Boot.open) \ {CurrentCfg, GlobalCfg} \subseteq b.files \cup b.open,
         CurrentCfg \in b.open => b.cur = CutEntry,
         GlobalCfg \in b.open => b.glob # None,
         Boot.glob \in Parameters \/ GlobalCfg \in Boot.open
            => b.glob \in Parameters \/ GlobalCfg \in b.open,
         b.dirs = Boot.dirs \/ b.dirs = Boot.dirs \cup {Layout}
  PROVE  Carries(b)
<1>1. Sound(firmware, Boot) => Sound(firmware, b)
  <2>1. Menu(firmware) \notin {CurrentCfg, GlobalCfg}
    BY NamesDiffer
  <2> QED
    BY <2>1 DEF Sound
<1>2. Layout = "efi" => Efi
  BY DEF Layout
<1>3. Layout = "efi" => IsEFIFirmware
  BY LayoutIsFirmware DEF IsEFIFirmware
<1>4. "efi" \in b.dirs => "efi" \in Boot.dirs \/ Layout = "efi"
  OBVIOUS
<1>5. "efi" \in Boot.dirs => "efi" \in b.dirs
  OBVIOUS
<1>6. Sane(b)
  BY <1>1, <1>3, <1>4 DEF Sane
<1> QED
  BY <1>2, <1>4, <1>5, <1>6 DEF Carries

\* An entry that has its files keeps them.
LEMMA HoldsOn ==
  ASSUME NEW b, Carries(b), NEW w, NEW e, Holds(w, Boot, e)
  PROVE  Holds(w, b, e)
<1>1. PICK v \in Version : e = <<v, w>> /\ Images(v) \subseteq Boot.files \cup Boot.open
  BY DEF Holds
<1>2. CurrentCfg \notin Images(v) /\ GlobalCfg \notin Images(v)
  BY NamesDiffer
<1>3. Images(v) \subseteq b.files \cup b.open
  BY <1>1, <1>2 DEF Carries
<1> QED
  BY <1>1, <1>3 DEF Holds

\* A step in which linux-current.cfg stays as it is leaves an entry.
LEMMA StandsOn ==
  ASSUME NEW b, Carries(b), b.cur = Boot.cur, CurrentCfg \in Boot.open => CurrentCfg \in b.open,
         NEW w, Standing(w, Boot)
  PROVE  Standing(w, b)
BY HoldsOn DEF Standing, Carries

\* What a step does that carries the boot directory on.
LEMMA CarryStep ==
  ASSUME IInv, pc \in Mounted, NEW b, SetBoot(b), Carries(b),
         UNCHANGED <<firmware, disk, mnt, cmd, installed, unkept, asked>>,
         /\ Target \in installed \ unkept /\ BootFs[2] = StartPart /\ Standing(firmware, Boot)
         => Standing(firmware, b)
  PROVE  /\ Grounds' /\ fs' \in [Disk -> [Part -> FileSystem]]
         /\ Boot' = b /\ BootFs' = BootFs /\ Target' = Target /\ StartPart' = StartPart
         /\ Layout' = Layout /\ NewEntry' = NewEntry /\ (Held => Held')
<1>1. Sane(b) /\ b.app = Boot.app /\ b.prev = Boot.prev
  BY DEF Carries
<1>2. /\ Grounds' /\ fs' \in [Disk -> [Part -> FileSystem]]
      /\ Boot' = b /\ BootFs' = BootFs /\ Target' = Target
      /\ \A d \in Disk, p \in Part : fs'[d][p].kind = fs[d][p].kind
  BY <1>1, BootStep
<1>3. Layout' = Layout
  BY <1>2, LayoutKept DEF Carries
<1>4. NewEntry' = NewEntry
  BY <1>3 DEF NewEntry
<1>5. Held => Held'
  <2>1. Held => Holds(firmware, b, b.prev) \/ Holds(firmware, b, NewEntry)
    BY <1>1, HoldsOn DEF Held
  <2>2. Held' <=> Holds(firmware, b, b.prev) \/ Holds(firmware, b, NewEntry)
    BY <1>2, <1>4 DEF Held
  <2> QED
    BY <2>1, <2>2
<1>6. StartPart' = StartPart
  BY DEF StartPart, IsEFIFirmware
<1> QED
  BY <1>2, <1>3, <1>4, <1>5, <1>6

\* The boot directory stays as it is.
LEMMA NoCarry ==
  ASSUME IInv, pc \in Mounted, UNCHANGED fs
  PROVE  SetBoot(Boot) /\ Carries(Boot)
<1>1. /\ BootFs = <<Target, BootFs[2]>> /\ Target \in Disk /\ BootFs[2] \in Part
      /\ Boot = fs[Target][BootFs[2]] /\ Boot \in FileSystem
  BY BootThere
<1>2. fs \in [Disk -> [Part -> FileSystem]]
  BY DEF IInv, TypeOK
<1>3. SetBoot(Boot)
  <2>1. PICK e \in Disk, q \in Part : BootFs = <<e, q>> /\ Boot = fs[e][q]
    BY <1>1
  <2>2. fs = [fs EXCEPT ![e][q] = fs[e][q]]
    BY <1>2
  <2> QED
    BY <2>1, <2>2 DEF SetBoot
<1>4. Carries(Boot)
  BY <1>1, BootSane, CarriesFields
<1> QED
  BY <1>3, <1>4

\* A step that copies a file: what has to be shown of it.
LEMMA CopyOnward ==
  ASSUME IInv, pc \in {"copy", "write"}, pc' \in {"copy", "write"}, NEW b, SetBoot(b), Carries(b),
         UNCHANGED <<firmware, disk, mnt, cmd, unread, installed, unkept, asked>>,
         file' \in 1..6, logged' = logged \/ logged' = TRUE,
         pc' = "write" => cmd.dist /\ file' <= 5,
         /\ Target \in installed \ unkept /\ BootFs[2] = StartPart /\ Standing(firmware, Boot)
         => Standing(firmware, b),
         ~logged' => Copied(b, file')
  PROVE  IInv'
<1>1. /\ pc \in Mounted /\ pc' \in Mounted /\ pc \in Laying /\ pc' \in Laying
      /\ pc \in Mounted \ {"loader", "modules"} /\ pc' \in Mounted \ {"loader", "modules"}
  BY DEF Mounted, Laying
<1>2. cmd \in CommandLines
  BY <1>1, BootThere
<1>3. /\ Grounds' /\ fs' \in [Disk -> [Part -> FileSystem]]
      /\ Boot' = b /\ BootFs' = BootFs /\ Target' = Target /\ StartPart' = StartPart
      /\ Layout' = Layout /\ NewEntry' = NewEntry /\ (Held => Held')
  BY <1>1, CarryStep
<1>4. /\ b.kind = Boot.kind /\ (Loader(firmware) \in Boot.files => Loader(firmware) \in b.files)
  BY DEF Carries, Sane
<1>5. asked' \in [Disk -> Parameters \cup {Broken}]
  BY DEF IInv, TypeOK
<1>6. TypeOK' /\ Position' /\ (Generic' /\ ~logged' => Loaded(cmd.dev)')
  BY <1>1, <1>2, <1>3, <1>4, <1>5, Onward
<1>7. Falling'
  BY <1>3 DEF IInv, Falling
<1>8. Succeeding'
  <2>1. Copied(b, file') => Copied(Boot, file)'
    BY <1>3 DEF Copied
  <2> QED
    BY <1>6, <2>1 DEF Succeeding
<1>9. Appending'
  BY <1>1, StillAppending
<1> QED
  BY <1>3, <1>6, <1>7, <1>8, <1>9 DEF IInv

\* The names of the files that are copied, in their order.
LEMMA NameOf ==
  /\ Dist[1] = "global.cfg" /\ Dist[2] = "initrd" /\ Dist[3] = "linux-current.cfg"
  /\ Dist[4] = "vmlinuz" /\ Dist[5] = "syslinux.cfg" /\ Len(Dist) = 5
  /\ Name(2) = <<"initrd", cmd.ver>> /\ Name(4) = <<"vmlinuz", Vmlinuz[cmd.ver]>>
  /\ Name(5) = Menu(Layout)
BY DEF Dist, Name

\* A kernel, an initrd or a menu is not another file.
LEMMA NameIs ==
  ASSUME cmd \in CommandLines, NEW i \in {2, 4, 5}
  PROVE  /\ Name(i) \in FileName /\ Name(i) # Loader(firmware)
         /\ Name(i) # CurrentCfg /\ Name(i) # GlobalCfg
         /\ Name(4) # Name(2) /\ Name(5) # Name(2) /\ Name(5) # Name(4)
<1>1. cmd.ver \in Version /\ Layout \in Layouts
  BY DEF CommandLines, Layout, Layouts
<1>2. Name(2) \in FileName /\ Name(4) \in FileName
  BY <1>1, NameOf, Names DEF Images
<1>3. Name(5) \in FileName
  BY <1>1, NameOf, Names
<1>4. /\ Name(i) # Loader(firmware) /\ Name(i) # CurrentCfg /\ Name(i) # GlobalCfg
      /\ Name(4) # Name(2) /\ Name(5) # Name(2) /\ Name(5) # Name(4)
  BY NameOf DEF Loader, Menu, CurrentCfg, GlobalCfg
<1> QED
  BY <1>2, <1>3, <1>4

\* A file that is cut was whole, and is open, or was not.
LEMMA CutFile ==
  ASSUME IInv, pc \in Mounted, NEW i \in 1..5, i = 1 => Boot.glob = None, NEW b, b = Cut(i)
  PROVE  /\ Carries(b)
         /\ i = 1 => b.glob = Broken
         /\ i # 1 => b.glob = Boot.glob
         /\ i # 3 => b.cur = Boot.cur
         /\ CurrentCfg \in Boot.open => CurrentCfg \in b.open
         /\ i = 3 /\ Boot.cur[1] \in Version => CurrentCfg \in b.open
         /\ b.files = Boot.files \/ (i \in {2, 4, 5} /\ b.files = Boot.files \ {Name(i)})
<1>b. Boot \in FileSystem /\ cmd \in CommandLines
  BY BootThere
<1>s. /\ CurrentCfg \in Boot.open => Boot.cur = CutEntry
      /\ GlobalCfg \in Boot.open => Boot.glob # None
  BY BootSane
<1>1. CASE i = 1
  <2>1. b = [Boot EXCEPT !.glob = Broken]
    BY <1>1, NameOf DEF Cut
  <2>2. /\ b \in FileSystem /\ b.kind = Boot.kind /\ b.app = Boot.app /\ b.prev = Boot.prev
        /\ b.cur = Boot.cur /\ b.files = Boot.files /\ b.open = Boot.open /\ b.dirs = Boot.dirs
        /\ b.glob = Broken
    BY <1>b, <2>1 DEF FileSystem
  <2>3. Broken # None /\ Boot.glob \notin Parameters /\ GlobalCfg \notin Boot.open
    BY <1>1, <1>s, CommandAssumption DEF Broken, None
  <2>4. Carries(b)
    BY <1>s, <2>2, <2>3, CarriesFields
  <2> QED
    BY <1>1, <2>2, <2>4
<1>2. CASE i \in {2, 4, 5}
  <2>1. PICK f : f = Boot.files \ {Name(i)}
    OBVIOUS
  <2>2. PICK o : o = Boot.open \cup ({Name(i)} \cap Boot.files)
    OBVIOUS
  <2>3. PICK l : l = IF i = 5 THEN Boot.dirs \cup {Layout} ELSE Boot.dirs
    OBVIOUS
  <2>4. b = [Boot EXCEPT !.files = f, !.open = o, !.dirs = l]
    BY <1>2, <2>1, <2>2, <2>3, NameOf DEF Cut
  <2>5. /\ f \in SUBSET FileName /\ o \in SUBSET (FileName \cup {CurrentCfg, GlobalCfg})
        /\ l \in SUBSET Layouts
    BY <1>b, <2>1, <2>2, <2>3 DEF FileSystem, Layout, Layouts
  <2>6. /\ b \in FileSystem /\ b.kind = Boot.kind /\ b.app = Boot.app /\ b.prev = Boot.prev
        /\ b.cur = Boot.cur /\ b.files = f /\ b.open = o /\ b.dirs = l /\ b.glob = Boot.glob
    BY <1>b, <2>4, <2>5 DEF FileSystem
  <2>7. /\ Name(i) # Loader(firmware) /\ Name(i) # CurrentCfg /\ Name(i) # GlobalCfg
    BY <1>2, <1>b, NameIs
  <2>8. /\ (CurrentCfg \in o <=> CurrentCfg \in Boot.open)
        /\ (GlobalCfg \in o <=> GlobalCfg \in Boot.open)
        /\ Loader(firmware) \in Boot.files => Loader(firmware) \in f
        /\ (Boot.files \cup Boot.open) \subseteq f \cup o
    BY <2>1, <2>2, <2>7
  <2>9. Carries(b)
    BY <1>s, <2>3, <2>6, <2>8, CarriesFields
  <2> QED
    BY <1>2, <2>1, <2>6, <2>8, <2>9
<1>3. CASE i = 3
  <2>1. PICK o : o = IF Boot.cur[1] \in Version THEN Boot.open \cup {CurrentCfg} ELSE Boot.open
    OBVIOUS
  <2>2. b = [Boot EXCEPT !.cur = CutEntry, !.open = o]
    BY <1>3, <2>1, NameOf DEF Cut
  <2>3. CutEntry \in Entry /\ o \in SUBSET (FileName \cup {CurrentCfg, GlobalCfg})
    BY <1>b, <2>1 DEF FileSystem, CutEntry, Entry
  <2>4. /\ b \in FileSystem /\ b.kind = Boot.kind /\ b.app = Boot.app /\ b.prev = Boot.prev
        /\ b.cur = CutEntry /\ b.files = Boot.files /\ b.open = o /\ b.dirs = Boot.dirs
        /\ b.glob = Boot.glob
    BY <1>b, <2>2, <2>3 DEF FileSystem
  <2>5. /\ (GlobalCfg \in o <=> GlobalCfg \in Boot.open) /\ Boot.open \subseteq o
        /\ Boot.cur[1] \in Version => CurrentCfg \in o
    BY <2>1, NamesDiffer
  <2>6. Carries(b)
    BY <1>s, <2>4, <2>5, CarriesFields
  <2> QED
    BY <1>3, <2>4, <2>5, <2>6
<1> QED
  BY <1>1, <1>2, <1>3

\* A file that is written is whole.
LEMMA WholeFile ==
  ASSUME IInv, pc \in Mounted, NEW i \in 1..5, NEW b, b = Whole(i)
  PROVE  /\ Carries(b)
         /\ i = 1 => b.glob = NoAppend
         /\ i # 1 => b.glob = Boot.glob
         /\ i = 3 => b.cur = NewEntry
         /\ i # 3 => b.cur = Boot.cur /\ (CurrentCfg \in Boot.open => CurrentCfg \in b.open)
         /\ Boot.files \subseteq b.files
         /\ i \in {2, 4, 5} => Name(i) \in b.files
<1>b. Boot \in FileSystem /\ cmd \in CommandLines
  BY BootThere
<1>s. /\ CurrentCfg \in Boot.open => Boot.cur = CutEntry
      /\ GlobalCfg \in Boot.open => Boot.glob # None
  BY BootSane
<1>1. CASE i = 1
  <2>1. b = [Boot EXCEPT !.glob = NoAppend]
    BY <1>1, NameOf DEF Whole
  <2>2. /\ b \in FileSystem /\ b.kind = Boot.kind /\ b.app = Boot.app /\ b.prev = Boot.prev
        /\ b.cur = Boot.cur /\ b.files = Boot.files /\ b.open = Boot.open /\ b.dirs = Boot.dirs
        /\ b.glob = NoAppend
    BY <1>b, <2>1, CommandAssumption DEF FileSystem
  <2>3. NoAppend \in Parameters /\ NoAppend # None
    BY CommandAssumption
  <2>4. Carries(b)
    BY <1>s, <2>2, <2>3, CarriesFields
  <2> QED
    BY <1>1, <2>2, <2>4
<1>2. CASE i \in {2, 4, 5}
  <2>1. PICK f : f = Boot.files \cup {Name(i)}
    OBVIOUS
  <2>2. PICK o : o = Boot.open \ {Name(i)}
    OBVIOUS
  <2>4. b = [Boot EXCEPT !.files = f, !.open = o]
    BY <1>2, <2>1, <2>2, NameOf DEF Whole
  <2>7. /\ Name(i) \in FileName /\ Name(i) # CurrentCfg /\ Name(i) # GlobalCfg
    BY <1>2, <1>b, NameIs
  <2>5. f \in SUBSET FileName /\ o \in SUBSET (FileName \cup {CurrentCfg, GlobalCfg})
    BY <1>b, <2>1, <2>2, <2>7 DEF FileSystem
  <2>6. /\ b \in FileSystem /\ b.kind = Boot.kind /\ b.app = Boot.app /\ b.prev = Boot.prev
        /\ b.cur = Boot.cur /\ b.files = f /\ b.open = o /\ b.dirs = Boot.dirs
        /\ b.glob = Boot.glob
    BY <1>b, <2>4, <2>5 DEF FileSystem
  <2>8. /\ (CurrentCfg \in o <=> CurrentCfg \in Boot.open)
        /\ (GlobalCfg \in o <=> GlobalCfg \in Boot.open)
        /\ Boot.files \subseteq f /\ Name(i) \in f
        /\ (Boot.files \cup Boot.open) \subseteq f \cup o
    BY <2>1, <2>2, <2>7
  <2>9. Carries(b)
    BY <1>s, <2>6, <2>8, CarriesFields
  <2> QED
    BY <1>2, <2>6, <2>8, <2>9
<1>3. CASE i = 3
  <2>1. PICK o : o = Boot.open \ {CurrentCfg}
    OBVIOUS
  <2>2. b = [Boot EXCEPT !.cur = NewEntry, !.open = o]
    BY <1>3, <2>1, NameOf DEF Whole
  <2>3. NewEntry \in Entry /\ o \in SUBSET (FileName \cup {CurrentCfg, GlobalCfg})
    <3>1. cmd.ver \in Version /\ Layout \in Layouts
      BY <1>b DEF CommandLines, Layout, Layouts
    <3> QED
      BY <1>b, <2>1, <3>1 DEF FileSystem, NewEntry, Entry
  <2>4. /\ b \in FileSystem /\ b.kind = Boot.kind /\ b.app = Boot.app /\ b.prev = Boot.prev
        /\ b.cur = NewEntry /\ b.files = Boot.files /\ b.open = o /\ b.dirs = Boot.dirs
        /\ b.glob = Boot.glob
    BY <1>b, <2>2, <2>3 DEF FileSystem
  <2>5. /\ (GlobalCfg \in o <=> GlobalCfg \in Boot.open) /\ Boot.open \ {CurrentCfg} \subseteq o
        /\ CurrentCfg \notin o
    BY <2>1, NamesDiffer
  <2>6. Carries(b)
    BY <1>s, <2>4, <2>5, CarriesFields
  <2> QED
    BY <1>3, <2>4, <2>6
<1> QED
  BY <1>1, <1>2, <1>3

\* A file is opened for writing, is found, or cannot be opened.
LEMMA OpenFileInv == IInv /\ OpenFile => IInv'
<1> SUFFICES ASSUME IInv, OpenFile PROVE IInv'
  OBVIOUS
<1>0. /\ pc = "copy" /\ cmd.dist /\ pc \in Mounted /\ pc \in {"copy", "write"}
      /\ UNCHANGED <<firmware, disk, mnt, cmd, unread, installed, unkept, asked>>
  BY DEF OpenFile, Copying, Quiet, history, fsVars, machine, Mounted, Laying
<1>i. file \in 1..5
  BY NameOf DEF OpenFile, Copying, IInv, TypeOK
<1>b. Boot \in FileSystem /\ cmd \in CommandLines
  BY <1>0, BootThere
<1>s. ~logged => Copied(Boot, file)
  BY <1>0 DEF IInv, Succeeding
<1>1. CASE /\ Dist[file] = "global.cfg" /\ Boot.glob # None
           /\ file' = file + 1 /\ UNCHANGED <<pc, fs, logged>>
  <2>1. file = 1 /\ file' = 2
    BY <1>1, <1>i, NameOf
  <2>2. SetBoot(Boot) /\ Carries(Boot)
    BY <1>0, <1>1, NoCarry
  <2>3. Copied(Boot, file')
    BY <1>1, <2>1 DEF Copied
  <2> QED
    BY <1>0, <1>1, <2>1, <2>2, <2>3, CopyOnward
<1>2. CASE logged' = TRUE /\ file' = file + 1 /\ UNCHANGED <<pc, fs>>
  <2>1. SetBoot(Boot) /\ Carries(Boot)
    BY <1>0, <1>2, NoCarry
  <2>2. file' \in 1..6
    BY <1>2, <1>i
  <2> QED
    BY <1>0, <1>2, <2>1, <2>2, CopyOnward
<1>3. CASE /\ ~(Dist[file] = "global.cfg" /\ Boot.glob # None)
           /\ SetBoot(Cut(file)) /\ pc' = "write" /\ UNCHANGED <<file, logged>>
  <2>1. PICK b : b = Cut(file)
    OBVIOUS
  <2>2. file = 1 => Boot.glob = None
    BY <1>3, NameOf
  <2>3. /\ Carries(b)
        /\ file = 1 => b.glob = Broken
        /\ file # 1 => b.glob = Boot.glob
        /\ file # 3 => b.cur = Boot.cur
        /\ CurrentCfg \in Boot.open => CurrentCfg \in b.open
        /\ file = 3 /\ Boot.cur[1] \in Version => CurrentCfg \in b.open
        /\ b.files = Boot.files \/ (file \in {2, 4, 5} /\ b.files = Boot.files \ {Name(file)})
    BY <1>0, <1>i, <2>1, <2>2, CutFile
  <2>4. Standing(firmware, Boot) => Standing(firmware, b)
    <3>1. CASE file # 3
      BY <2>3, <3>1, StandsOn
    <3>2. CASE file = 3 /\ Boot.cur[1] \in Version
      BY <2>3, <3>2 DEF Standing
    <3>3. CASE file = 3 /\ Boot.cur[1] \notin Version
      <4>1. ~Holds(firmware, Boot, Boot.cur)
        BY <3>3 DEF Holds
      <4>2. Holds(firmware, Boot, Boot.prev) => Holds(firmware, b, Boot.prev)
        BY <2>3, HoldsOn
      <4>3. b.prev = Boot.prev
        BY <2>3 DEF Carries
      <4> QED
        BY <2>3, <4>1, <4>2, <4>3 DEF Standing
    <3> QED
      BY <3>1, <3>2, <3>3
  <2>5. ~logged' => Copied(b, file')
    <3> SUFFICES ASSUME Copied(Boot, file) PROVE Copied(b, file)
      BY <1>3, <1>s
    <3>1. /\ Name(4) # Name(2) /\ Name(5) # Name(2) /\ Name(5) # Name(4)
          /\ Name(2) = <<"initrd", cmd.ver>> /\ Name(4) = <<"vmlinuz", Vmlinuz[cmd.ver]>>
      BY <1>b, NameIs, NameOf
    <3>2. file > 2 /\ Name(2) \in Boot.files => Name(2) \in b.files
      BY <1>i, <2>3, <3>1
    <3>3. file > 4 /\ Name(4) \in Boot.files => Name(4) \in b.files
      BY <1>i, <2>3, <3>1
    <3> QED
      BY <1>i, <2>3, <3>1, <3>2, <3>3 DEF Copied
  <2>6. file' \in 1..6 /\ file' <= 5 /\ SetBoot(b)
    BY <1>3, <1>i, <2>1
  <2> QED
    BY <1>0, <1>3, <2>3, <2>4, <2>5, <2>6, CopyOnward
<1> QED
  BY <1>1, <1>2, <1>3 DEF OpenFile, Goto, Quiet, history, fsVars

\* A file that is written leaves the entries as they are and adds one.
LEMMA WriteFileInv == IInv /\ WriteFile => IInv'
<1> SUFFICES ASSUME IInv, WriteFile PROVE IInv'
  OBVIOUS
<1>0. /\ pc = "write" /\ pc \in Mounted /\ pc \in {"copy", "write"}
      /\ pc' = "copy" /\ file' = file + 1
      /\ UNCHANGED <<firmware, disk, mnt, cmd, unread, installed, unkept, asked>>
  BY DEF WriteFile, Quiet, Goto, machine, history, Mounted, Laying
<1>i. cmd.dist /\ file \in 1..5 /\ file' \in 1..6
  BY <1>0 DEF IInv, TypeOK, Position
<1>b. cmd \in CommandLines
  BY <1>0, BootThere
<1>s. ~logged => Copied(Boot, file)
  BY <1>0 DEF IInv, Succeeding
<1>1. CASE logged' = TRUE /\ UNCHANGED fs
  <2>1. SetBoot(Boot) /\ Carries(Boot)
    BY <1>0, <1>1, NoCarry
  <2> QED
    BY <1>0, <1>1, <1>i, <2>1, CopyOnward
<1>2. CASE SetBoot(Whole(file)) /\ UNCHANGED logged
  <2>1. PICK b : b = Whole(file)
    OBVIOUS
  <2>2. /\ Carries(b)
        /\ file = 1 => b.glob = NoAppend
        /\ file # 1 => b.glob = Boot.glob
        /\ file = 3 => b.cur = NewEntry
        /\ file # 3 => b.cur = Boot.cur /\ (CurrentCfg \in Boot.open => CurrentCfg \in b.open)
        /\ Boot.files \subseteq b.files
        /\ file \in {2, 4, 5} => Name(file) \in b.files
    BY <1>0, <1>i, <2>1, WholeFile
  <2>3. /\ Target \in installed \ unkept /\ BootFs[2] = StartPart /\ Standing(firmware, Boot)
        => Standing(firmware, b)
    <3>1. CASE file # 3
      BY <2>2, <3>1, StandsOn
    <3>2. CASE file = 3
      <4> SUFFICES ASSUME Target \in installed \ unkept, BootFs[2] = StartPart
                   PROVE  Standing(firmware, b)
        OBVIOUS
      <4>1. Held
        BY <1>0, <1>i DEF IInv, Falling
      <4>2. Holds(firmware, b, Boot.prev) \/ Holds(firmware, b, NewEntry)
        BY <2>2, <4>1, HoldsOn DEF Held
      <4>3. b.prev = Boot.prev /\ b.cur = NewEntry
        BY <2>2, <3>2 DEF Carries
      <4> QED
        BY <4>2, <4>3 DEF Standing
    <3> QED
      BY <3>1, <3>2
  <2>4. ~logged' => Copied(b, file')
    <3> SUFFICES ASSUME Copied(Boot, file) PROVE Copied(b, file + 1)
      BY <1>0, <1>2, <1>s
    <3>1. /\ Name(2) = <<"initrd", cmd.ver>> /\ Name(4) = <<"vmlinuz", Vmlinuz[cmd.ver]>>
          /\ Name(5) = Menu(Layout)
      BY NameOf
    <3>2. b.glob # None
      BY <1>i, <2>2, CommandAssumption DEF Copied
    <3>3. file > 1 => Name(2) \in b.files
      BY <1>i, <2>2, <3>1 DEF Copied
    <3>4. file > 2 => b.cur = NewEntry
      BY <1>i, <2>2 DEF Copied
    <3>5. file > 3 => Name(4) \in b.files
      BY <1>i, <2>2, <3>1 DEF Copied
    <3>6. file > 4 => Name(5) \in b.files
      BY <1>i, <2>2
    <3> QED
      BY <1>i, <3>1, <3>2, <3>3, <3>4, <3>5, <3>6 DEF Copied
  <2>5. SetBoot(b)
    BY <1>2, <2>1
  <2> QED
    BY <1>0, <1>2, <1>i, <2>2, <2>3, <2>4, <2>5, CopyOnward
<1> QED
  BY <1>1, <1>2 DEF WriteFile, Quiet, history

\* A step from the last file on: what has to be shown of it.
LEMMA GlobalOnward ==
  ASSUME IInv, pc \in {"copy", "global"}, pc' \in {"global", "ok"}, NEW b, SetBoot(b), Carries(b),
         UNCHANGED <<firmware, disk, mnt, cmd, file, logged, unread, installed, unkept, asked>>,
         /\ b.cur = Boot.cur /\ b.files = Boot.files /\ (Boot.glob # None => b.glob # None)
         /\ CurrentCfg \in Boot.open => CurrentCfg \in b.open,
         ~logged => Copied(Boot, 6),
         pc' = "ok" => b.glob \in {None, cmd.app}
  PROVE  IInv'
<1>1. /\ pc \in Mounted /\ pc' \in Mounted /\ pc \in Laying /\ pc' \in Laying /\ pc' # "write"
      /\ pc \in Mounted \ {"loader", "modules"} /\ pc' \in Mounted \ {"loader", "modules"}
  BY DEF Mounted, Laying
<1>2. cmd \in CommandLines
  BY <1>1, BootThere
<1>3. Standing(firmware, Boot) => Standing(firmware, b)
  BY StandsOn
<1>4. /\ Grounds' /\ fs' \in [Disk -> [Part -> FileSystem]]
      /\ Boot' = b /\ BootFs' = BootFs /\ Target' = Target /\ StartPart' = StartPart
      /\ Layout' = Layout /\ NewEntry' = NewEntry
  BY <1>1, <1>3, CarryStep
<1>5. b.kind = Boot.kind
  BY DEF Carries, Sane
<1>6. asked' \in [Disk -> Parameters \cup {Broken}] /\ file' \in 1..6
  BY DEF IInv, TypeOK
<1>7. TypeOK' /\ Position' /\ (Generic' /\ ~logged' => Loaded(cmd.dev)')
  BY <1>1, <1>2, <1>4, <1>5, <1>6, Onward
<1>8. Falling'
  BY DEF Falling
<1>9. Succeeding'
  <2>1. Copied(Boot, 6) => Copied(Boot, 6)'
    BY <1>4 DEF Copied
  <2> QED
    BY <1>7, <2>1 DEF Succeeding
<1>10. Appending'
  BY <1>1, <1>4, StillAppending
<1> QED
  BY <1>4, <1>7, <1>8, <1>9, <1>10 DEF IInv

\* global.cfg is truncated, if there is one.
LEMMA OpenGlobalInv == IInv /\ OpenGlobal => IInv'
<1> SUFFICES ASSUME IInv, OpenGlobal PROVE IInv'
  OBVIOUS
<1>0. pc = "copy" /\ ~Copying /\ pc \in Mounted /\ pc \in {"copy", "global"}
  BY DEF OpenGlobal, Mounted, Laying
<1>b. Boot \in FileSystem /\ pc # "idle"
  BY <1>0, BootThere
<1>i. cmd.dist => file = 6
  BY <1>0, NameOf DEF Copying, IInv, TypeOK
<1>s. ~logged => Copied(Boot, 6)
  <2>1. ~logged => cmd.dist /\ Copied(Boot, file)
    BY <1>0 DEF IInv, Position, Mounted, Succeeding
  <2> QED
    BY <1>i, <2>1
<1>1. CASE Fails
  BY <1>b, <1>1, FailsInv
<1>2. CASE /\ Boot.glob = None /\ pc' = "ok" /\ UNCHANGED fs
           /\ UNCHANGED <<firmware, disk, mnt, cmd, file, logged, unread, installed, unkept, asked>>
  <2>1. SetBoot(Boot) /\ Carries(Boot)
    BY <1>0, <1>2, NoCarry
  <2> QED
    BY <1>0, <1>2, <1>s, <2>1, GlobalOnward
<1>3. CASE /\ Boot.glob # None /\ pc' = "global"
           /\ SetBoot([Boot EXCEPT !.glob = Broken,
                          !.open = IF Boot.glob \in Parameters THEN @ \cup {GlobalCfg} ELSE @])
           /\ UNCHANGED <<firmware, disk, mnt, cmd, file, logged, unread, installed, unkept, asked>>
  <2>1. PICK o : o = IF Boot.glob \in Parameters THEN Boot.open \cup {GlobalCfg} ELSE Boot.open
    OBVIOUS
  <2>2. PICK b : b = [Boot EXCEPT !.glob = Broken, !.open = o]
    OBVIOUS
  <2>3. SetBoot(b)
    BY <1>3, <2>1, <2>2
  <2>4. o \in SUBSET (FileName \cup {CurrentCfg, GlobalCfg})
    BY <1>b, <2>1 DEF FileSystem
  <2>5. /\ b \in FileSystem /\ b.kind = Boot.kind /\ b.app = Boot.app /\ b.prev = Boot.prev
        /\ b.cur = Boot.cur /\ b.files = Boot.files /\ b.open = o /\ b.dirs = Boot.dirs
        /\ b.glob = Broken
    BY <1>b, <2>2, <2>4 DEF FileSystem
  <2>6. /\ (CurrentCfg \in o <=> CurrentCfg \in Boot.open) /\ Boot.open \subseteq o
        /\ Boot.glob \in Parameters => GlobalCfg \in o
    BY <2>1, NamesDiffer
  <2>7. Broken # None
    BY DEF Broken, None
  <2>8. CurrentCfg \in Boot.open => Boot.cur = CutEntry
    BY <1>0, BootSane
  <2>9. Carries(b)
    BY <1>0, <2>5, <2>6, <2>7, <2>8, CarriesFields
  <2> QED
    BY <1>0, <1>3, <1>s, <2>3, <2>5, <2>6, <2>7, <2>9, GlobalOnward
<1> QED
  BY <1>1, <1>2, <1>3 DEF OpenGlobal, Quiet, Goto, machine, history

\* The kernel parameters are written last.
LEMMA WriteGlobalInv == IInv /\ WriteGlobal => IInv'
<1> SUFFICES ASSUME IInv, WriteGlobal PROVE IInv'
  OBVIOUS
<1>0. pc = "global" /\ pc \in Mounted /\ pc \in {"copy", "global"}
  BY DEF WriteGlobal, Mounted, Laying
<1>b. Boot \in FileSystem /\ pc # "idle" /\ cmd \in CommandLines
  BY <1>0, BootThere
<1>s. ~logged => Copied(Boot, 6)
  BY <1>0 DEF IInv, Succeeding
<1>1. CASE Fails
  BY <1>b, <1>1, FailsInv
<1>2. CASE /\ SetBoot([Boot EXCEPT !.glob = cmd.app, !.open = @ \ {GlobalCfg}]) /\ pc' = "ok"
           /\ UNCHANGED <<firmware, disk, mnt, cmd, file, logged, unread, installed, unkept, asked>>
  <2>1. PICK o : o = Boot.open \ {GlobalCfg}
    OBVIOUS
  <2>2. PICK b : b = [Boot EXCEPT !.glob = cmd.app, !.open = o]
    OBVIOUS
  <2>3. SetBoot(b)
    BY <1>2, <2>1, <2>2
  <2>4. o \in SUBSET (FileName \cup {CurrentCfg, GlobalCfg}) /\ cmd.app \in Parameters /\ cmd.app # None
    BY <1>b, <2>1, CommandAssumption DEF FileSystem, CommandLines
  <2>5. /\ b \in FileSystem /\ b.kind = Boot.kind /\ b.app = Boot.app /\ b.prev = Boot.prev
        /\ b.cur = Boot.cur /\ b.files = Boot.files /\ b.open = o /\ b.dirs = Boot.dirs
        /\ b.glob = cmd.app
    BY <1>b, <2>2, <2>4 DEF FileSystem
  <2>6. /\ (CurrentCfg \in o <=> CurrentCfg \in Boot.open) /\ Boot.open \ {GlobalCfg} \subseteq o
    BY <2>1, NamesDiffer
  <2>7. CurrentCfg \in Boot.open => Boot.cur = CutEntry
    BY <1>0, BootSane
  <2>8. Carries(b)
    BY <1>0, <2>4, <2>5, <2>6, <2>7, CarriesFields
  <2> QED
    BY <1>0, <1>2, <1>s, <2>3, <2>4, <2>5, <2>6, <2>8, GlobalOnward
<1> QED
  BY <1>1, <1>2 DEF WriteGlobal, Quiet, Goto, machine, history
-----------------------------------------------------------------------------
(* The end of a run, the power failure, and the theorems.                  *)

\* A disk whose default entry starts is sound and has an entry.
LEMMA BootsStands ==
  ASSUME NEW d, DefaultBoots(d)
  PROVE  Sound(firmware, StartFs(d)) /\ Ready(d) /\ Standing(firmware, StartFs(d))
<1>1. Starts(d) /\ \E v \in Version : /\ <<v, firmware>> \in {StartFs(d).cur, StartFs(d).prev}
                                     /\ Images(v) \subseteq StartFs(d).files
  BY DEF DefaultBoots, Entries
<1>2. Sound(firmware, StartFs(d)) /\ Ready(d)
  BY <1>1 DEF Starts, Sound, Ready
<1>3. Standing(firmware, StartFs(d))
  BY <1>1 DEF Standing, Holds
<1> QED
  BY <1>2, <1>3

\* The installer ends: a disk that boots after a run without an error is
\* installed from then on.
LEMMA FinishInv == IInv /\ Finish => IInv'
<1> SUFFICES ASSUME IInv, Finish PROVE IInv'
  OBVIOUS
<1>1. PICK done : done = {d \in Disk : pc = "ok" /\ ~logged /\ Target = d /\ DefaultBoots(d)}
  OBVIOUS
<1>2. /\ installed' = installed \cup done /\ unkept' = unkept \ done
      /\ mnt' = NoMounts /\ pc' = "idle" /\ file' = 1 /\ logged' = FALSE /\ unread' = FALSE
      /\ UNCHANGED <<firmware, disk, fs, asked>>
  BY <1>1 DEF Finish
<1>3. TypeOK'
  <2>1. mnt' \in [base : Place, boot : Place]
    BY <1>2 DEF NoMounts, Place
  <2>2. installed' \subseteq Disk
    BY <1>1, <1>2 DEF IInv, TypeOK
  <2>3. logged' \in BOOLEAN /\ unread' \in BOOLEAN
    BY <1>2
  <2> QED
    BY <1>2, <2>1, <2>2, <2>3 DEF IInv, TypeOK
<1>4. \A d : StartFs(d)' = StartFs(d) /\ (Ready(d) => Ready(d)')
  BY <1>2 DEF StartFs, StartPart, Ready, IsEFIFirmware
<1>5. Grounds'
  <2>1. NoEsp' /\ Kinds' /\ Asked'
    BY <1>2 DEF IInv, Grounds, NoEsp, Kinds, Asked, IsEFIFirmware, StartPart
  <2>2. AllSound'
    <3> SUFFICES ASSUME NEW d \in installed' PROVE Sound(firmware, StartFs(d)) /\ Ready(d)
      BY <1>2, <1>4 DEF AllSound
    <3>1. d \in installed \/ DefaultBoots(d)
      BY <1>1, <1>2
    <3> QED
      BY <3>1, BootsStands DEF IInv, Grounds, AllSound
  <2>3. AllStanding'
    <3> SUFFICES ASSUME NEW d \in installed' \ unkept' PROVE Standing(firmware, StartFs(d))
      BY <1>2, <1>4 DEF AllStanding
    <3>1. CASE d \in done
      BY <1>1, <3>1, BootsStands
    <3>2. CASE d \notin done
      BY <1>2, <3>2 DEF IInv, Grounds, AllStanding
    <3> QED
      BY <3>1, <3>2
  <2> QED
    BY <2>1, <2>2, <2>3 DEF Grounds
<1>6. Position' /\ Falling' /\ Succeeding' /\ Appending'
  BY <1>2 DEF Position, Falling, Succeeding, Appending, Mounted, Laying
<1> QED
  BY <1>3, <1>5, <1>6 DEF IInv

\* A power failure leaves the disks as they are.
LEMMA CrashInv == IInv /\ Crash => IInv'
<1> SUFFICES ASSUME IInv, Crash PROVE IInv'
  OBVIOUS
<1>1. /\ mnt' = NoMounts /\ pc' = "idle" /\ file' = 1 /\ logged' = FALSE /\ unread' = FALSE
      /\ UNCHANGED <<firmware, disk, fs, installed, unkept, asked>>
  BY DEF Crash
<1>2. TypeOK'
  <2>1. mnt' \in [base : Place, boot : Place]
    BY <1>1 DEF NoMounts, Place
  <2>2. logged' \in BOOLEAN /\ unread' \in BOOLEAN
    BY <1>1
  <2> QED
    BY <1>1, <2>1, <2>2 DEF IInv, TypeOK
<1>3. Grounds'
  BY <1>1, GroundsKept DEF IInv
<1>4. Position' /\ Falling' /\ Succeeding' /\ Appending'
  BY <1>1 DEF Position, Falling, Succeeding, Appending, Mounted, Laying
<1> QED
  BY <1>2, <1>3, <1>4 DEF IInv

\* At first no disk is partitioned, and no installer runs.
LEMMA InitInv == Init => IInv
<1> SUFFICES ASSUME Init PROVE IInv
  OBVIOUS
<1>1. /\ firmware \in Layouts /\ mnt = NoMounts /\ pc = "idle" /\ file = 1
      /\ logged = FALSE /\ unread = FALSE /\ installed = {} /\ unkept = {}
      /\ disk = [d \in Disk |-> EmptyDisk]
      /\ fs = [d \in Disk |-> [p \in Part |-> NoFs]]
      /\ asked = [d \in Disk |-> NoAppend]
  BY DEF Init, Layouts
<1>2. /\ NoFs \in FileSystem /\ NoFs.kind = None /\ NoFs.app = NoAppend
      /\ NoFs.files = {} /\ NoFs.open = {} /\ NoFs.dirs = {}
  BY NewFs DEF NoFs
<1>3. EmptyDisk \in Head512 /\ EmptyDisk.table = None
  BY DEF EmptyDisk, Head512
<1>4. TypeOK
  <2>1. mnt \in [base : Place, boot : Place]
    BY <1>1 DEF NoMounts, Place
  <2>2. fs \in [Disk -> [Part -> FileSystem]] /\ disk \in [Disk -> Head512]
    BY <1>1, <1>2, <1>3
  <2>3. asked \in [Disk -> Parameters \cup {Broken}]
    BY <1>1, CommandAssumption
  <2>4. logged \in BOOLEAN /\ unread \in BOOLEAN
    BY <1>1
  <2> QED
    BY <1>1, <2>1, <2>2, <2>3, <2>4 DEF TypeOK
<1>5. \A d \in Disk, p \in Part :
         /\ fs[d][p].kind = None /\ fs[d][p].files = {} /\ fs[d][p].open = {}
         /\ fs[d][p].dirs = {} /\ fs[d][p].app = NoAppend
  BY <1>1, <1>2
<1>6. Grounds
  <2>1. NoEsp
    BY <1>1, <1>3, <1>5 DEF NoEsp, Part, None
  <2>2. Kinds
    BY <1>5 DEF Kinds
  <2>3. Asked
    BY <1>1, <1>5 DEF Asked, StartPart, Part
  <2> QED
    BY <1>1, <2>1, <2>2, <2>3 DEF Grounds, AllSound, AllStanding
<1>7. Position /\ Falling /\ Succeeding /\ Appending
  BY <1>1 DEF Position, Falling, Succeeding, Appending, Mounted, Laying
<1> QED
  BY <1>4, <1>6, <1>7 DEF IInv

\* No step of an installer, of its user or of the power breaks the invariant.
LEMMA NextInv == IInv /\ [Next]_vars => IInv'
<1> SUFFICES ASSUME IInv, [Next]_vars PROVE IInv'
  OBVIOUS
<1>1. CASE \E c \in Commands : installAction(c)
  BY <1>1, InstallActionInv
<1>2. CASE \E u \in UpgradeLines : startUpgradeContainer(u)
  BY <1>2, StartUpgradeInv
<1>3. CASE RunOuter \/ CheckMounts \/ ZeroDisk \/ MakePartitions \/ setBootable
  BY <1>3, RunOuterInv, CheckMountsInv, ZeroDiskInv, TableInv
<1>4. CASE MountBootIso \/ formatdevice \/ MountDevice \/ formatAndMountESP
  BY <1>4, MountBootIsoInv, FormatInv, MountDeviceInv, EspInv
<1>5. CASE MountFails
  BY <1>5, FailsInv DEF MountFails
<1>6. CASE installSyslinuxEFI \/ installSyslinux \/ CopyModules \/ seedData
  BY <1>6, SyslinuxEFIInv, SyslinuxInv, CopyModulesInv, SeedDataInv
<1>7. CASE ReadAppend \/ OpenAppend \/ WriteAppend
  BY <1>7, ReadAppendInv, OpenAppendInv, WriteAppendInv
<1>8. CASE RemovePrevious \/ RenameCurrent \/ OpenFile \/ WriteFile
  BY <1>8, RemovePreviousInv, RenameCurrentInv, OpenFileInv, WriteFileInv
<1>9. CASE OpenGlobal \/ WriteGlobal \/ Finish \/ Crash
  BY <1>9, OpenGlobalInv, WriteGlobalInv, FinishInv, CrashInv
<1>10. CASE UNCHANGED vars
  <2>1. UNCHANGED <<firmware, disk, fs, mnt, pc, cmd, file, logged, unread, installed, unkept, asked>>
    BY <1>10 DEF vars
  <2>2. BootFs' = BootFs /\ Target' = Target /\ Boot' = Boot /\ StartPart' = StartPart
    BY <2>1, BootKept DEF StartPart, IsEFIFirmware
  <2>3. TypeOK'
    BY <2>1 DEF IInv, TypeOK
  <2>4. Grounds'
    BY <2>1, GroundsKept DEF IInv
  <2>5. Position'
    BY <2>1, <2>2 DEF IInv, Position, Formats, Generic, Upgrades, IsEFIFirmware
  <2>6. Layout' = Layout /\ NewEntry' = NewEntry
    <3>1. Layout' = Layout
      BY <2>1, <2>2, LayoutKept
    <3> QED
      BY <2>1, <3>1 DEF NewEntry
  <2>7. Falling'
    <3>1. (Held => Held') /\ (CurrentBoots => CurrentBoots')
      BY <2>1, <2>2, <2>6 DEF Held, CurrentBoots
    <3> QED
      BY <2>1, <2>2, <3>1 DEF IInv, Falling, Generic
  <2>8. Succeeding'
    <3>1. \A n : Copied(Boot, n) => Copied(Boot, n)'
      BY <2>1, <2>2, <2>6 DEF Copied
    <3>2. \A d : (Ready(d) => Ready(d)') /\ (Loaded(d) => Loaded(d)')
      BY <2>1, <2>2 DEF Loaded, Ready, StartFs, IsEFIFirmware
    <3> QED
      BY <2>1, <2>2, <3>1, <3>2 DEF IInv, Succeeding, Generic
  <2>9. Appending'
    BY <2>1, <2>2 DEF IInv, Appending
  <2> QED
    BY <2>3, <2>4, <2>5, <2>7, <2>8, <2>9 DEF IInv
<1> QED
  BY <1>1, <1>2, <1>3, <1>4, <1>5, <1>6, <1>7, <1>8, <1>9, <1>10 DEF Next, Step

\* The inductive invariant.
THEOREM Inductive == Spec => []IInv
BY InitInv, NextInv, PTL DEF Spec

\* Type correctness: what the installer keeps about disks, partitions and its
\* own progress is always a value of its type, and a running installer has a
\* command line.
THEOREM TypeCorrect == Spec => []TypeOK
<1>1. IInv => TypeOK
  BY DEF IInv
<1> QED
  BY <1>1, Inductive, PTL

\* A disk that was installed boots one of its two entries, wherever in
\* layDownOS and installRancher an upgrade fails or the power is lost, or a file
\* that the entry needs is one the installer truncated in place; except where
\* the entry that was kept was not one that boots.
THEOREM EntryIsLeft == Spec => []Fallback
<1>1. IInv => Fallback
  <2> SUFFICES ASSUME IInv, NEW d \in installed \ unkept, ~Overwritten(d) PROVE Bootable(d)
    BY DEF Fallback
  <2>1. PICK b : b = StartFs(d)
    OBVIOUS
  <2>2. Sound(firmware, b) /\ Ready(d) /\ Standing(firmware, b)
    BY <2>1 DEF IInv, Grounds, AllSound, AllStanding
  <2>3. /\ Menu(firmware) \notin b.open /\ GlobalCfg \notin b.open /\ CurrentCfg \notin b.open
        /\ \A v \in Version :
              /\ <<v, firmware>> \in {b.cur, b.prev}
              /\ Images(v) \subseteq b.files \cup b.open
              => Images(v) \subseteq b.files
    BY <2>1 DEF Overwritten
  <2>4. Starts(d)
    BY <2>1, <2>2, <2>3 DEF Starts, Sound, Ready
  <2>5. PICK v \in Version : /\ <<v, firmware>> \in {b.cur, b.prev}
                             /\ Images(v) \subseteq b.files \cup b.open
    BY <2>2, <2>3 DEF Standing, Holds
  <2>6. v \in Entries(d)
    BY <2>1, <2>3, <2>5 DEF Entries
  <2> QED
    BY <2>4, <2>6 DEF Bootable
<1> QED
  BY <1>1, Inductive, PTL

\* runInstall and the upgrade that return without an error, and have logged
\* none, leave a disk whose default entry is the version that was asked for.
THEOREM NewVersionStarts == Spec => []SuccessBoots
<1>1. IInv => SuccessBoots
  <2> SUFFICES ASSUME IInv, pc = "ok", ~logged, Generic \/ (Upgrades /\ Target \in installed)
               PROVE  /\ Starts(Target) /\ Default(Target) = <<cmd.ver, firmware>>
                      /\ cmd.ver \in Entries(Target)
    BY DEF SuccessBoots
  <2>0. pc \in Mounted /\ pc \in Mounted \ {"loader", "modules"}
    BY DEF Mounted, Laying
  <2>1. BootFs[2] = StartPart /\ (Generic => Target = cmd.dev)
    BY <2>0 DEF IInv, Position, Target
  <2>2. PICK b : b = StartFs(Target) /\ b = Boot
    BY <2>0, <2>1, BootSane
  <2>3. Loader(firmware) \in b.files /\ Ready(Target)
    <3>1. CASE Generic
      BY <2>0, <2>1, <2>2, <3>1 DEF IInv, Succeeding, Loaded
    <3>2. CASE Target \in installed
      BY <2>2, <3>2 DEF IInv, Grounds, AllSound, Sound
    <3> QED
      BY <3>1, <3>2
  <2>4. Layout = firmware
    BY <2>0, LayoutIsFirmware
  <2>5. cmd.ver \in Version /\ cmd.app \in Parameters
    BY <2>0, BootThere DEF CommandLines
  <2>6. Copied(b, 6)
    BY <2>2 DEF IInv, Succeeding
  <2>7. /\ b.glob # None /\ b.cur = <<cmd.ver, firmware>> /\ Images(cmd.ver) \subseteq b.files
        /\ Menu(firmware) \in b.files
    BY <2>4, <2>6 DEF Copied, Images, NewEntry
  <2>8. b.glob \in Parameters
    BY <2>2, <2>5, <2>7 DEF IInv, Appending
  <2>9. Starts(Target)
    BY <2>2, <2>3, <2>7, <2>8 DEF Starts, Ready
  <2>10. Default(Target) = <<cmd.ver, firmware>> /\ cmd.ver \in Entries(Target)
    BY <2>2, <2>5, <2>7 DEF Default, Entries
  <2> QED
    BY <2>9, <2>10
<1> QED
  BY <1>1, Inductive, PTL

\* layDownOS passes the parameters of the append file on to the upgrades that
\* give none, on the partition that starts the machine.
THEOREM ParametersStay == Spec => []AppendKept
<1>1. IInv => AppendKept
  <2> SUFFICES ASSUME IInv, pc = "ok", Upgrades, Target \in installed,
                      asked[Target] # Broken, ~unread
               PROVE  StartFs(Target).glob = asked[Target]
    BY DEF AppendKept
  <2>0. pc \in Mounted /\ pc \in Laying
    BY DEF Mounted, Laying
  <2>1. BootFs[2] = StartPart
    BY <2>0 DEF IInv, Position
  <2>2. PICK b : b = StartFs(Target) /\ b = Boot
    BY <2>0, <2>1, BootSane
  <2>3. b.glob # None
    <3>1. b.glob \in Parameters \/ GlobalCfg \in b.open
      BY <2>2 DEF IInv, Grounds, AllSound, Sound
    <3>2. GlobalCfg \in b.open => b.glob # None
      BY <2>0, <2>2, BootSane
    <3> QED
      BY <3>1, <3>2, CommandAssumption
  <2>4. cmd.app = asked[Target] /\ b.glob \in {None, cmd.app}
    BY <2>0, <2>1, <2>2 DEF IInv, Appending
  <2> QED
    BY <2>2, <2>3, <2>4
<1> QED
  BY <1>1, Inductive, PTL
=============================================================================
