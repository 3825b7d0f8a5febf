# A TLA+ model of BurmillaOS

BurmillaOS is a Linux distribution whose system services are Docker containers.
One Go binary plays every part: init, the `ros` command, `power`, `respawn`,
`cloud-init-save` and so on. This directory holds TLA+ modules of the parts in
which goroutines, processes, containers, timers, files and crashes interact, the
TLC configurations that check them, and proofs, checked by TLAPS, for most of
them.

`PROJECT.json` lists the components, the runs, the hazards each property is
aimed at, the theorems, the mutants, and for every definition the lines of the
source it models.

## 1. Inventory

| Component | State | Operations | What is hard | What makes it correct |
|---|---|---|---|---|
| Boot, `cmd/init`, `pkg/init`, `pkg/dfs`, `cmd/control/bootstrap.go` | mounts, the state partition with one `/usr` per version, files carried over the change of root, Docker daemons on one socket | the chain of `RunInit`, `switchRoot`, `docker.Start` and `Stop`, recovery console, `LaunchDocker` | power failures between any two steps, boots of several versions on one disk, a goroutine that stops a daemon | `/usr` is whole; one daemon at a time; every boot settles |
| System init, `pkg/sysinit`, `preload.go` | stamp files, images | `LoadSystemImages`, `PreloadImages`, `SysInit` | stamps made before or while images are loaded | images are there when services start |
| Project operations, `pkg/libcompose/project` | services of the project, queue of services to reload, one wrapper per service with state, error and WaitGroup, dependency lists | `Up`, `Create`, `Start`, `Stop`, `Run`, ... through `perform` and `traverse` | one goroutine per service; dependencies read twice; cycles; rounds that restart after a reload; early returns that leave goroutines behind | nobody waits in a circle or for one that never starts; dependency order; no error lost over a reload; it ends |
| Containers of a service, `pkg/docker/service.go`, `pkg/libcompose/docker` | containers in System Docker, `rancher.force_console_rebuild` | create, up, start, stop, restart, kill, delete, recreate, rebuild, rename | three calls per recreate, any may fail, a crash between any two, parallel goroutines with a shared error pool | no container lost; success means up to date |
| Service loading and reload, `pkg/compose` | project, hashes of enabled services, `useNetwork` | LoadService, LoadSpecialService, projectReload, StageServices | listener goroutine; reload in the middle of up | what is loaded late still comes up in order |
| Docker clients, `pkg/docker/client_factory.go`, `pkg/util/backoff.go` | backoff goroutine, `sync.Once` per client | Create, ClientOK | Close against a goroutine that has timed out | every call returns |
| `cloud-init-save`, datasources | goroutines polling datasources, timer, saved files | select, fetch with retries, save | unbuffered channel, two ways to stop, timeout; a failure or a crash between files | no offer lost; files agree; the boot goes on |
| `cloud-init-execute`, console-init | authorized keys, stamps, scripts | ApplyConsole, authorizeSSHKeys, resizeDevice | acts on files of several boots | all keys; nothing older than before |
| Network, `pkg/netconf`, `cmd/network` | links with addresses, masters, leases; routes; resolv.conf | ApplyNetworkConfigs, createInterfaces, runDhcp | three configurations applied to one kernel in a boot | the last one is in force |
| Configuration store, `config` | `cloud-config.yml` and the layers around it | Set, Merge, LoadConfig | several processes read, change and write one file without a lock, and may die | a command leaves what it does not name as it found it |
| Console, engines, services, user Docker, `cmd/control` | configuration, compose file, images, console and docker containers | service, console, engine and config commands, console-init, docker-init | a switch kills the shell it was typed in; early returns half way; two commands at once; crash | the next boot finds what is configured; console and Docker come back |
| Install and upgrade | partitions, file systems, boot loader, boot entries, append file | install, os upgrade | failing step or power failure in the middle | a system that boots is left |
| Power commands, `cmd/power` | power containers, list of running containers, remembered index of the console | reboot, poweroff, halt, shutdown | two processes with a timer each, several commands at once, containers that end and are restarted between two lists | console stopped last; the machine goes down |
| `respawn`, `cmd/respawn` | `running`, the process table | start and restart lines, SIGTERM | signal handler against the goroutines of the lines; unlocked flag | it returns and leaves no child |
| Parsers and schemas (config, cmdline, cloud-config, compose files) | none | parse, validate | pure functions | — |

How they interact. `ros init` runs its chain as process 1, starts Docker daemons
for bootstrap and cloud-init on the way, changes to the state partition, starts
`sysinit` in the background and becomes System Docker. `sysinit` loads the images
of its version, builds a `Project` (`pkg/compose`) and calls `Up`. `traverse`
starts one goroutine per service; each calls `Service.Up` of `pkg/docker`, which
calls libcompose's `Service.Up`, which calls System Docker for each container in
parallel. The network service answers `ErrRestart`, and `traverse` calls back into
`pkg/compose` to load what needed the network. `cloud-init-save` runs in the
initramfs and writes files that init carries to the state partition, where
`network`, the console and `cloud-init-execute` act on them. The console container
runs `console-init` and then `respawn`; the `ros` commands are typed there and
change the configuration file that the next boot reads. `power` is typed there
too, runs again in its own container, and stops all of the above through System
Docker. `os upgrade` runs the installer and leaves a request for a forced console
rebuild in the configuration, which the next `Up` honours.

## 2. Modules

| Module | Models | Composes |
|---|---|---|
| `ProjectTraverse`, `ProjectTraverseProofs` | `Project.perform`, `traverse`, `startService`, `serviceWrapper`, `DependentServices`, the reload callback's effect | refines `ServiceRounds` |
| `ServiceRounds` | the abstract call of a project: rounds in which every service acts once, in order | |
| `ServiceContainers`, `ServiceContainersProofs` | containers of one service | |
| `ClientBackoff`, `RetryProofs` | `NewClient`, `ClientFactory.Create`, `ClientOK`, `Backoff` | |
| `PowerShutdown`, `PowerShutdownProofs` | `reboot`, `runDocker`, `shutDownContainers`, the timers | |
| `Respawn`, `RetryProofs` | `run`, `execute`, `termPids`, `addProcess`, `removeProcess` | |
| `CloudInitSelect` | `getDatasources`, `selectDatasource`, `fetchAndSave`, `saveFiles`, what each datasource offers | |
| `NetworkApply` | `ApplyNetworkConfig` and everything under it in `pkg/netconf` | |
| `CloudInitBoots`, `CloudInitBootsProofs` | cloud-init over several boots: init, cloud-init-save, files carried over, network service, console, cloud-init-execute | `CloudInitSelect`, `NetworkApply` |
| `BootInit`, `BootInitProofs` | the chain of `RunInit`, daemons, `switchRoot`, recovery, sysinit, preload | |
| `ControlCommands`, `ControlCommandsProofs` | service, console, engine and config commands, console-init, docker-init, user-docker, switch-console | |
| `InstallUpgrade`, `InstallUpgradeProofs` | the installer and os upgrade | |

Each `MC...` module gives one of them small sets of services, machines or
commands, and each `.cfg` names one of those instances. Operators whose name ends
in `_Something` after the name of another definition, and whose comment begins
with "Mutant:", are wrong versions of that definition; the specification does
not use them, they serve to show that a property depends on the code it is
about.

### ProjectTraverse

The caller's goroutine is `phase` with `path` (the recursion of `startService`,
the parameter `history` in the code), `todo` (the dependencies each level has
still to look at), `launched`, `toWait`, `restart` and `firstError`. A wrapper
is `wstate`, `werr`, `wdone` (the counter of its WaitGroup) and `ignored`; the
goroutine in `Do` is `gpc` and `gwait`. Every iteration of `startService`'s loop
is a step, because goroutines that were dispatched meanwhile pull images, and a
missing image is what makes the network service a dependency. The methods of a
project differ in whether their goroutines wait (`Waits`), whether a cycle has an
action (`HasCycleAction`) and whether they pull images (`Pulls`).

Lists are sets where only the members matter. Go walks maps in random order, so
`traverse` picks roots in any order; `waitForDeps` has an order, which the model
does not use: it may wait for its dependencies in any order, a superset of what
the code does. Images only arrive within a call, they are not deleted (the end of
`down --rmi` is left out). `ReloadCallback` is the effect on the project of
`projectReload`: console and engine loaded again or, when the event that the
network is up has not been seen yet, not; and the services that somebody edited,
up to `MaxEdits` times. A panic in an action is not modelled.

`ServiceRounds` says what a call promises, without goroutines, walk, wait groups
or wrappers: a round begins when nobody acts; a service acts once for each time
it is loaded, when all it has to come after have acted or were left out; it is put
off only if somebody asked for a reload; within a round dependencies can only be
lost; the call answers nil only when nobody is at work, pending or failed. The
refinement (`ActsInRounds`) maps a wrapper that is not executed to "pending", one
whose goroutine is in its action to "acting", and the dependencies to those that
the wrapper has now (`RoundNeeds`); Stop, Pull, Kill, Delete and the like do not
wait (`Waits`), so nobody comes after anybody there.

### ServiceContainers

A container is its ID, name, configuration and whether it runs. The service's
own name is `<<>>`; a container renamed during `Recreate` carries the IDs
appended so far. `jobs` are the goroutines of `eachContainer`, each with the step
of `recreateIfNeeded`, `Recreate` or `Up` it is at; `pool` is the `sync.Pool` of
`InParallel`, which `Collect` may empty. `Crash` may come between any two calls to
System Docker. One operation runs at a time, as in `traverse`, which gives a
service one goroutine. `lost` and `clean` are history variables. `Newest` and
`ByAge` use that System Docker lists containers by age.

### PowerShutdown

`outer` is the process typed in the console, `inner` the one in the power
container, which validates the configuration once more (`ValidateAgain`) before it
starts its timer. Stopping the console kills an arbitrary set of outer processes.
Containers in `MayExit` end once by themselves and Docker restarts them. Ticks
of the progress timer are left out. Lists are real sequences here, because the
code keeps an index into one and uses it with another; the order in which System
Docker lists containers is a parameter (`ContainerList`), of which the proofs use
only that a list has the containers it is a list of. What a power command does
to the container of another one is what it does to every container: stop it.
Either one command is typed, and then Docker calls may fail and the flags may be
given, or several are (`typed`, `Alone`).

### Respawn

One `linePc` per line through `execute`; `ClearRunning` and `SignalAll` are the two
halves of `termPids`, because the code clears `running` before it takes the lock.
`Limit` stands for the ten restarts the code allows. `sigterm` is the channel with
its one slot. `blank` is the number of blank and comment lines, for which `run`
waits although no goroutine answers for them. `lateStarts` and `missed` are history:
the children started after `running` was cleared, and the lines between their
check of `running` and `addProcess` while `SignalAll` went through the table. The reuse of a
process ID by the kernel is not modelled.

### ClientBackoff

Each caller of `ClientOK` has a backoff goroutine of its own. Both channels are
unbuffered, so a send and its receive are one step (`SendTrue`, `SendFalse`,
`Done`). Callers in `Shared` are goroutines of one project and go through a
`sync.Once`; the factory has one for each of the two daemons, the module is about
either. A timeout under the `Once` is a panic, which ends the process and with it
all `Shared` callers (`Alive`). `late` becomes true at any moment: how long the
sleeps are does not matter. `Hangs` is the state in which `Close` waits for a
goroutine that is itself waiting to send `false`; the model lets it stay there,
and the properties say when that can happen.

### CloudInitSelect, NetworkApply, CloudInitBoots

`CloudInitSelect` has one `pc` per datasource goroutine; `stop` and `done` are
the channels, `timeout` the timer. The selected source is then asked request by
request, each tried up to `MaxRetries` times, and the files are written one after
the other; a file carries the number of the boot it came from (`gen`). What the
providers differ in is an operator each: the number of requests, whether they
are retried, whether availability changes, and which of keys, host name, DNS,
interfaces and root disk end up in the meta-data. The answers alternate between
two sites from boot to boot (`Site`), so that what an earlier boot saved differs
from what the next one gets.

`NetworkApply` keeps the kernel (`dev`, `index`, `mode`, `gateway`) apart from the
program (`step`, `cfg`, `listed`, `todo`); one link is a step, as in `applyOuter`,
except that static addresses and the return of a lease are two. `listed` has the
MAC addresses from the moment the links were listed, and `FindMatch` compares with
those, as the code does: a bridge that takes over the address of its port in this
application is not found by it yet, in the next one it is. A pattern may stand for
several addresses. `gateway` is the default route with the link that reaches it
(`Reach`); the kernel drops it when the link is taken down or loses its last address
(`Flushed`), which happens when every old address is removed before the new ones are
added. A bond or bridge that
createInterfaces could not make is made when its first slave or port comes, but then
without its options (`Joins`); when another sort of link has the name it is refused.
`broken` and `returned` are history: the links a failing call was about, the
masters that failed or came too late included, and the addresses given back with a
lease.

`CloudInitBoots` instantiates both with shared variables and runs them in the
order of a boot: network as stored, selection, network again, files to the state
partition in any order (a Go map), network service and console at the same time,
reboot or power failure anywhere. The assumption about the file system is that a
file is either the old or the new one after a crash, which is what
`WriteFileAtomic` relies on.

### BootInit

`pc` goes through `Chain`, the list in `RunInit`, with extra steps inside a
function where a crash matters (`CopyUsr`, `RenameUsr`, `Unlink`, `Symlink`). Any
call may fail, up to `MaxErrors` times, and a function that fails ends the chain
or not as in the code: a failing state mount makes the configuration nil, and init
panics on it. `disk` is the state partition that lives through boots, `ramfs` the
initramfs of this one. `daemons` are the Docker processes on the socket and
`stopper` the goroutine of `docker.Start`, which hands over one signal and one
answer. `LoadConfig` exits when it cannot parse what it reads, and process 1 with it
(`Exits`), in every function of the chain that calls it. Bootstrap runs only when a
device is configured that does not resolve yet, or boot commands are (`Resolves`).
`sysinit` runs beside init, and so does the daemon that reads a preloaded archive
(`loading` says which one). A daemon that cannot load an archive says so in the body
of its answer, which `PreloadImages` reads and throws away before it makes the stamp;
the stamp itself may fail too. `cut`, `lost` and `unsaved` are history: versions
whose images a failure kept from being loaded after their stamp was made, an archive
that was refused, went to the recovery console's daemon or was cut off by a power
failure, and files that could not be carried over.

### ControlCommands

A command is the sequence of its steps, which the process executes one at a time,
so that every interleaving of two shells, of the switch-console container, of
console-init and of the engine switch it runs on first boot is covered. `file` is
the configuration file, which is written under another name and renamed, so that it
is always whole; `Merge` is `util.Merge` on what matters here: console, engine,
included services, host key and its public half. The compose file of the engines is
truncated and written in place (`ComposeTruncate`, `ComposeRewrite`), either of which
may fail and leave it `Torn`; then nothing can be staged until it is repaired. A
console switch may be given `--no-pull`, and then the configuration names the console
before it is pulled.

`mishaps` is history: which kinds of trouble have happened, for the properties that
exclude one: an error, a crash, a command cut off by a switch, a value set by hand, a
switch without a pull, a configuration that was not saved, a torn compose file, a
race. A race is a command that writes the file although it was written since the
command read it (`Overtaken`, also when the same configuration came back meanwhile),
or that creates or removes an engine while another command does (`Overlaps`).
`OthersKept` excludes nothing: it says of a late write too what it may do, namely take
back what was written since the command began, and never bring in a value that was
not in force when the command loaded the configuration or read the file.

### InstallUpgrade

A disk has a partition table, boot flag and MBR code, its two partitions hold a
file system with the files that matter: current and previous entry, complete
kernels and initrds, global.cfg, append file, menu and loader. The last two exist
per layout, and an entry is a version with the layout it was written for: `efiCfg`
turns `../` into `/`, and `different` compares what is there with the rewritten
entry, so the same version in the other layout is a different entry. Every file is
truncated by one step and complete after another; `open` remembers the names of
those that were complete before. The firmware, the boot loader and the menu are
external (`Starts`, `Entries`, `Default`): an entry counts only in the firmware's
own layout. So a run of a type that lays down the BIOS layout on an ESP (raid on a
machine with UEFI) leaves nothing there that boots.

`logged`, `unread`, `installed`, `unkept` and `asked` are history: an error that was
only logged, an append file that could not be read, disks with a completed install,
disks whose kept entry is not one that boots, and the last `--append` given for a
disk's starting partition. The label RANCHER_BOOT, which `GetBootPartition` asks for
first, is not modelled: nothing in the repository makes a partition with it.

## 3. Runs

| Run | Instance | Checks |
|---|---|---|
| `traverse` | 4 services of the shipped configuration, one of them added by a reload, and graphs with optional and required cycles; up, run, create, start, stop and pull of all or one service; one edit, one missing image; 440k states | `WaitsEnd`, `DependencyOrder`, `SuccessIsComplete`, `ActsInRounds`, `Termination`, `GoroutinesEnd` |
| `containers` | a plain service and the console in two configurations, all operations, three calls, one crash, three containers; 7.9M states | `SyncedOnSuccess`, `OneContainer`, `NeverGone` |
| `client_backoff` | one command and two services that share a client, a daemon that goes down twice | `ClientAnswered`, `HangsOnlyLate`, `Answers` |
| `power` | one command with failing calls, or two with equal or different names, two services that end and come back, an old container; 1.6M states | `StopsConsole`, `ConsoleLast`, `SomeoneStarts`, `EventuallyDown` |
| `respawn` | two lines, with and without a blank one, a limit of two restarts, one SIGTERM at least | `LateStarts`, `Reached`, `Returns` |
| `cloudinit` | nine machines, two boots, one fault, two attempts per request; 1.2M states | `NoneOnlyIfNone`, `UserDataFirst`, `Converges`, `KeysAuthorized`, `NeverOlder`, `SaveEnds` |
| `boot` | two versions, five configurations, three boots, one failing call; 2.7M states | `UsrWhole`, `ConfigKept`, `ServicesHaveImages`, `DoneIsLoaded`, `OneDaemon`, `BootSettles` |
| `control` | two consoles, an engine, two services, a Docker-in-Docker engine, two commands of eleven kinds, with and without `--no-pull`, one fault; 1.1M states | `OthersKept`, `ConfiguredIsStaged`, `IncludedIsDefined`, `OneHostKey`, `ConsoleComesBack`, `DockerRuns` |
| `install` | installs of six types and upgrades between two versions, both kinds of firmware, three runs, two errors, one power failure; 6.2M states | `Fallback`, `SuccessBoots`, `AppendKept` |
| `power_console_exits` | the console itself ends between the two lists | violates `StopsConsole` |
| `boot_empty_json` | a power failure while the daemon's configuration is written | violates `NoEmptyJson` |
| `network_gateway` | two configurations with the same address and different gateways | violates `GatewayReplaced` |

What the properties say is in the comments above them. In short: a project
operation ends, in order, without a circle of waiting goroutines, and success
leaves no service out; a service never loses its last container and `up` leaves no
stale one; a Docker client that is returned has answered, and `ClientOK` can block
only after its deadline; a power command stops the console last and does take the
machine down; respawn misses only a child that is being started when it is told to
stop, and else returns and leaves nothing behind; cloud-init-save loses no
offer, keeps user-data at least as new as meta-data and never holds up the boot,
and the network is as configured after each of the three times it is applied; a
boot ends with a whole `/usr`, with the files of its cloud-init and with the images
of its version; commands change only what they name, however late they write, and
console and Docker come back; an installed disk keeps an entry that boots, but for
files of that entry which the installer truncates in place.

Why the bounds are enough. Four services give a cycle with a way into it and a
service outside it, with one service of each kind the code treats specially. One
edit gives three rounds: the first, the one after the network came up, and the
one after an edited network service asked again. Three calls to a service with
one crash cover create, interrupted recreate, and what the next call makes of the
rest; a fourth container would only repeat a recreate. Two power commands are what
a second terminal gives. Two lines in `respawn` are independent but for the handler
and `run`, which see both. Two boots of cloud-init give a state partition with the
files of an earlier boot, and the nine machines cover every branch of
`getDatasources`, of `applyOuter` and of the providers. Three boots of two versions
give a tree cut short, found again, and found by the other version. Two commands
are enough for every race in the configuration file, and console-init with its own
command runs beside them. Three installer runs are an install, an upgrade that is
cut short and the next one.

Deadlock is checked in every passing run but four. `boot`, `cloudinit` and
`install` stop at their bound on boots or runs, and `control` when its commands
are used up; in `boot` and `cloudinit` the liveness properties (`BootSettles`,
`SaveEnds`) take its place, in `control` it is `DockerRuns`. The other modules have one action
(`AllDone`, `Over`, `Returned`) for the states in which the program may stop.

### Findings

* `power_console_exits`: `consoleContainerIdx` is set from the first list and
  used with the second. If the console ends between the two, another container
  is stopped in its place, or the index is out of range and the process panics.
  The comment there says "and now stop the console". A second power command that
  stops the console has the same effect, which is why `StopsConsole` is stated for
  one.
* `boot_empty_json`: `cleanupFiles` deletes configuration files a crash left empty,
  but its list names `system-daemon.json`, while the file that is written is
  `system-docker.json`. An empty one is kept by every later boot.
* `network_gateway`: the comment says that the gateway is replaced; the call adds a
  second route, the kernel refuses, and the error is ignored, so that the gateway
  of the earlier configuration stays. It takes a second configuration that keeps an
  address of the link: when the last one is removed the kernel drops the route first.

Other behaviour met while modelling, which the models contain and the properties
name as their exceptions:

* `Container.Delete` leaves a running container alone and reports success, although
  its comment says it stops it first.
* `InParallel` keeps the errors of its tasks in a `sync.Pool`, from which the garbage
  collector may take them; `Wait`, which "returns the latest error encountered if
  any", then returns none, and `up` succeeds with a container that was not recreated
  (`lost` in `ServiceContainers`).
* The stamp that says, by its name, that the system images are loaded is made before
  they are. A power failure or an error in between leaves it there, and no later
  boot of that version loads them (`cut`).
* A child that is started while `termPids` signals is not told to end, and with a
  blank line or a comment in respawn.conf `run` never returns (`Returns`).
* A preloaded archive that System Docker refuses gets its stamp all the same, and
  without `preload_wait` so does one that is still being read when the power fails
  (`lost` in `BootInit`).
* An upgrade that is tried again after a power failure replaces the good previous
  entry by the incomplete current one, and so does one after a run that wrote the
  other layout (`unkept`); the menu, global.cfg and files that two versions share are
  truncated in place (`Overwritten`); an append file that cannot be read or written is
  reported to nobody (`asked`, `unread`).
* A static address equal to the leased one is removed with the lease (`returned`).
* Two commands at once lose updates of the configuration file (`OthersKept`); `console
  switch --no-pull` names a console that is not on the disk yet; the compose file of
  the engines may be left cut off (`torn`).
* `ClientOK` may block for ever when the daemon answers after the deadline (`Hangs`).

Not in the models: `installSyslinux` reassigns its device in the RAID branch, so that
`--raid` is never given; ec2's meta-data service looks for interfaces when listing
them failed, not when it succeeded.

### Fairness

Weak fairness of each goroutine and process: Go and Linux schedule what can run,
and calls to Docker answer. Timers fire (`Timeout`). Docker restarts what it was
told to restart. A child that was sent SIGTERM ends; nothing is assumed of one that
was not. In `Respawn` one SIGTERM comes, as `docker stop` sends one: it is fair only
until `running` is cleared, is never assumed to be sent again, and Docker's SIGKILL is
not in the model. `Returns` therefore names the line that the signal missed. In
`CloudInitBoots` weak fairness of the timer and of the main goroutine is enough,
because a source may go on polling beside them. A service's own end, a restart of
the Docker daemon, an edit, a command, an error, a reboot and a crash are never
forced.

## 4. Proofs

Every theorem holds for all values of the constants that satisfy the module's
named assumptions; these only say that a parameter has its type, that names of
different things differ, and, in `ControlCommands`, what a new system looks like.
The runs' modules extend the modules with the assumptions, so TLC evaluates them.
Each module's theorems follow from one inductive invariant, `IInv`, a conjunction
of named parts; the properties alone are not inductive, since they do not say
what the processes are about to do. TLC checked each `IInv` on the run's instance
before it was proved.

| Module | Theorem | Property |
|---|---|---|
| `ProjectTraverseProofs` | `TypeCorrect` | `TypeOK`; no WaitGroup is counted down twice |
| | `NoDeadlock`, `WaitsAreServed`, `NobodyIsStuck` | `NoWaitCycle`, `NoLostWait`, and both as `WaitsEnd` |
| | `ActsInOrder` | `DependencyOrder` |
| | `RoundsAreQuiet` | `QuietRounds` |
| | `SuccessMeansAll` | `SuccessIsComplete` |
| | `NoErrorForgotten` | `ErrorsKept` (an action property) |
| | `CyclesAreFound` | `RequiredAcyclic` |
| | `ImplementsRounds` | `ActsInRounds`: the refinement of `ServiceRounds` |
| `RetryProofs` | `ReturnedClientsAnswered`, `BackoffEnds`, `CloseHangsOnlyLate` | `ClientAnswered`, `NoLeak`, `HangsOnlyLate` |
| | `FewLateStarts`, `TableIsCurrent`, `OthersAreTold`, `ReturnIsClean` | `LateStarts`, `Tracked`, `Reached`, `CleanReturn`, of `Respawn` |
| `BootInitProofs` | `UsrIsWhole`, `ConfigIsKept`, `ImagesAreThere`, `StampMeansLoaded`, `AtMostOneDaemon` | `UsrWhole`, `ConfigKept`, `ServicesHaveImages`, `DoneIsLoaded`, `OneDaemon` |
| `CloudInitBootsProofs` | `NothingIsDropped`, `UserDataIsFirst` | `NoneOnlyIfNone`, `UserDataFirst` |
| | `KeysAreAuthorized` | `KeysAuthorized`: every configured key, and none is taken away |
| | `NothingGetsOlder` | `NeverOlder` (an action property) |
| | `LinksConverge`, `NamedLinksConverge` | `Converges`, for the configurations described below |
| | `NamesAreInForce` | `NamesInForce`: the part of `Converges` about host name and name servers, for all |
| `ServiceContainersProofs` | `SuccessMeansSynced`, `OneContainerOnly` | `SyncedOnSuccess`, `OneContainer` |
| | `ContainersRemain` | `NeverGone` (an action property) |
| `PowerShutdownProofs` | `ConsoleIsLast`, `ConsoleIsStopped`, `SomeoneIsStarted` | `ConsoleLast`, `StopsConsole`, `SomeoneStarts` |
| `InstallUpgradeProofs` | `EntryIsLeft`, `NewVersionStarts`, `ParametersStay` | `Fallback`, `SuccessBoots`, `AppendKept` |
| `ControlCommandsProofs` | `ConsoleReturns`, `NextBootIsStaged`, `IncludedAreDefined`, `HostKeyIsKept` | `ConsoleComesBack`, `ConfiguredIsStaged`, `IncludedIsDefined`, `OneHostKey` |
| | `NothingElseChanges` | `OthersKept` (an action property) |

The other modules have a `TypeCorrect` too; in `ControlCommandsProofs` the types
are part of `Inductive`.

**ProjectTraverse**, for every set of services, configuration graph, operation,
selection and number of edits. The parts of `IInv`:

* `Shape`: what the caller's phase says about path, launched and wrappers.
* `Running`: a goroutine runs for a dispatched, selected wrapper whose counter
  is one; a dispatched wrapper without one is done.
* `Collected`: what the wait loop took note of agrees with the wrappers' errors.
* `Failed`: a service that failed was executed, and does not act again before it
  is loaded anew. `ErrorsKept` follows step by step from this.
* `Walked`: each dependency of a service on the path is still to be looked at,
  dispatched, cut, or the next service on the path.
* `RequiredKept`: a required dependency is never in `ignored`, except while the
  walk has it still before it and will end with a cycle.
* `Closed`, `Acyclic`: a service is dispatched after everyone it may wait for;
  so the relation "may wait for", on dispatched services, only grows by a new
  element that nobody yet points to, and never gets a cycle.
* `Ordered`: what an acting service does not wait for any more has acted.

The crux is that dependencies are read twice, by the walk and by the goroutine.
Within a round they can only shrink (`DependenciesShrink`), so what the walk saw
covers what the goroutine sees; that is why images may arrive but not leave
within a round.

`ImplementsRounds` needs one part more, `Blamed`: a service that was not asked for
has no error, and what the waiting loop is about to report is the error of some
service; the abstract call may only fail or succeed because of those. Every step is then matched
with a step of `ServiceRounds` or with a stutter: the walk and the waits stutter or
lose a dependency (`Relax`), `Dispatch` of a service that was not asked for is `Skip`,
a goroutine that starts its action is `Act`, and that everybody it comes after is
settled then follows from `Ordered` (`NeedsAreAwaited`).

**ClientBackoff**, for any number of callers and daemon restarts. `IInv` says where
ClientOK and its goroutine can be at the same time (`Together`), that ClientOK
leaves its loop with an answer or an error and never both (`Known`), and that a
`sync.Once` that is done stands for an answer or a panic (`OnceKnown`). The last
is needed for services that only find it done.

**Respawn**, for every finite set of lines, any number of blank ones and any restart
limit. `RespInv` ties the place of a line in `execute` to its child and to the table
(`Places`), says that a line that may still start a child although `running` is
false has passed its check before and has started none since (`AtMostOneMore`),
that a line which still has an untold child, or will start one, after the children
were signalled is one that was missed then (`Told`), and that `run` has returned only after an answer from every line (`AllAnswered`,
which takes that the lines are finitely many). `ReturnIsClean` is the safety part of `Returns`,
and says too that a blank line keeps respawn from returning at all.

**BootInit**, for every set of versions, files and configurations and any number
of boots and failing calls. `Position` ties init's place in the chain to the root
it is on and to sysinit; then one part per property. `Tree`: from the new link on
the link names the version that boots, and from the rename on its tree is there;
what is under the final name was complete before it got it, so a boot cut short
leaves only `tmp`. `Carried`: a file of this boot is in memory until it is on the
new root. `Stamped`: a version with a stamp has its images, or lost them in a
crash between stamp and load, or loads them now. `Preloaded`: an archive that was
handed to a daemon is loaded, is lost or is being read, and it is being read only
after sysinit was started. `Serving`: which step goes with which daemons.

**CloudInitBoots**, for every set of machines and any number of boots; the
selection is reached through the instance of `CloudInitSelect`. `Phases` says which
parts of a boot run together. `Selecting`: a goroutine that ended without being
chosen has a source that cannot become available, which makes `done` mean "all
ended for good". `Saving`: while file f is written, those before it are of this
boot. `Generations`: files outside the state partition are of this boot, and
nothing was acted on that is newer than what is stored; so a reboot or a crash
never makes a service step back. `Authorizing`: what is still to be authorized for
the user the console is at, together with what he has, covers the configuration.
`NamesAreInForce` has an invariant of its own, `Naming`, about `NetworkApply`: while a
link has a lease, dhcpcd has written resolv.conf or the user's is still to be
written. It holds for every configuration and every kernel state that earlier
applications leave.

The rest of `Converges`, about the links, does not hold for every configuration:
when two interfaces match the same MAC address and one of them is a port of a
bridge, the bridge, which is listed with that address from the next application on,
may get the other one's addresses. `LinksConverge` proves it for any links (`LinkAssumption`: their names
differ), boots and failures from two conditions:

- `Tidy`, on the configuration alone, given the names `BondName` that bonds have: it
  asks for finitely many links; no entry is a slave and a port at once (then
  createInterfaces would not set the bond's options); no bridge has the name of a
  bond; a bond is not a slave of a bond (`Opt` could not change the mode of the
  outer one otherwise).
- `Unambiguous`: while the links are done, findMatch, which compares with the
  addresses as they were listed, gives a link what is meant for it, or, for a bridge
  listed with its port's address, the entry of that port, which the kernel refuses. It
  follows from the configuration when no entry is matched by MAC address, which is
  `NamedLinksConverge`.

TLC finds both true in all states of the run `cloudinit` for `BondName` =
{"bond0"}, which include Packet's bond, VMware's MAC addresses, the bond matched by a
wildcard for MAC addresses and the bridge matched by MAC address, so that the theorem covers every machine of the run. The invariant is
`LinkInv`. `Linked`: the index lists each link but those of Wi-Fi once, and bonds have
no bond as master. `Configuring`: which links are still to do (`Waiting`) at each
step; none of those is a slave of a bond whose mode was set, which is why AddSlave
does not return early for it and takes it up; the mode of such a bond is the
configured one, since it had no slaves left when it was set; and every other link
`Conforms`. A step about one link is summed up in `Effect`, which says that the
others keep what they conform with; `OneLink` derives the invariant from it once.

**ServiceContainers**, for every set of services and configurations and however
many containers, calls, errors and crashes. `Control`: which goroutines run in
which operation. `Ids`: containers have IDs of their own, goroutines names of their
own. `Kept`: a goroutine about to remove the old container has made a new one,
which is not the old one of any other goroutine; `NeverGone` needs just that.
`Synced`: while `Create` recreates, a goroutine takes care of each container that is
out of date. `Single`: the states a recreate goes through when nothing has failed.

**PowerShutdown**, for any number of commands, names, services and restarts. `IInv`
is the types and:

* `Waiting`: in the second loop, every service that runs and was not restarted is
  at or after the place in the list where the loop is; so after the loop there is
  none. Services stop and commands stop each other's containers meanwhile, which
  only makes that set smaller.
* `Finding`: while a command that is alone is before "and now stop the console",
  the console runs; so it is in the second list, and what the loop has passed it
  remembers. `ConsoleIsStopped` assumes `Console \notin MayExit`: that the console
  does not end by itself. The run `power_console_exits` is the counterexample
  without it.
* `Racing`, when Docker calls do not fail: for every container name with which a
  command came past Inspect, one command leads: its container can still be
  created or started, or was. A command refuses only because of another one that
  leads: the one whose container is in its way, or the one that took away what it
  had found. The proof needs that a name belongs to one container at most, that
  the old container is gone when a command of its name creates, and that a
  container found for removal has the name that was asked for.

**ControlCommands**, for any number of shells, commands and faults and every set
of services, engines and consoles. `Tracks` says where a process can be in its
command and what it holds there, `Data` what the files hold. `Switching`: while
the console is down a switch is between stop and start, or a mishap is on record.
`Staged`: the image of what a process is about to write, or of what is in the
file, is on the disk. `Alone` and `OneAtATime`: unless a race is on record, a
process that has read the file will write over what it read, and two commands
about one engine do not overlap. `Keys`: the host key in the file is the one the
consoles have. `NothingElseChanges` is proved over all values of an item in force,
layer by layer through `Merge`, without assuming that nothing overtook the write. `NextBootIsStaged` needs
one invariant more, `Pulling`, which follows from `IInv` step by step: the image of the
console in the file is on the disk, or a mishap other than a switch without a pull is
on record, or a switch that named it, or is about to name its own, has its pull still
before it.

**InstallUpgrade**, for any number of disks, versions, parameters, runs, failing
steps and power failures, and both kinds of firmware. The assumptions: disks have
names of their own, the name of a partition says which disk it is on, and the
marks for a missing and a broken file are no version and no parameter. `IInv` is
the types and:

* `Grounds`, about every disk whoever works on it: without UEFI there is no ESP
  and no EFI directory (`NoEsp`); linux-current.cfg and global.cfg are not whole while
  they are truncated (`Kinds`); a disk that was installed has the loader of its
  firmware's layout, and menu and global.cfg are complete or were when they were
  truncated (`AllSound`); unless it is `unkept`, the same is true of the files of one
  of its entries (`AllStanding`); the append file of the starting partition has what
  was asked for (`Asked`). `Fallback` follows from `AllSound` and `AllStanding`.
* `Position`: what is mounted at each step. The install writes to the partition
  that the firmware starts from; an upgrade finds the same one again by its label,
  on any disk that was installed.
* `Falling`: the rename comes only when the current entry boots, or the disk is
  `unkept`. While files are copied, the files of the previous entry, or of the entry
  that is written once more, are complete or were (`Held`). This carries
  `AllStanding` through the copies, whichever of them fails.
* `Succeeding`: the files copied so far are whole (`Copied`) and the firmware's loader
  is in its place (`Loaded`), unless an error was logged.
* `Appending`: the command has the parameters of the append file, if it could be
  read; while the file is being written nothing is on record as kept; and at the end
  global.cfg, if there is one, has the command's parameters.

Lemmas say what a change of the boot directory, or of nothing, does to these
parts; then there is one for each action.

The proofs led to these corrections of the models. In `ControlCommands` the
record of races missed a file that was changed and changed back between a read and
a write, and two overlapping commands about one engine; `IncludedIsDefined`
holds only without a command cut off by a switch as well. In `PowerShutdown`
stopping a container that a third command had removed brought it back. Two
commands, as in the runs, do not reach these states. In `NetworkApply` a bond or
bridge that failed in createInterfaces was never made, though applyInterfaceConfig
tries again; a name taken by another sort of link was not refused; and an entry
with a bridge and a bond counted as a slave in createInterfaces.

Only model-checked: liveness (`Termination`, `GoroutinesEnd`, `EventuallyDown`,
`Returns`, `SaveEnds`, `BootSettles`, `DockerRuns`, `Answers`), which needs fairness
and is out of this prover's reach; and `Converges` for configurations with MAC
addresses that do not keep `Unambiguous`.

## 5. Not modelled

Parsing, schemas and validation of configuration, and the formats of the
datasources' answers: data without state. `convert.go`, which turns a service into
an API request, is data. Logging, output and the commands that only read. The
service repositories' cache of downloads. The end of `down` (orphans, `--rmi`).
Scale, Pause, Unpause and Run of a service have no caller in this program. A
container that somebody else removes while up runs. wpa_supplicant beyond being
stopped and started. Vendored code.

## 6. Plan

1. `Unambiguous` from a condition on the configuration also where entries are
   matched by MAC address: who inherits which address.
2. The cache of the service repositories, and the listeners of a project as
   processes of their own.
