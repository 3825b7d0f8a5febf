----------------------- MODULE ControlCommandsProofs -----------------------
(***************************************************************************)
(* What the ros commands keep, for any number of shells, commands and      *)
(* faults, and for every set of services, engines and consoles.            *)
(*                                                                         *)
(* IInv has a part for each question.  Tracks says where a process can be  *)
(* in its command and what it holds there, Data what the files hold; the   *)
(* theorems rest on these two and on one further part each: Switching      *)
(* (ConsoleComesBack), Staged (ConfiguredIsStaged), Keys (OneHostKey) and  *)
(* OneAtATime (IncludedIsDefined).  A console may be configured before its *)
(* image is pulled: Pulling, which follows from IInv step by step, says    *)
(* who is then going to pull it.                                           *)
(***************************************************************************)
EXTENDS ControlCommands, SequenceTheorems, TLAPS

-----------------------------------------------------------------------------
(* Where a process is: what is left of its command.                        *)

EnablePath == {<<"load", "stage", "set", "write">>, <<"stage", "set", "write">>,
               <<"set", "write">>, <<"write">>}
SetPath == {<<"set", "write">>, <<"write">>}
DisablePath == {<<"load", "set", "write">>, <<"set", "write">>, <<"write">>}
CreatePath ==
    {<<"validate", "compose", "truncate", "rewrite", "load", "stage", "set", "write",
       "script">>,
     <<"compose", "truncate", "rewrite", "load", "stage", "set", "write", "script">>,
     <<"truncate", "rewrite", "load", "stage", "set", "write", "script">>,
     <<"rewrite", "load", "stage", "set", "write", "script">>,
     <<"load", "stage", "set", "write", "script">>, <<"stage", "set", "write", "script">>,
     <<"set", "write", "script">>, <<"write", "script">>, <<"script">>}
RemovePath ==
    {<<"load", "stop-dind", "check", "set", "write", "compose", "truncate", "rewrite",
       "unscript">>,
     <<"stop-dind", "check", "set", "write", "compose", "truncate", "rewrite", "unscript">>,
     <<"check", "set", "write", "compose", "truncate", "rewrite", "unscript">>,
     <<"set", "write", "compose", "truncate", "rewrite", "unscript">>,
     <<"write", "compose", "truncate", "rewrite", "unscript">>,
     <<"compose", "truncate", "rewrite", "unscript">>, <<"truncate", "rewrite", "unscript">>,
     <<"rewrite", "unscript">>, <<"unscript">>}
LaunchDefaultPath == {<<"load", "launch">>, <<"launch">>}
LaunchPath == {<<"load", "stage", "launch">>, <<"stage", "launch">>, <<"launch">>}
SwitchDefaultPath ==
    {<<"load", "stop-docker", "stop-console", "set", "write", "up-console", "start-docker">>,
     <<"stop-docker", "stop-console", "set", "write", "up-console", "start-docker">>,
     <<"stop-console", "set", "write", "up-console", "start-docker">>,
     <<"set", "write", "up-console", "start-docker">>,
     <<"write", "up-console", "start-docker">>, <<"up-console", "start-docker">>,
     <<"start-docker">>}
SwitchPath ==
    {<<"load", "stop-docker", "stop-console", "load-special", "set", "write", "up-console",
       "start-docker">>,
     <<"stop-docker", "stop-console", "load-special", "set", "write", "up-console",
       "start-docker">>,
     <<"stop-console", "load-special", "set", "write", "up-console", "start-docker">>,
     <<"load-special", "set", "write", "up-console", "start-docker">>,
     <<"set", "write", "up-console", "start-docker">>,
     <<"write", "up-console", "start-docker">>, <<"up-console", "start-docker">>,
     <<"start-docker">>}
EngineSwitchPath ==
    {<<"load", "stop-docker", "load-special", "up-docker", "set", "write">>,
     <<"stop-docker", "load-special", "up-docker", "set", "write">>,
     <<"load-special", "up-docker", "set", "write">>, <<"up-docker", "set", "write">>,
     <<"set", "write">>, <<"write">>}
InitPath ==
    {<<"load", "ssh", "set", "write", "set", "write", "scripts", "done", "first-run">>,
     <<"ssh", "set", "write", "set", "write", "scripts", "done", "first-run">>,
     <<"set", "write", "set", "write", "scripts", "done", "first-run">>,
     <<"write", "set", "write", "scripts", "done", "first-run">>,
     <<"set", "write", "scripts", "done", "first-run">>,
     <<"write", "scripts", "done", "first-run">>, <<"scripts", "done", "first-run">>,
     <<"done", "first-run">>, <<"first-run">>, <<"wait">>}

OnTrack(r) ==
    r.todo # <<>> =>
        /\ r.do \in {"enable", "engine-enable"} => r.todo \in EnablePath
        /\ r.do \in {"disable", "delete"} => r.todo \in DisablePath
        /\ r.do \in {"config-set", "config-merge"} => r.todo \in SetPath
        /\ r.do = "console-enable" /\ r.arg = Default => r.todo \in DisablePath
        /\ r.do = "console-enable" /\ r.arg # Default => r.todo \in EnablePath
        /\ r.do = "console-switch" /\ r.arg = Default => r.todo \in LaunchDefaultPath
        /\ r.do = "console-switch" /\ r.arg # Default => r.todo \in LaunchPath
        /\ r.do = "switch" /\ r.arg = Default => r.todo \in SwitchDefaultPath
        /\ r.do = "switch" /\ r.arg # Default => r.todo \in SwitchPath
        /\ r.do = "engine-switch" => r.todo \in EngineSwitchPath
        /\ r.do = "create" => r.todo \in CreatePath
        /\ r.do = "rm" => r.todo \in RemovePath
        /\ r.do = "init" => r.todo \in InitPath

\* The next step is x, the one after that y, and n are left.
Follows(t, y) == Tail(t) # <<>> /\ Head(Tail(t)) = y /\ Len(Tail(t)) = Len(t) - 1
Ends(t) == Tail(t) = <<>>
Spot(t, n, x, y) == Len(t) = n /\ Head(t) = x /\ Follows(t, y)
Final(t, x) == Len(t) = 1 /\ Head(t) = x /\ Ends(t)

Enabling(t) ==
    \/ Spot(t, 4, "load", "stage") \/ Spot(t, 3, "stage", "set") \/ Spot(t, 2, "set", "write")
    \/ Final(t, "write")
Setting(t) == Spot(t, 2, "set", "write") \/ Final(t, "write")
Disabling(t) == Spot(t, 3, "load", "set") \/ Spot(t, 2, "set", "write") \/ Final(t, "write")
Creating(t) ==
    \/ Spot(t, 9, "validate", "compose") \/ Spot(t, 8, "compose", "truncate")
    \/ Spot(t, 7, "truncate", "rewrite") \/ Spot(t, 6, "rewrite", "load")
    \/ Spot(t, 5, "load", "stage") \/ Spot(t, 4, "stage", "set") \/ Spot(t, 3, "set", "write")
    \/ Spot(t, 2, "write", "script") \/ Final(t, "script")
Removing(t) ==
    \/ Spot(t, 9, "load", "stop-dind") \/ Spot(t, 8, "stop-dind", "check")
    \/ Spot(t, 7, "check", "set") \/ Spot(t, 6, "set", "write")
    \/ Spot(t, 5, "write", "compose") \/ Spot(t, 4, "compose", "truncate")
    \/ Spot(t, 3, "truncate", "rewrite") \/ Spot(t, 2, "rewrite", "unscript")
    \/ Final(t, "unscript")
LaunchingDefault(t) == Spot(t, 2, "load", "launch") \/ Final(t, "launch")
Launching(t) == Spot(t, 3, "load", "stage") \/ Spot(t, 2, "stage", "launch") \/ Final(t, "launch")
SwitchingDefault(t) ==
    \/ Spot(t, 7, "load", "stop-docker") \/ Spot(t, 6, "stop-docker", "stop-console")
    \/ Spot(t, 5, "stop-console", "set") \/ Spot(t, 4, "set", "write")
    \/ Spot(t, 3, "write", "up-console") \/ Spot(t, 2, "up-console", "start-docker")
    \/ Final(t, "start-docker")
SwitchingTo(t) ==
    \/ Spot(t, 8, "load", "stop-docker") \/ Spot(t, 7, "stop-docker", "stop-console")
    \/ Spot(t, 6, "stop-console", "load-special") \/ Spot(t, 5, "load-special", "set")
    \/ Spot(t, 4, "set", "write") \/ Spot(t, 3, "write", "up-console")
    \/ Spot(t, 2, "up-console", "start-docker") \/ Final(t, "start-docker")
EngineSwitching(t) ==
    \/ Spot(t, 6, "load", "stop-docker") \/ Spot(t, 5, "stop-docker", "load-special")
    \/ Spot(t, 4, "load-special", "up-docker") \/ Spot(t, 3, "up-docker", "set")
    \/ Spot(t, 2, "set", "write") \/ Final(t, "write")
Initing(t) ==
    \/ Spot(t, 9, "load", "ssh") \/ Spot(t, 8, "ssh", "set") \/ Spot(t, 7, "set", "write")
    \/ Spot(t, 6, "write", "set") \/ Spot(t, 5, "set", "write")
    \/ Spot(t, 4, "write", "scripts") \/ Spot(t, 3, "scripts", "done")
    \/ Spot(t, 2, "done", "first-run") \/ Final(t, "first-run") \/ Final(t, "wait")

\* Which commands a process runs, and with what.
ShellDo == {"enable", "disable", "delete", "config-merge", "config-set", "console-enable",
            "console-switch", "engine-enable", "engine-switch", "create", "rm"}
Fits(p, r) ==
    /\ p = "switch" => r.do = "switch"
    /\ p = "init" => r.do = "init"
    /\ p = "first" => r.do = "engine-switch"
    /\ p \in Shells => r.do \in ShellDo
    /\ r.do \in {"enable", "disable", "delete", "config-merge"} => r.arg \in Services
    /\ r.do \in {"config-set", "console-enable", "console-switch", "switch"} => r.arg \in Consoles
    /\ r.do \in {"engine-enable", "engine-switch"} => r.arg \in Engines
    /\ r.do \in {"create", "rm"} => r.arg \in Dinds

\* How many steps are left.
Left(r) == Len(r.todo)

-----------------------------------------------------------------------------
(* What a process holds.                                                   *)

IsRecord(r) == r = [todo |-> r.todo, do |-> r.do, arg |-> r.arg, cfg |-> r.cfg,
                    read |-> r.read, base |-> r.base, defs |-> r.defs]
Comes(r, step) == r.todo # <<>> /\ Head(r.todo) = step
ServiceDo == {"enable", "disable", "delete", "create", "rm"}
Loaded == {"stage", "set", "write", "stop-dind", "check"}

Holds(r) ==
    /\ r.read \in Configs \cup {None} /\ (r.read # None <=> Comes(r, "write"))
    /\ r.defs \in [Dinds -> BOOLEAN] \cup {None}
    /\ r.defs # None <=> Comes(r, "truncate") \/ Comes(r, "rewrite")
    /\ r.do \in ServiceDo /\ (\E x \in Loaded : Comes(r, x)) =>
          r.base \in Configs /\ r.cfg = Changed(LoadConfig(r.base), r.do, r.arg)
    /\ r.do = "init" /\ r.todo # <<>> /\ ~Comes(r, "load") =>
          r.cfg \in Configs /\ r.cfg.engine # None

Good(p, r) ==
    /\ IsRecord(r) /\ OnTrack(r) /\ Holds(r)
    /\ r.todo # <<>> => Fits(p, r)

Tracks == /\ pr = [p \in Processes |-> pr[p]]
          /\ \A p \in Processes : Good(p, pr[p])

Data == /\ file \in Configs /\ compose \in [Dinds -> BOOLEAN] \cup {Torn}
        /\ hostKey \in Nat /\ keys \in Nat

\* While the console is down its switch goes on, unless that has failed.
Switching ==
    ~conUp /\ "error" \notin mishaps => Running("switch") /\ Left(pr["switch"]) >= 2

\* What has been read and what is about to be written is on the disk; a console may
\* be missing if users asked for that.
OnDisk(c, disk, w) ==
    /\ c.engine \in disk \cup {Latest, None}
    /\ {"by-hand", "no-pull"} \cap w = {} => c.console \in disk \cup {Default, None}
Ready(r, disk, w) ==
    /\ r.read # None => OnDisk(r.read, disk, w)
    /\ r.do \in {"engine-enable", "engine-switch"} /\ (Comes(r, "set") \/ Comes(r, "write")) =>
          r.arg \in disk
    /\ r.do = "console-enable" /\ (Comes(r, "set") \/ Comes(r, "write")) =>
          r.arg \in disk \cup {Default}
    /\ "by-hand" \notin w => (r.todo # <<>> => r.do # "config-set")
    /\ "no-pull" \notin w =>
          /\ r.do = "console-switch" /\ Comes(r, "launch") => r.arg \in disk \cup {Default}
          /\ r.do = "switch" /\ r.todo # <<>> => r.arg \in disk \cup {Default}
Staged ==
    OnDisk(file, images, mishaps) /\ \A p \in Processes : Ready(pr[p], images, mishaps)

\* console-init works alone until it starts Docker for the first time, and a
\* switch has only Docker to start by then.
Alone ==
    Running("init") =>
        /\ Running("switch") => Left(pr["switch"]) = 1
        /\ \A p \in Shells : ~Running(p)
        /\ ~At("init", "wait") => ~Running("first")

\* While console-init saves a new key nothing else happens; then the key is there.
HasKey(c) == c.key # None /\ c.pub # None
Saving == Running("init") /\ Left(pr["init"]) \in {4, 5, 6, 7}
Keys ==
    {"crash", "not-saved"} \cap mishaps = {} =>
        /\ keys <= 1
        /\ Saving => hostKey # 0 /\ hostKey = keys
        /\ Saving /\ Left(pr["init"]) \in {4, 6} => pr["init"].read = file
        /\ Saving /\ Left(pr["init"]) \in {4, 5} => file.key = hostKey
        /\ keys = 1 /\ ~Saving =>
              /\ HasKey(file)
              /\ \A p \in Processes : pr[p].read # None => HasKey(pr[p].read)
              /\ At("init", "ssh") => HasKey(pr["init"].cfg)

\* The engines of the compose file, or those that are about to be written to it.
Rewriting(p) == At(p, "rewrite")
Effective(d) ==
    /\ \A p \in Processes : Rewriting(p) => pr[p].defs[d]
    /\ (\A p \in Processes : ~Rewriting(p)) => compose # Torn /\ compose[d]

\* One command per engine, and one at a time for the compose file; an engine that
\* is created is defined before it is included, one that is removed is excluded
\* before it is undefined.
Changes(p) == Running(p) /\ pr[p].do \in {"create", "rm"}
OneAtATime ==
    {"race", "crash", "cut", "torn"} \cap mishaps = {} =>
        /\ \A p, q \in Processes : Changes(p) /\ Changes(q) /\ pr[p].arg = pr[q].arg => p = q
        /\ \A p, q \in Processes : pr[p].defs # None /\ pr[q].defs # None => p = q
        /\ \A p \in Processes : At(p, "truncate") =>
              compose # Torn /\ pr[p].defs = [compose EXCEPT ![pr[p].arg] = pr[p].do = "create"]
        /\ (\A p \in Processes : ~Rewriting(p)) => compose # Torn
        /\ \A d \in Included(file) : Effective(d)
        /\ \A p \in Processes :
              /\ pr[p].do = "create" /\ Running(p) /\ Left(pr[p]) <= 5 => Effective(pr[p].arg)
              /\ pr[p].do = "create" /\ Rewriting(p) => pr[p].defs[pr[p].arg]
              /\ pr[p].do = "rm" /\ Running(p) /\ Left(pr[p]) <= 4 =>
                    pr[p].arg \notin Included(file)

IInv == Tracks /\ Data /\ Switching /\ Staged /\ Alone /\ Keys /\ OneAtATime

-----------------------------------------------------------------------------
\* What is left of a command is one of its places, and a step leads to the next:
\* ros service enable, engine enable and console enable,
LEMMA EnablingPlaces ==
  ASSUME NEW t \in EnablePath
  PROVE  Enabling(t) /\ Tail(t) \in EnablePath \cup {<<>>}
<1>1. CASE t = <<"load", "stage", "set", "write">>
  BY <1>1 DEF Enabling, Spot, Follows, EnablePath
<1>2. CASE t = <<"stage", "set", "write">>
  BY <1>2 DEF Enabling, Spot, Follows, EnablePath
<1>3. CASE t = <<"set", "write">>
  BY <1>3 DEF Enabling, Spot, Follows, EnablePath
<1>4. CASE t = <<"write">>
  BY <1>4 DEF Enabling, Final, Ends, EnablePath
<1> QED
  BY <1>1, <1>2, <1>3, <1>4 DEF EnablePath

\* config set and config merge,
LEMMA SettingPlaces ==
  ASSUME NEW t \in SetPath
  PROVE  Setting(t) /\ Tail(t) \in SetPath \cup {<<>>}
<1>1. CASE t = <<"set", "write">>
  BY <1>1 DEF Setting, Spot, Follows, SetPath
<1>2. CASE t = <<"write">>
  BY <1>2 DEF Setting, Final, Ends, SetPath
<1> QED
  BY <1>1, <1>2 DEF SetPath

\* service disable and delete, console enable of the default console,
LEMMA DisablingPlaces ==
  ASSUME NEW t \in DisablePath
  PROVE  Disabling(t) /\ Tail(t) \in DisablePath \cup {<<>>}
<1>1. CASE t = <<"load", "set", "write">>
  BY <1>1 DEF Disabling, Spot, Follows, DisablePath
<1>2. CASE t = <<"set", "write">>
  BY <1>2 DEF Disabling, Spot, Follows, DisablePath
<1>3. CASE t = <<"write">>
  BY <1>3 DEF Disabling, Final, Ends, DisablePath
<1> QED
  BY <1>1, <1>2, <1>3 DEF DisablePath

\* engine create,
LEMMA CreatingPlaces ==
  ASSUME NEW t \in CreatePath
  PROVE  Creating(t) /\ Tail(t) \in CreatePath \cup {<<>>}
<1>1. CASE t = <<"validate", "compose", "truncate", "rewrite", "load", "stage", "set",
                 "write", "script">>
  BY <1>1 DEF Creating, Spot, Follows, CreatePath
<1>2. CASE t = <<"compose", "truncate", "rewrite", "load", "stage", "set", "write", "script">>
  BY <1>2 DEF Creating, Spot, Follows, CreatePath
<1>3. CASE t = <<"truncate", "rewrite", "load", "stage", "set", "write", "script">>
  BY <1>3 DEF Creating, Spot, Follows, CreatePath
<1>4. CASE t = <<"rewrite", "load", "stage", "set", "write", "script">>
  BY <1>4 DEF Creating, Spot, Follows, CreatePath
<1>5. CASE t = <<"load", "stage", "set", "write", "script">>
  BY <1>5 DEF Creating, Spot, Follows, CreatePath
<1>6. CASE t = <<"stage", "set", "write", "script">>
  BY <1>6 DEF Creating, Spot, Follows, CreatePath
<1>7. CASE t = <<"set", "write", "script">>
  BY <1>7 DEF Creating, Spot, Follows, CreatePath
<1>8. CASE t = <<"write", "script">>
  BY <1>8 DEF Creating, Spot, Follows, CreatePath
<1>9. CASE t = <<"script">>
  BY <1>9 DEF Creating, Final, Ends, CreatePath
<1> QED
  BY <1>1, <1>2, <1>3, <1>4, <1>5, <1>6, <1>7, <1>8, <1>9 DEF CreatePath

\* engine rm,
LEMMA RemovingPlaces ==
  ASSUME NEW t \in RemovePath
  PROVE  Removing(t) /\ Tail(t) \in RemovePath \cup {<<>>}
<1>1. CASE t = <<"load", "stop-dind", "check", "set", "write", "compose", "truncate",
                 "rewrite", "unscript">>
  BY <1>1 DEF Removing, Spot, Follows, RemovePath
<1>2. CASE t = <<"stop-dind", "check", "set", "write", "compose", "truncate", "rewrite",
                 "unscript">>
  BY <1>2 DEF Removing, Spot, Follows, RemovePath
<1>3. CASE t = <<"check", "set", "write", "compose", "truncate", "rewrite", "unscript">>
  BY <1>3 DEF Removing, Spot, Follows, RemovePath
<1>4. CASE t = <<"set", "write", "compose", "truncate", "rewrite", "unscript">>
  BY <1>4 DEF Removing, Spot, Follows, RemovePath
<1>5. CASE t = <<"write", "compose", "truncate", "rewrite", "unscript">>
  BY <1>5 DEF Removing, Spot, Follows, RemovePath
<1>6. CASE t = <<"compose", "truncate", "rewrite", "unscript">>
  BY <1>6 DEF Removing, Spot, Follows, RemovePath
<1>7. CASE t = <<"truncate", "rewrite", "unscript">>
  BY <1>7 DEF Removing, Spot, Follows, RemovePath
<1>8. CASE t = <<"rewrite", "unscript">>
  BY <1>8 DEF Removing, Spot, Follows, RemovePath
<1>9. CASE t = <<"unscript">>
  BY <1>9 DEF Removing, Final, Ends, RemovePath
<1> QED
  BY <1>1, <1>2, <1>3, <1>4, <1>5, <1>6, <1>7, <1>8, <1>9 DEF RemovePath

\* console switch to the default console,
LEMMA LaunchingDefaultPlaces ==
  ASSUME NEW t \in LaunchDefaultPath
  PROVE  LaunchingDefault(t) /\ Tail(t) \in LaunchDefaultPath \cup {<<>>}
<1>1. CASE t = <<"load", "launch">>
  BY <1>1 DEF LaunchingDefault, Spot, Follows, LaunchDefaultPath
<1>2. CASE t = <<"launch">>
  BY <1>2 DEF LaunchingDefault, Final, Ends, LaunchDefaultPath
<1> QED
  BY <1>1, <1>2 DEF LaunchDefaultPath

\* console switch to another,
LEMMA LaunchingPlaces ==
  ASSUME NEW t \in LaunchPath
  PROVE  Launching(t) /\ Tail(t) \in LaunchPath \cup {<<>>}
<1>1. CASE t = <<"load", "stage", "launch">>
  BY <1>1 DEF Launching, Spot, Follows, LaunchPath
<1>2. CASE t = <<"stage", "launch">>
  BY <1>2 DEF Launching, Spot, Follows, LaunchPath
<1>3. CASE t = <<"launch">>
  BY <1>3 DEF Launching, Final, Ends, LaunchPath
<1> QED
  BY <1>1, <1>2, <1>3 DEF LaunchPath

\* switch-console with the default console,
LEMMA SwitchingDefaultPlaces ==
  ASSUME NEW t \in SwitchDefaultPath
  PROVE  SwitchingDefault(t) /\ Tail(t) \in SwitchDefaultPath \cup {<<>>}
<1>1. CASE t = <<"load", "stop-docker", "stop-console", "set", "write", "up-console",
                 "start-docker">>
  BY <1>1 DEF SwitchingDefault, Spot, Follows, SwitchDefaultPath
<1>2. CASE t = <<"stop-docker", "stop-console", "set", "write", "up-console", "start-docker">>
  BY <1>2 DEF SwitchingDefault, Spot, Follows, SwitchDefaultPath
<1>3. CASE t = <<"stop-console", "set", "write", "up-console", "start-docker">>
  BY <1>3 DEF SwitchingDefault, Spot, Follows, SwitchDefaultPath
<1>4. CASE t = <<"set", "write", "up-console", "start-docker">>
  BY <1>4 DEF SwitchingDefault, Spot, Follows, SwitchDefaultPath
<1>5. CASE t = <<"write", "up-console", "start-docker">>
  BY <1>5 DEF SwitchingDefault, Spot, Follows, SwitchDefaultPath
<1>6. CASE t = <<"up-console", "start-docker">>
  BY <1>6 DEF SwitchingDefault, Spot, Follows, SwitchDefaultPath
<1>7. CASE t = <<"start-docker">>
  BY <1>7 DEF SwitchingDefault, Final, Ends, SwitchDefaultPath
<1> QED
  BY <1>1, <1>2, <1>3, <1>4, <1>5, <1>6, <1>7 DEF SwitchDefaultPath

\* switch-console with another,
LEMMA SwitchingToPlaces ==
  ASSUME NEW t \in SwitchPath
  PROVE  SwitchingTo(t) /\ Tail(t) \in SwitchPath \cup {<<>>}
<1>1. CASE t = <<"load", "stop-docker", "stop-console", "load-special", "set", "write",
                 "up-console", "start-docker">>
  BY <1>1 DEF SwitchingTo, Spot, Follows, SwitchPath
<1>2. CASE t = <<"stop-docker", "stop-console", "load-special", "set", "write",
                 "up-console", "start-docker">>
  BY <1>2 DEF SwitchingTo, Spot, Follows, SwitchPath
<1>3. CASE t = <<"stop-console", "load-special", "set", "write", "up-console",
                 "start-docker">>
  BY <1>3 DEF SwitchingTo, Spot, Follows, SwitchPath
<1>4. CASE t = <<"load-special", "set", "write", "up-console", "start-docker">>
  BY <1>4 DEF SwitchingTo, Spot, Follows, SwitchPath
<1>5. CASE t = <<"set", "write", "up-console", "start-docker">>
  BY <1>5 DEF SwitchingTo, Spot, Follows, SwitchPath
<1>6. CASE t = <<"write", "up-console", "start-docker">>
  BY <1>6 DEF SwitchingTo, Spot, Follows, SwitchPath
<1>7. CASE t = <<"up-console", "start-docker">>
  BY <1>7 DEF SwitchingTo, Spot, Follows, SwitchPath
<1>8. CASE t = <<"start-docker">>
  BY <1>8 DEF SwitchingTo, Final, Ends, SwitchPath
<1> QED
  BY <1>1, <1>2, <1>3, <1>4, <1>5, <1>6, <1>7, <1>8 DEF SwitchPath

\* engine switch,
LEMMA EngineSwitchingPlaces ==
  ASSUME NEW t \in EngineSwitchPath
  PROVE  EngineSwitching(t) /\ Tail(t) \in EngineSwitchPath \cup {<<>>}
<1>1. CASE t = <<"load", "stop-docker", "load-special", "up-docker", "set", "write">>
  BY <1>1 DEF EngineSwitching, Spot, Follows, EngineSwitchPath
<1>2. CASE t = <<"stop-docker", "load-special", "up-docker", "set", "write">>
  BY <1>2 DEF EngineSwitching, Spot, Follows, EngineSwitchPath
<1>3. CASE t = <<"load-special", "up-docker", "set", "write">>
  BY <1>3 DEF EngineSwitching, Spot, Follows, EngineSwitchPath
<1>4. CASE t = <<"up-docker", "set", "write">>
  BY <1>4 DEF EngineSwitching, Spot, Follows, EngineSwitchPath
<1>5. CASE t = <<"set", "write">>
  BY <1>5 DEF EngineSwitching, Spot, Follows, EngineSwitchPath
<1>6. CASE t = <<"write">>
  BY <1>6 DEF EngineSwitching, Final, Ends, EngineSwitchPath
<1> QED
  BY <1>1, <1>2, <1>3, <1>4, <1>5, <1>6 DEF EngineSwitchPath

\* and console-init.
LEMMA InitingPlaces ==
  ASSUME NEW t \in InitPath
  PROVE  Initing(t) /\ Tail(t) \in InitPath \cup {<<>>}
<1>1. CASE t = <<"load", "ssh", "set", "write", "set", "write", "scripts", "done",
                 "first-run">>
  BY <1>1 DEF Initing, Spot, Follows, InitPath
<1>2. CASE t = <<"ssh", "set", "write", "set", "write", "scripts", "done", "first-run">>
  BY <1>2 DEF Initing, Spot, Follows, InitPath
<1>3. CASE t = <<"set", "write", "set", "write", "scripts", "done", "first-run">>
  BY <1>3 DEF Initing, Spot, Follows, InitPath
<1>4. CASE t = <<"write", "set", "write", "scripts", "done", "first-run">>
  BY <1>4 DEF Initing, Spot, Follows, InitPath
<1>5. CASE t = <<"set", "write", "scripts", "done", "first-run">>
  BY <1>5 DEF Initing, Spot, Follows, InitPath
<1>6. CASE t = <<"write", "scripts", "done", "first-run">>
  BY <1>6 DEF Initing, Spot, Follows, InitPath
<1>7. CASE t = <<"scripts", "done", "first-run">>
  BY <1>7 DEF Initing, Spot, Follows, InitPath
<1>8. CASE t = <<"done", "first-run">>
  BY <1>8 DEF Initing, Spot, Follows, InitPath
<1>9. CASE t = <<"first-run">>
  BY <1>9 DEF Initing, Final, Ends, InitPath
<1>10. CASE t = <<"wait">>
  BY <1>10 DEF Initing, Final, Ends, InitPath
<1> QED
  BY <1>1, <1>2, <1>3, <1>4, <1>5, <1>6, <1>7, <1>8, <1>9, <1>10 DEF InitPath

\* What the next step is, and what comes after it, in all the commands: the file is
\* written after it was read, the compose file after it was read and truncated;
\* what was loaded is used, and what is configured was staged before.
Shape(r) ==
    LET s == Head(r.todo)
        n == Left(r)
        rest == Tail(r.todo)
        Then(x) == rest # <<>> /\ Head(rest) = x
    IN  /\ n \in Nat /\ n >= 1 /\ Len(rest) = n - 1 /\ (rest = <<>> <=> n = 1)
        /\ Then("write") <=> s = "set"
        /\ Then("truncate") <=> s = "compose"
        /\ Then("rewrite") <=> s = "truncate"
        /\ r.do \in ServiceDo /\ (\E x \in Loaded : Then(x)) => s \in Loaded \cup {"load"}
        /\ r.do = "init" => ~Then("load")
        /\ r.do \in {"console-enable", "engine-enable", "engine-switch"} /\ Then("set") =>
              \/ s \in {"stage", "up-docker"}
              \/ s = "load" /\ r.do = "console-enable" /\ r.arg = Default
        /\ r.do = "console-switch" /\ Then("launch") => s = "stage" \/ r.arg = Default
\* Whose the steps are,
Belongs(r) ==
    LET s == Head(r.todo)
    IN  /\ s \in {"stop-console", "up-console", "start-docker"} => r.do = "switch"
        /\ s \in {"ssh", "scripts", "done", "first-run", "wait"} => r.do = "init"
        /\ s \in {"compose", "truncate", "rewrite", "script", "unscript", "validate",
                  "stop-dind", "check"} => r.do \in {"create", "rm"}
        /\ s = "launch" => r.do = "console-switch"
        /\ s = "stage" => r.do \notin {"switch", "init"}
        /\ s = "write" => r.do \notin {"console-switch"}
\* and how many are left at some of them.
Counts(do, s, n) ==
    /\ do = "switch" => /\ n = 1 <=> s = "start-docker"
                        /\ n = 2 <=> s = "up-console"
                        /\ n = 3 <=> s = "write"
                        /\ s = "stop-console" => n \in {5, 6}
    /\ do = "init" => /\ n \in {1, 2, 3, 4, 5, 6, 7, 8, 9}
                      /\ n = 9 <=> s = "load"
                      /\ n = 8 <=> s = "ssh"
                      /\ n \in {5, 7} <=> s = "set"
                      /\ n \in {4, 6} <=> s = "write"
                      /\ n = 3 <=> s = "scripts"
                      /\ n = 2 <=> s = "done"
                      /\ n = 1 <=> s \in {"first-run", "wait"}
    /\ do = "create" => /\ n = 8 <=> s = "compose"
                        /\ n = 7 <=> s = "truncate"
                        /\ n = 6 <=> s = "rewrite"
                        /\ n = 5 <=> s = "load"
                        /\ n = 2 <=> s = "write"
    /\ do = "rm" => /\ n = 5 <=> s = "write"
                    /\ n = 4 <=> s = "compose"
                    /\ n = 3 <=> s = "truncate"
                    /\ n = 2 <=> s = "rewrite"

\* The counts of the commands whose places are counted.
LEMMA Counted ==
  ASSUME NEW t
  PROVE  /\ SwitchingDefault(t) \/ SwitchingTo(t) => Counts("switch", Head(t), Len(t))
         /\ Creating(t) => Counts("create", Head(t), Len(t))
         /\ Removing(t) => Counts("rm", Head(t), Len(t))
         /\ Initing(t) => Counts("init", Head(t), Len(t))
<1> USE DEF Counts, Spot, Final
<1>1. SwitchingDefault(t) => Counts("switch", Head(t), Len(t))
  BY DEF SwitchingDefault
<1>2. SwitchingTo(t) => Counts("switch", Head(t), Len(t))
  BY DEF SwitchingTo
<1>3. Creating(t) => Counts("create", Head(t), Len(t))
  BY DEF Creating
<1>4. Removing(t) => Counts("rm", Head(t), Len(t))
  BY DEF Removing
<1>5. Initing(t) => Counts("init", Head(t), Len(t))
  BY DEF Initing
<1> QED
  BY <1>1, <1>2, <1>3, <1>4, <1>5

\* A process that is on track has these, and stays on track.
LEMMA Table ==
  ASSUME NEW p \in Processes, NEW r, OnTrack(r), Fits(p, r), r.todo # <<>>
  PROVE  /\ Shape(r) /\ Belongs(r) /\ Counts(r.do, Head(r.todo), Left(r))
         /\ \A x : x.do = r.do /\ x.arg = r.arg /\ x.todo = Tail(r.todo) => OnTrack(x)
<1>1. r.do \in ShellDo \cup {"switch", "init"}
  BY DEF Fits, Processes, ShellDo
<1> USE DEF Loaded, ServiceDo, Spot, Final
<1>2. CASE r.do \in {"enable", "engine-enable"}
  <2>1. r.todo \in EnablePath
    BY <1>2 DEF OnTrack
  <2>2. Enabling(r.todo)
    BY <2>1, EnablingPlaces
  <2>3. Tail(r.todo) \in EnablePath \cup {<<>>}
    BY <2>1, EnablingPlaces
  <2>4. Shape(r)
    BY <1>2, <2>2 DEF Enabling, Shape, Follows, Ends, Left
  <2>5. Belongs(r)
    BY <1>2, <2>2 DEF Enabling, Belongs
  <2>6. Counts(r.do, Head(r.todo), Left(r))
    BY <1>2 DEF Counts
  <2> QED
    BY <1>2, <2>3, <2>4, <2>5, <2>6 DEF OnTrack
<1>3. CASE r.do \in {"disable", "delete"}
  <2>1. r.todo \in DisablePath
    BY <1>3 DEF OnTrack
  <2>2. Disabling(r.todo)
    BY <2>1, DisablingPlaces
  <2>3. Tail(r.todo) \in DisablePath \cup {<<>>}
    BY <2>1, DisablingPlaces
  <2>4. Shape(r)
    BY <1>3, <2>2 DEF Disabling, Shape, Follows, Ends, Left
  <2>5. Belongs(r)
    BY <1>3, <2>2 DEF Disabling, Belongs
  <2>6. Counts(r.do, Head(r.todo), Left(r))
    BY <1>3 DEF Counts
  <2> QED
    BY <1>3, <2>3, <2>4, <2>5, <2>6 DEF OnTrack
<1>4. CASE r.do \in {"config-set", "config-merge"}
  <2>1. r.todo \in SetPath
    BY <1>4 DEF OnTrack
  <2>2. Setting(r.todo)
    BY <2>1, SettingPlaces
  <2>3. Tail(r.todo) \in SetPath \cup {<<>>}
    BY <2>1, SettingPlaces
  <2>4. Shape(r)
    BY <1>4, <2>2 DEF Setting, Shape, Follows, Ends, Left
  <2>5. Belongs(r)
    BY <1>4, <2>2 DEF Setting, Belongs
  <2>6. Counts(r.do, Head(r.todo), Left(r))
    BY <1>4 DEF Counts
  <2> QED
    BY <1>4, <2>3, <2>4, <2>5, <2>6 DEF OnTrack
<1>5. CASE r.do = "console-enable" /\ r.arg = Default
  <2>1. r.todo \in DisablePath
    BY <1>5 DEF OnTrack
  <2>2. Disabling(r.todo)
    BY <2>1, DisablingPlaces
  <2>3. Tail(r.todo) \in DisablePath \cup {<<>>}
    BY <2>1, DisablingPlaces
  <2>4. Shape(r)
    BY <1>5, <2>2 DEF Disabling, Shape, Follows, Ends, Left
  <2>5. Belongs(r)
    BY <1>5, <2>2 DEF Disabling, Belongs
  <2>6. Counts(r.do, Head(r.todo), Left(r))
    BY <1>5 DEF Counts
  <2> QED
    BY <1>5, <2>3, <2>4, <2>5, <2>6 DEF OnTrack
<1>6. CASE r.do = "console-enable" /\ r.arg # Default
  <2>1. r.todo \in EnablePath
    BY <1>6 DEF OnTrack
  <2>2. Enabling(r.todo)
    BY <2>1, EnablingPlaces
  <2>3. Tail(r.todo) \in EnablePath \cup {<<>>}
    BY <2>1, EnablingPlaces
  <2>4. Shape(r)
    BY <1>6, <2>2 DEF Enabling, Shape, Follows, Ends, Left
  <2>5. Belongs(r)
    BY <1>6, <2>2 DEF Enabling, Belongs
  <2>6. Counts(r.do, Head(r.todo), Left(r))
    BY <1>6 DEF Counts
  <2> QED
    BY <1>6, <2>3, <2>4, <2>5, <2>6 DEF OnTrack
<1>7. CASE r.do = "console-switch" /\ r.arg = Default
  <2>1. r.todo \in LaunchDefaultPath
    BY <1>7 DEF OnTrack
  <2>2. LaunchingDefault(r.todo)
    BY <2>1, LaunchingDefaultPlaces
  <2>3. Tail(r.todo) \in LaunchDefaultPath \cup {<<>>}
    BY <2>1, LaunchingDefaultPlaces
  <2>4. Shape(r)
    BY <1>7, <2>2 DEF LaunchingDefault, Shape, Follows, Ends, Left
  <2>5. Belongs(r)
    BY <1>7, <2>2 DEF LaunchingDefault, Belongs
  <2>6. Counts(r.do, Head(r.todo), Left(r))
    BY <1>7 DEF Counts
  <2> QED
    BY <1>7, <2>3, <2>4, <2>5, <2>6 DEF OnTrack
<1>8. CASE r.do = "console-switch" /\ r.arg # Default
  <2>1. r.todo \in LaunchPath
    BY <1>8 DEF OnTrack
  <2>2. Launching(r.todo)
    BY <2>1, LaunchingPlaces
  <2>3. Tail(r.todo) \in LaunchPath \cup {<<>>}
    BY <2>1, LaunchingPlaces
  <2>4. Shape(r)
    BY <1>8, <2>2 DEF Launching, Shape, Follows, Ends, Left
  <2>5. Belongs(r)
    BY <1>8, <2>2 DEF Launching, Belongs
  <2>6. Counts(r.do, Head(r.todo), Left(r))
    BY <1>8 DEF Counts
  <2> QED
    BY <1>8, <2>3, <2>4, <2>5, <2>6 DEF OnTrack
<1>9. CASE r.do = "switch" /\ r.arg = Default
  <2>1. r.todo \in SwitchDefaultPath
    BY <1>9 DEF OnTrack
  <2>2. SwitchingDefault(r.todo)
    BY <2>1, SwitchingDefaultPlaces
  <2>3. Tail(r.todo) \in SwitchDefaultPath \cup {<<>>}
    BY <2>1, SwitchingDefaultPlaces
  <2>4. Shape(r)
    BY <1>9, <2>2 DEF SwitchingDefault, Shape, Follows, Ends, Left
  <2>5. Belongs(r)
    BY <1>9, <2>2 DEF SwitchingDefault, Belongs
  <2>6. Counts(r.do, Head(r.todo), Left(r))
    BY <1>9, <2>2, Counted DEF Left
  <2> QED
    BY <1>9, <2>3, <2>4, <2>5, <2>6 DEF OnTrack
<1>10. CASE r.do = "switch" /\ r.arg # Default
  <2>1. r.todo \in SwitchPath
    BY <1>10 DEF OnTrack
  <2>2. SwitchingTo(r.todo)
    BY <2>1, SwitchingToPlaces
  <2>3. Tail(r.todo) \in SwitchPath \cup {<<>>}
    BY <2>1, SwitchingToPlaces
  <2>4. Shape(r)
    BY <1>10, <2>2 DEF SwitchingTo, Shape, Follows, Ends, Left
  <2>5. Belongs(r)
    BY <1>10, <2>2 DEF SwitchingTo, Belongs
  <2>6. Counts(r.do, Head(r.todo), Left(r))
    BY <1>10, <2>2, Counted DEF Left
  <2> QED
    BY <1>10, <2>3, <2>4, <2>5, <2>6 DEF OnTrack
<1>11. CASE r.do = "engine-switch"
  <2>1. r.todo \in EngineSwitchPath
    BY <1>11 DEF OnTrack
  <2>2. EngineSwitching(r.todo)
    BY <2>1, EngineSwitchingPlaces
  <2>3. Tail(r.todo) \in EngineSwitchPath \cup {<<>>}
    BY <2>1, EngineSwitchingPlaces
  <2>4. Shape(r)
    BY <1>11, <2>2 DEF EngineSwitching, Shape, Follows, Ends, Left
  <2>5. Belongs(r)
    BY <1>11, <2>2 DEF EngineSwitching, Belongs
  <2>6. Counts(r.do, Head(r.todo), Left(r))
    BY <1>11 DEF Counts
  <2> QED
    BY <1>11, <2>3, <2>4, <2>5, <2>6 DEF OnTrack
<1>12. CASE r.do = "create"
  <2>1. r.todo \in CreatePath
    BY <1>12 DEF OnTrack
  <2>2. Creating(r.todo)
    BY <2>1, CreatingPlaces
  <2>3. Tail(r.todo) \in CreatePath \cup {<<>>}
    BY <2>1, CreatingPlaces
  <2>4. Shape(r)
    BY <1>12, <2>2 DEF Creating, Shape, Follows, Ends, Left
  <2>5. Belongs(r)
    BY <1>12, <2>2 DEF Creating, Belongs
  <2>6. Counts(r.do, Head(r.todo), Left(r))
    BY <1>12, <2>2, Counted DEF Left
  <2> QED
    BY <1>12, <2>3, <2>4, <2>5, <2>6 DEF OnTrack
<1>13. CASE r.do = "rm"
  <2>1. r.todo \in RemovePath
    BY <1>13 DEF OnTrack
  <2>2. Removing(r.todo)
    BY <2>1, RemovingPlaces
  <2>3. Tail(r.todo) \in RemovePath \cup {<<>>}
    BY <2>1, RemovingPlaces
  <2>4. Shape(r)
    BY <1>13, <2>2 DEF Removing, Shape, Follows, Ends, Left
  <2>5. Belongs(r)
    BY <1>13, <2>2 DEF Removing, Belongs
  <2>6. Counts(r.do, Head(r.todo), Left(r))
    BY <1>13, <2>2, Counted DEF Left
  <2> QED
    BY <1>13, <2>3, <2>4, <2>5, <2>6 DEF OnTrack
<1>14. CASE r.do = "init"
  <2>1. r.todo \in InitPath
    BY <1>14 DEF OnTrack
  <2>2. Initing(r.todo)
    BY <2>1, InitingPlaces
  <2>3. Tail(r.todo) \in InitPath \cup {<<>>}
    BY <2>1, InitingPlaces
  <2>4. Shape(r)
    BY <1>14, <2>2 DEF Initing, Shape, Follows, Ends, Left
  <2>5. Belongs(r)
    BY <1>14, <2>2 DEF Initing, Belongs
  <2>6. Counts(r.do, Head(r.todo), Left(r))
    BY <1>14, <2>2, Counted DEF Left
  <2> QED
    BY <1>14, <2>3, <2>4, <2>5, <2>6 DEF OnTrack
<1> QED
  BY <1>1, <1>2, <1>3, <1>4, <1>5, <1>6, <1>7, <1>8, <1>9, <1>10, <1>11, <1>12, <1>13, <1>14 DEF ShellDo

\* What is known of a process that runs.
LEMMA Here ==
  ASSUME Tracks, NEW p \in Processes, Running(p)
  PROVE  /\ Good(p, pr[p]) /\ Fits(p, pr[p]) /\ Shape(pr[p]) /\ Belongs(pr[p])
         /\ Counts(pr[p].do, Head(pr[p].todo), Left(pr[p]))
<1>1. Good(p, pr[p]) /\ pr[p].todo # <<>>
  BY DEF Tracks, Running
<1>2. OnTrack(pr[p]) /\ Fits(p, pr[p])
  BY <1>1 DEF Good
<1> QED
  BY <1>1, <1>2, Table

\* A process that has taken a step of its command is on track.
LEMMA Stepping ==
  ASSUME NEW p \in Processes, NEW r, Good(p, r), r.todo # <<>>,
         NEW x, x.todo = Tail(r.todo), x.do = r.do, x.arg = r.arg
  PROVE  /\ OnTrack(x) /\ (x.todo # <<>> => Fits(p, x))
         /\ Left(r) \in Nat /\ Left(r) >= 1
         /\ Left(x) = Left(r) - 1 /\ (x.todo = <<>> <=> Left(r) = 1)
         /\ Comes(x, "write") <=> Comes(r, "set")
         /\ Comes(x, "truncate") <=> Comes(r, "compose")
         /\ Comes(x, "rewrite") <=> Comes(r, "truncate")
<1>1. OnTrack(r) /\ Fits(p, r)
  BY DEF Good
<1>2. Shape(r) /\ OnTrack(x)
  BY <1>1, Table
<1>3. Fits(p, x)
  BY <1>1 DEF Fits
<1> QED
  BY <1>2, <1>3 DEF Shape, Comes, Left

\* An update of one process.
LEMMA Updated ==
  ASSUME Tracks, NEW p \in Processes, NEW x, pr' = [pr EXCEPT ![p] = x]
  PROVE  /\ pr' = [q \in Processes |-> pr'[q]] /\ pr'[p] = x
         /\ \A q \in Processes \ {p} : pr'[q] = pr[q]
BY DEF Tracks

-----------------------------------------------------------------------------
(* What keeps the parts of the invariant.                                  *)

\* Nothing happens to the engines: a process goes on as far as they are
\* concerned, or has nothing to do with them any more.
Out(r, x) ==
    /\ x.todo = <<>> \/ x.do \notin {"create", "rm"}
    /\ x.defs = None /\ ~Comes(x, "truncate") /\ ~Comes(x, "rewrite") /\ ~Comes(r, "rewrite")
Same(r, x) ==
    /\ x.do = r.do /\ x.arg = r.arg /\ x.defs = r.defs
    /\ x.todo # <<>> => r.todo # <<>>
    /\ Comes(x, "truncate") <=> Comes(r, "truncate")
    /\ Comes(x, "rewrite") <=> Comes(r, "rewrite")
    /\ x.do = "create" /\ x.todo # <<>> /\ Left(x) <= 5 => Left(r) <= 5
    /\ x.do = "rm" /\ x.todo # <<>> /\ Left(x) <= 4 => Left(r) <= 4

\* Or it begins a command.
Fresh(r, x) ==
    /\ Left(x) = 9 /\ x.defs = None
    /\ ~Comes(x, "truncate") /\ ~Comes(x, "rewrite") /\ ~Comes(r, "rewrite")

\* Then the compose file and the configuration agree as before.
LEMMA QuietButFresh ==
  ASSUME OneAtATime, file' = file, compose' = compose, mishaps \subseteq mishaps',
         \A q \in Processes : Out(pr[q], pr'[q]) \/ Same(pr[q], pr'[q]) \/ Fresh(pr[q], pr'[q]),
         {"race", "crash", "cut", "torn"} \cap mishaps' = {} =>
            \A p, q \in Processes :
               Changes(p)' /\ Changes(q)' /\ pr'[p].arg = pr'[q].arg => p = q
  PROVE  OneAtATime'
<1> SUFFICES ASSUME {"race", "crash", "cut", "torn"} \cap mishaps' = {}
             PROVE  OneAtATime'
  BY DEF OneAtATime
<1>1. {"race", "crash", "cut", "torn"} \cap mishaps = {}
  OBVIOUS
<1>2. \A q \in Processes : Rewriting(q)' <=> Rewriting(q)
  BY DEF Out, Same, Fresh, Rewriting, At, Running, Comes
<1>3. \A q \in Processes : Rewriting(q) => pr'[q].defs = pr[q].defs
  BY DEF Out, Same, Fresh, Rewriting, At, Running, Comes
<1>4. \A d : Effective(d)' <=> Effective(d)
  BY <1>2, <1>3 DEF Effective
<1>6. \A q \in Processes : pr'[q].defs # None => pr[q].defs # None
  BY DEF Out, Same, Fresh
<1>7. \A q \in Processes : At(q, "truncate")' =>
         At(q, "truncate") /\ pr'[q].defs = pr[q].defs /\ pr'[q].arg = pr[q].arg
         /\ pr'[q].do = pr[q].do
  BY DEF Out, Same, Fresh, At, Running, Comes
<1>8. Included(file)' = Included(file)
  BY DEF Included
<1>9. \A q \in Processes :
         /\ pr'[q].do = "create" /\ Running(q)' /\ Left(pr'[q]) <= 5 =>
               pr[q].do = "create" /\ Running(q) /\ Left(pr[q]) <= 5 /\ pr'[q].arg = pr[q].arg
         /\ pr'[q].do = "rm" /\ Running(q)' /\ Left(pr'[q]) <= 4 =>
               pr[q].do = "rm" /\ Running(q) /\ Left(pr[q]) <= 4 /\ pr'[q].arg = pr[q].arg
  BY DEF Out, Same, Fresh, Running
<1>10. \A q \in Processes : pr'[q].do = "create" /\ Rewriting(q)' =>
          pr[q].do = "create" /\ Rewriting(q) /\ pr'[q].arg = pr[q].arg /\ pr'[q].defs = pr[q].defs
  BY DEF Out, Same, Fresh, Rewriting, At, Running, Comes
<1>11. /\ \A p, q \in Processes : Changes(p)' /\ Changes(q)' /\ pr'[p].arg = pr'[q].arg => p = q
       /\ \A p, q \in Processes : pr'[p].defs # None /\ pr'[q].defs # None => p = q
  BY <1>1, <1>6 DEF OneAtATime
<1>12. /\ \A p \in Processes : At(p, "truncate")' =>
              compose' # Torn
              /\ pr'[p].defs = [compose' EXCEPT ![pr'[p].arg] = pr'[p].do = "create"]
       /\ (\A p \in Processes : ~Rewriting(p)') => compose' # Torn
  BY <1>1, <1>2, <1>7 DEF OneAtATime
<1>13. \A d \in Included(file)' : Effective(d)'
  BY <1>1, <1>4, <1>8 DEF OneAtATime
<1>14. \A p \in Processes :
          /\ pr'[p].do = "create" /\ Running(p)' /\ Left(pr'[p]) <= 5 => Effective(pr[p].arg)'
          /\ pr'[p].do = "create" /\ Rewriting(p)' => pr'[p].defs[pr'[p].arg]
          /\ pr'[p].do = "rm" /\ Running(p)' /\ Left(pr'[p]) <= 4 =>
                pr'[p].arg \notin Included(file)'
  <2> TAKE p \in Processes
  <2>1. ASSUME pr'[p].do = "create", Running(p)', Left(pr'[p]) <= 5
        PROVE  Effective(pr[p].arg)'
    <3>1. Effective(pr[p].arg) /\ pr'[p].arg = pr[p].arg
      BY <1>1, <1>9, <2>1 DEF OneAtATime
    <3> PICK a : a = pr[p].arg
      OBVIOUS
    <3>2. Effective(a)'
      BY <1>4, <3>1
    <3> QED
      BY <3>1, <3>2
  <2> QED
    BY <1>1, <1>8, <1>9, <1>10, <2>1 DEF OneAtATime
<1> QED
  BY <1>11, <1>12, <1>13, <1>14 DEF OneAtATime

\* In particular if no command begins.
LEMMA QuietKeeps ==
  ASSUME OneAtATime, file' = file, compose' = compose, mishaps \subseteq mishaps',
         \A q \in Processes : Out(pr[q], pr'[q]) \/ Same(pr[q], pr'[q])
  PROVE  OneAtATime'
<1>1. \A q \in Processes : Changes(q)' => Changes(q) /\ pr'[q].arg = pr[q].arg
  BY DEF Out, Same, Changes, Running
<1>2. ASSUME {"race", "crash", "cut", "torn"} \cap mishaps' = {}, NEW p \in Processes, NEW q \in Processes,
             Changes(p)', Changes(q)', pr'[p].arg = pr'[q].arg
      PROVE  p = q
  BY <1>1, <1>2 DEF OneAtATime
<1> QED
  BY <1>2, QuietButFresh

\* Images are only added: what was ready stays so.
LEMMA ReadyStays ==
  ASSUME NEW r, NEW disk, NEW more, disk \subseteq more, NEW w, NEW v, w \subseteq v,
         Ready(r, disk, w)
  PROVE  Ready(r, more, v)
BY DEF Ready, OnDisk

\* The configuration stays on the disk while no one writes it.
LEMMA StagedKeeps ==
  ASSUME Staged, file' = file, images \subseteq images', mishaps \subseteq mishaps',
         \A q \in Processes : Ready(pr'[q], images', mishaps')
  PROVE  Staged'
<1>1. OnDisk(file, images, mishaps)
  BY DEF Staged
<1>2. OnDisk(file', images', mishaps')
  BY <1>1 DEF OnDisk
<1> QED
  BY <1>2 DEF Staged

\* console-init is alone, whatever another process does.
LEMMA AloneKeeps ==
  ASSUME Alone, NEW p \in Processes \ {"init"}, Running(p), NEW x,
         \A q \in Processes \ {p} : pr'[q] = pr[q], pr'[p] = x,
         x.todo # <<>> => Left(x) \in Nat /\ Left(x) < Left(pr[p]) /\ Left(x) >= 1
  PROVE  Alone'
<1> SUFFICES ASSUME Running("init")'
             PROVE  /\ Running("switch")' => Left(pr'["switch"]) = 1
                    /\ \A q \in Shells : ~Running(q)'
                    /\ ~At("init", "wait")' => ~Running("first")'
  BY DEF Alone
<1>1. pr'["init"] = pr["init"] /\ Running("init")
  BY DEF Running, Processes
<1>2. p = "first" \/ p = "switch" \/ p \in Shells
  BY DEF Processes
<1>3. CASE p = "first"
  <2>1. At("init", "wait") /\ \A q \in Processes \ {"first"} : pr'[q] = pr[q]
    BY <1>1, <1>3 DEF Alone
  <2> QED
    BY <1>1, <1>3, <2>1, NameAssumption DEF Alone, Running, At, Processes
<1>4. CASE p = "switch"
  <2>1. Left(pr[p]) = 1
    BY <1>1, <1>4 DEF Alone
  <2>2. x.todo = <<>>
    BY <2>1
  <2> QED
    BY <1>1, <1>4, <2>2, NameAssumption DEF Alone, Running, At, Processes
<1>5. CASE p \in Shells
  BY <1>1, <1>5 DEF Alone
<1> QED
  BY <1>2, <1>3, <1>4, <1>5

\* Nor does it matter for the key, unless it writes the file.
LEMMA KeysKeeps ==
  ASSUME Keys, UNCHANGED <<file, hostKey, keys>>, mishaps \subseteq mishaps',
         pr'["init"] = pr["init"], \A q \in Processes : pr'[q].read \in {None, file, pr[q].read}
  PROVE  Keys'
<1> SUFFICES ASSUME {"crash", "not-saved"} \cap mishaps' = {}
             PROVE  Keys'
  BY DEF Keys
<1>1. {"crash", "not-saved"} \cap mishaps = {}
  OBVIOUS
<1>2. (Saving' <=> Saving) /\ (At("init", "ssh")' <=> At("init", "ssh"))
  BY DEF Saving, Running, At
<1>3. /\ keys <= 1
      /\ Saving => hostKey # 0 /\ hostKey = keys
      /\ Saving /\ Left(pr["init"]) \in {4, 6} => pr["init"].read = file
      /\ Saving /\ Left(pr["init"]) \in {4, 5} => file.key = hostKey
  BY <1>1 DEF Keys
<1>4. ASSUME keys = 1, ~Saving
      PROVE  /\ HasKey(file)
             /\ \A q \in Processes : pr'[q].read # None => HasKey(pr'[q].read)
             /\ At("init", "ssh") => HasKey(pr["init"].cfg)
  BY <1>1, <1>4 DEF Keys
<1> QED
  BY <1>2, <1>3, <1>4 DEF Keys

\* A process goes on in its command or ends; configuration and console are as
\* before.  What the engines have to do with is left to QuietKeeps.
LEMMA ReplacedBut ==
  ASSUME IInv, NEW p \in Processes, NEW x, pr' = [pr EXCEPT ![p] = x], Running(p), Good(p, x),
         UNCHANGED <<file, conUp>>,
         mishaps \subseteq mishaps', images \subseteq images',
         Ready(x, images', mishaps'),
         p = "switch" =>
            conUp \/ "error" \in mishaps' \/ (x.todo # <<>> /\ Left(x) >= 2),
         x.todo # <<>> => Left(x) \in Nat /\ Left(x) < Left(pr[p]) /\ Left(x) >= 1,
         p # "init" => UNCHANGED <<hostKey, keys>> /\ x.read \in {None, file},
         p = "init" => Keys' /\ (x.todo # <<>> => ~At("init", "wait"))
  PROVE  Tracks' /\ Switching' /\ Staged' /\ Alone' /\ Keys'
<1>1. Tracks /\ Data /\ Switching /\ Staged /\ Alone /\ Keys /\ OneAtATime
  BY DEF IInv
<1>2. /\ pr' = [q \in Processes |-> pr'[q]] /\ pr'[p] = x
      /\ \A q \in Processes \ {p} : pr'[q] = pr[q]
  BY <1>1, Updated
<1>3. Tracks'
  BY <1>1, <1>2 DEF Tracks
<1>5. Switching'
  <2>1. CASE p = "switch"
    BY <1>1, <1>2, <2>1 DEF Switching, Running
  <2>2. CASE p # "switch"
    BY <1>1, <1>2, <2>2 DEF Switching, Running, Processes
  <2> QED
    BY <2>1, <2>2
<1>6. Staged'
  <2>1. ASSUME NEW q \in Processes
        PROVE  Ready(pr'[q], images', mishaps')
    <3>1. CASE q = p
      BY <1>2, <3>1
    <3>2. CASE q # p
      BY <1>1, <1>2, <3>2, ReadyStays DEF Staged
    <3> QED
      BY <3>1, <3>2
  <2> QED
    BY <1>1, <2>1, StagedKeeps
<1>8. CASE p = "init"
  <2>1. Running("init") /\ \A q \in Processes \ {"init"} : pr'[q] = pr[q]
    BY <1>2, <1>8
  <2>2. \A q \in Shells : q \in Processes \ {"init"}
    BY NameAssumption DEF Processes
  <2>3. "switch" \in Processes \ {"init"} /\ "first" \in Processes \ {"init"}
    BY DEF Processes
  <2>4. Alone'
    BY <1>1, <1>2, <1>8, <2>1, <2>2, <2>3 DEF Alone, Running
  <2> QED
    BY <1>3, <1>5, <1>6, <1>8, <2>4
<1>9. CASE p # "init"
  <2>1. Alone'
    BY <1>1, <1>2, <1>9, AloneKeeps
  <2>2. pr'["init"] = pr["init"] /\ \A q \in Processes : pr'[q].read \in {None, file, pr[q].read}
    BY <1>2, <1>9 DEF Processes
  <2>3. Keys'
    BY <1>1, <2>2, KeysKeeps
  <2> QED
    BY <1>3, <1>5, <1>6, <2>1, <2>3
<1> QED
  BY <1>8, <1>9

\* If it has nothing to do with the compose file the invariant is kept.
LEMMA Replaced ==
  ASSUME IInv, NEW p \in Processes, NEW x, pr' = [pr EXCEPT ![p] = x], Running(p), Good(p, x),
         UNCHANGED <<file, compose, hostKey, keys, conUp>>,
         mishaps \subseteq mishaps', images \subseteq images',
         Out(pr[p], x) \/ Same(pr[p], x),
         Ready(x, images', mishaps'),
         p = "switch" =>
            conUp \/ "error" \in mishaps' \/ (x.todo # <<>> /\ Left(x) >= 2),
         x.todo # <<>> => Left(x) \in Nat /\ Left(x) < Left(pr[p]) /\ Left(x) >= 1,
         p # "init" => x.read \in {None, file},
         p = "init" => Keys' /\ (x.todo # <<>> => ~At("init", "wait"))
  PROVE  IInv'
<1>1. Tracks /\ Data /\ OneAtATime
  BY DEF IInv
<1>2. pr'[p] = x /\ \A q \in Processes \ {p} : pr'[q] = pr[q]
  BY <1>1, Updated
<1>3. \A q \in Processes \ {p} : Same(pr[q], pr'[q])
  BY <1>2 DEF Same
<1>4. \A q \in Processes : Out(pr[q], pr'[q]) \/ Same(pr[q], pr'[q])
  BY <1>2, <1>3
<1>5. OneAtATime'
  BY <1>1, <1>4, QuietKeeps
<1>6. Data'
  BY <1>1 DEF Data
<1>7. Tracks' /\ Switching' /\ Staged' /\ Alone' /\ Keys'
  BY ReplacedBut
<1> QED
  BY <1>5, <1>6, <1>7 DEF IInv

\* console-init outside of the part that saves a key.
LEMMA KeysOutside ==
  ASSUME Keys, NEW x, UNCHANGED <<file, keys>>, mishaps \subseteq mishaps', ~Saving,
         \A q \in Processes : pr'[q].read \in {None, file, pr[q].read}, pr'["init"] = x,
         x.todo # <<>> => Left(x) \notin {4, 5, 6, 7},
         Comes(x, "ssh") /\ HasKey(file) => HasKey(x.cfg)
  PROVE  Keys'
<1> SUFFICES ASSUME {"crash", "not-saved"} \cap mishaps' = {}
             PROVE  Keys'
  BY DEF Keys
<1>1. {"crash", "not-saved"} \cap mishaps = {}
  OBVIOUS
<1>2. ~Saving'
  BY DEF Saving, Running
<1>3. keys <= 1
  BY <1>1 DEF Keys
<1>4. ASSUME keys = 1
      PROVE  /\ HasKey(file)
             /\ \A q \in Processes : pr'[q].read # None => HasKey(pr'[q].read)
             /\ At("init", "ssh")' => HasKey(x.cfg)
  <2>1. HasKey(file) /\ \A q \in Processes : pr[q].read # None => HasKey(pr[q].read)
    BY <1>1, <1>4 DEF Keys
  <2> QED
    BY <2>1 DEF At, Running, Comes
<1> QED
  BY <1>2, <1>3, <1>4 DEF Keys

\* The steps after which a process just goes on.
PassSteps == {"stage", "validate", "stop-dind", "check", "stop-docker", "stop-console",
              "load-special", "up-console", "up-docker", "scripts", "done"}

\* What a process holds that has taken one of them.
LEMMA PassGood ==
  ASSUME NEW p \in Processes, NEW r, Good(p, r), r.todo # <<>>, Head(r.todo) \in PassSteps,
         NEW x, x = [r EXCEPT !.todo = Tail(r.todo)]
  PROVE  Good(p, x) /\ x.read = None /\ Same(r, x)
<1>1. IsRecord(r) /\ Holds(r) /\ OnTrack(r) /\ Fits(p, r)
  BY DEF Good
<1>2. /\ x.todo = Tail(r.todo) /\ x.do = r.do /\ x.arg = r.arg /\ x.read = r.read
      /\ x.defs = r.defs /\ x.cfg = r.cfg /\ x.base = r.base /\ IsRecord(x)
  BY <1>1 DEF IsRecord
<1>3. /\ OnTrack(x) /\ (x.todo # <<>> => Fits(p, x))
      /\ Left(r) \in Nat /\ Left(r) >= 1 /\ Left(x) = Left(r) - 1
      /\ Comes(x, "write") <=> Comes(r, "set")
      /\ Comes(x, "truncate") <=> Comes(r, "compose")
      /\ Comes(x, "rewrite") <=> Comes(r, "truncate")
  BY <1>2, Stepping
<1>4. Shape(r) /\ Counts(r.do, Head(r.todo), Left(r))
  BY <1>1, Table
<1>5. /\ ~Comes(x, "write") /\ ~Comes(x, "truncate") /\ ~Comes(x, "rewrite")
      /\ ~Comes(r, "write") /\ ~Comes(r, "truncate") /\ ~Comes(r, "rewrite")
  BY <1>3 DEF Comes, PassSteps
<1>6. x.read = None /\ x.defs = None
  BY <1>1, <1>2, <1>5 DEF Holds
<1>7. ASSUME x.do \in ServiceDo, NEW y \in Loaded, Comes(x, y)
      PROVE  x.base \in Configs /\ x.cfg = Changed(LoadConfig(x.base), x.do, x.arg)
  <2>1. Head(r.todo) \in Loaded \cup {"load"}
    BY <1>2, <1>4, <1>7 DEF Shape, Comes
  <2>2. Head(r.todo) \in Loaded
    BY <2>1 DEF PassSteps
  <2>3. Comes(r, Head(r.todo))
    BY DEF Comes
  <2> QED
    BY <1>1, <1>2, <1>7, <2>2, <2>3 DEF Holds
<1>8. ASSUME x.do = "init"
      PROVE  x.cfg \in Configs /\ x.cfg.engine # None
  <2>1. ~Comes(r, "load")
    BY DEF Comes, PassSteps
  <2> QED
    BY <1>1, <1>2, <1>8, <2>1 DEF Holds
<1>9. Holds(x)
  BY <1>5, <1>6, <1>7, <1>8 DEF Holds
<1>10. /\ x.do = "create" /\ Left(x) <= 5 => Left(r) <= 5
       /\ x.do = "rm" /\ Left(x) <= 4 => Left(r) <= 4
  <2>1. r.do = "create" => Left(r) # 6
    BY <1>4 DEF Counts, PassSteps
  <2>2. r.do = "rm" => Left(r) # 5
    BY <1>4 DEF Counts, PassSteps
  <2> QED
    BY <1>2, <1>3, <2>1, <2>2
<1>11. Same(r, x)
  BY <1>2, <1>5, <1>10 DEF Same
<1> QED
  BY <1>2, <1>3, <1>6, <1>9, <1>11 DEF Good

\* Its argument is on the disk if it has just been pulled.
LEMMA PassReady ==
  ASSUME NEW p \in Processes, NEW r, Good(p, r), r.todo # <<>>, Head(r.todo) \in PassSteps,
         NEW x, x = [r EXCEPT !.todo = Tail(r.todo)], NEW disk, NEW w, Ready(r, disk, w),
         Head(r.todo) \in {"stage", "up-docker"} =>
            r.arg \in disk \/ (r.do = "console-switch" /\ "no-pull" \in w)
  PROVE  Ready(x, disk, w)
<1>1. IsRecord(r) /\ OnTrack(r) /\ Fits(p, r)
  BY DEF Good
<1>2. x.todo = Tail(r.todo) /\ x.do = r.do /\ x.arg = r.arg /\ x.read = r.read
  BY <1>1 DEF IsRecord
<1>3. Shape(r) /\ Belongs(r)
  BY <1>1, Table
<1>4. x.read = None
  BY PassGood
<1>5. ASSUME x.do \in {"console-enable", "engine-enable", "engine-switch"},
             Comes(x, "set") \/ Comes(x, "write")
      PROVE  x.arg \in disk \/ (x.do = "console-enable" /\ x.arg = Default)
  <2>1. Comes(x, "set")
    BY <1>2, <1>3, <1>5 DEF Shape, Comes, PassSteps
  <2>2. \/ Head(r.todo) \in {"stage", "up-docker"}
        \/ r.do = "console-enable" /\ r.arg = Default
    BY <1>2, <1>3, <1>5, <2>1 DEF Shape, Comes
  <2> QED
    BY <1>2, <1>5, <2>2
<1>6. ASSUME x.do = "console-switch", Comes(x, "launch"), "no-pull" \notin w
      PROVE  x.arg \in disk \cup {Default}
  <2>1. Head(r.todo) = "stage" \/ r.arg = Default
    BY <1>2, <1>3, <1>6 DEF Shape, Comes
  <2> QED
    BY <1>2, <1>6, <2>1
<1> QED
  BY <1>2, <1>4, <1>5, <1>6 DEF Ready

\* A step after which a process just goes on, and others do not notice.
LEMMA Passed ==
  ASSUME IInv, NEW p \in Processes, Running(p), Head(pr[p].todo) \in PassSteps, Go(p),
         UNCHANGED <<file, compose, hostKey, keys, conUp>>,
         mishaps \subseteq mishaps', images \subseteq images',
         Head(pr[p].todo) \in {"stage", "up-docker"} =>
            pr[p].arg \in images' \/ (pr[p].do = "console-switch" /\ "no-pull" \in mishaps'),
         Head(pr[p].todo) = "up-console" => conUp
  PROVE  IInv'
<1>1. Tracks /\ Data /\ Switching /\ Staged /\ Alone /\ Keys /\ OneAtATime
  BY DEF IInv
<1> PICK x : x = [pr[p] EXCEPT !.todo = Tail(pr[p].todo)]
  OBVIOUS
<1>2. pr' = [pr EXCEPT ![p] = x]
  BY DEF Go
<1>3. /\ Good(p, pr[p]) /\ Fits(p, pr[p]) /\ Shape(pr[p]) /\ Belongs(pr[p])
      /\ Counts(pr[p].do, Head(pr[p].todo), Left(pr[p]))
  BY <1>1, Here
<1>4. Good(p, x) /\ x.read = None /\ Same(pr[p], x)
  BY <1>3, PassGood DEF Running
<1>5. x.todo = Tail(pr[p].todo) /\ x.do = pr[p].do /\ x.arg = pr[p].arg
  BY <1>3 DEF Good, IsRecord
<1>6. /\ Left(pr[p]) \in Nat /\ Left(pr[p]) >= 1
      /\ Left(x) = Left(pr[p]) - 1 /\ (x.todo = <<>> <=> Left(pr[p]) = 1)
  BY <1>3, <1>5, Stepping DEF Running
<1>7. Ready(x, images', mishaps')
  <2>1. Ready(pr[p], images, mishaps)
    BY <1>1 DEF Staged
  <2>2. Ready(pr[p], images', mishaps')
    BY <2>1, ReadyStays
  <2> QED
    BY <1>3, <2>2, PassReady DEF Running
<1>8. ASSUME p = "switch"
      PROVE  conUp \/ (x.todo # <<>> /\ Left(x) >= 2)
  <2>1. pr[p].do = "switch"
    BY <1>3, <1>8 DEF Fits
  <2>2. Left(pr[p]) # 1
    BY <1>3, <2>1 DEF Counts, PassSteps
  <2>3. Left(pr[p]) = 2 => conUp
    BY <1>3, <2>1 DEF Counts
  <2> QED
    BY <1>6, <2>2, <2>3
<1>9. ASSUME p = "init"
      PROVE  Keys' /\ ~At("init", "wait")
  <2>1. pr[p].do = "init"
    BY <1>3, <1>9 DEF Fits
  <2>2. Head(pr[p].todo) \in {"scripts", "done"}
    BY <1>3, <2>1 DEF Counts, PassSteps
  <2>3. Left(pr[p]) \in {2, 3}
    BY <1>3, <2>1, <2>2 DEF Counts
  <2>4. ~Saving
    BY <1>9, <2>3 DEF Saving
  <2>5. Left(x) \in {1, 2} /\ Left(x) \notin {4, 5, 6, 7}
    BY <1>6, <2>3
  <2>6. ~Comes(x, "ssh")
    <3>1. x.todo # <<>> => OnTrack(x) /\ Fits(p, x)
      BY <1>4 DEF Good
    <3>2. x.todo # <<>> => Counts(x.do, Head(x.todo), Left(x))
      BY <3>1, Table
    <3> QED
      BY <1>5, <2>1, <2>5, <3>2 DEF Counts, Comes
  <2>7. pr'["init"] = x /\ \A q \in Processes \ {"init"} : pr'[q] = pr[q]
    BY <1>1, <1>2, <1>9, Updated
  <2>8. Keys'
    BY <1>1, <1>4, <2>4, <2>5, <2>6, <2>7, KeysOutside
  <2> QED
    BY <1>9, <2>2, <2>8 DEF At
<1>10. x.todo # <<>> => Left(x) \in Nat /\ Left(x) < Left(pr[p]) /\ Left(x) >= 1
  BY <1>6
<1> QED
  BY <1>2, <1>4, <1>7, <1>8, <1>9, <1>10, Replaced

\* A process that is not there holds nothing.
LEMMA IdleGood ==
  ASSUME NEW p
  PROVE  /\ Good(p, Idle) /\ Idle.todo = <<>> /\ Idle.read = None /\ Idle.defs = None
         /\ \A disk, w : Ready(Idle, disk, w)
         /\ \A r : ~Comes(r, "rewrite") => Out(r, Idle)
<1>1. /\ Idle.todo = <<>> /\ Idle.read = None /\ Idle.defs = None
      /\ \A y : ~Comes(Idle, y)
  BY DEF Idle, Comes
<1>2. IsRecord(Idle)
  BY DEF Idle, IsRecord
<1>3. OnTrack(Idle)
  BY <1>1 DEF OnTrack
<1>4. Holds(Idle)
  BY <1>1 DEF Holds
<1> QED
  BY <1>1, <1>2, <1>3, <1>4 DEF Good, Ready, Out

\* A process ends, by itself or with an error, and others do not notice.
LEMMA Ended ==
  ASSUME IInv, NEW p \in Processes, Running(p), End(p),
         UNCHANGED <<file, compose, hostKey, keys, conUp>>,
         mishaps \subseteq mishaps', images \subseteq images',
         Head(pr[p].todo) # "rewrite",
         p = "switch" => Head(pr[p].todo) = "start-docker" \/ "error" \in mishaps',
         p = "init" => Head(pr[p].todo) \in {"first-run", "wait"}
  PROVE  IInv'
<1>1. Tracks /\ Data /\ Switching /\ Staged /\ Alone /\ Keys /\ OneAtATime
  BY DEF IInv
<1> PICK x : x = Idle
  OBVIOUS
<1>2. pr' = [pr EXCEPT ![p] = x]
  BY DEF End
<1>3. ~Comes(pr[p], "rewrite")
  BY DEF Comes
<1>4. /\ Good(p, x) /\ x.todo = <<>> /\ x.read = None /\ \A disk, w : Ready(x, disk, w)
      /\ Out(pr[p], x)
  BY <1>3, IdleGood
<1>5. Fits(p, pr[p]) /\ Counts(pr[p].do, Head(pr[p].todo), Left(pr[p]))
  BY <1>1, Here
<1>6. p = "switch" => conUp \/ "error" \in mishaps'
  <2>1. ASSUME p = "switch", Head(pr[p].todo) = "start-docker"
        PROVE  Left(pr["switch"]) = 1
    BY <1>5, <2>1 DEF Fits, Counts
  <2>2. ASSUME p = "switch", Head(pr[p].todo) = "start-docker"
        PROVE  conUp \/ "error" \in mishaps
    BY <1>1, <2>1, <2>2 DEF Switching
  <2> QED
    BY <2>2
<1>7. ASSUME p = "init"
      PROVE  Keys'
  <2>1. Left(pr["init"]) = 1
    BY <1>5, <1>7 DEF Fits, Counts
  <2>2. ~Saving
    BY <2>1 DEF Saving
  <2>3. pr'["init"] = x /\ \A q \in Processes \ {"init"} : pr'[q] = pr[q]
    BY <1>1, <1>2, <1>7, Updated
  <2> QED
    BY <1>1, <1>4, <2>2, <2>3, KeysOutside DEF Comes
<1> QED
  BY <1>2, <1>4, <1>6, <1>7, Replaced

\* The merged configuration is one, has an engine, and has the saved key.
LEMMA LoadConfigIs ==
  ASSUME NEW f \in Configs
  PROVE  /\ LoadConfig(f) \in Configs /\ LoadConfig(f).engine # None
         /\ HasKey(f) => HasKey(LoadConfig(f))
<1>1. Below \in Configs /\ Cmdline \in Configs
  BY ControlAssumption
<1>2. \A l, r \in Configs : Merge(l, r) \in Configs
  BY DEF Configs, Merge, Over
<1>3. \A l, r \in Configs : l.engine # None => Merge(l, r).engine # None
  BY DEF Merge, Over
<1>4. \A l, r \in Configs : HasKey(l) \/ HasKey(r) => HasKey(Merge(l, r))
  BY DEF Merge, Over, HasKey
<1> QED
  BY <1>1, <1>2, <1>3, <1>4, NewSystem DEF LoadConfig

\* A process that begins a command.
LEMMA Started ==
  ASSUME NEW p \in Processes, NEW do, NEW arg, NEW x, x = Process(do, arg),
         do \in ShellDo \cup {"switch", "init"}, Fits(p, x)
  PROVE  /\ Good(p, x) /\ x.todo # <<>> /\ x.do = do /\ x.arg = arg
         /\ x.read = None /\ x.defs = None
         /\ Head(x.todo) \in {"load", "set", "validate"}
         /\ Head(x.todo) = "set" => do \in {"config-set", "config-merge"}
         /\ do = "create" => Left(x) = 9
         /\ do = "rm" => Left(x) = 9
         /\ do = "switch" => Left(x) >= 7
         /\ do = "init" => Left(x) = 9 /\ Head(x.todo) = "load"
<1>1. /\ x.todo = Steps(do, arg) /\ x.do = do /\ x.arg = arg /\ x.read = None /\ x.defs = None
      /\ IsRecord(x)
  BY DEF Process, Idle, IsRecord
<1>2. /\ x.todo # <<>> /\ OnTrack(x)
      /\ Head(x.todo) \in {"load", "set", "validate"}
      /\ Head(x.todo) = "set" => do \in {"config-set", "config-merge"}
      /\ do = "init" => Head(x.todo) = "load"
  <2> USE DEF OnTrack
  <2>1. CASE do \in {"enable", "engine-enable"}
    <3>1. x.todo = <<"load", "stage", "set", "write">>
      BY <1>1, <2>1 DEF Steps, ServiceEnable, EngineEnable
    <3> QED
      BY <1>1, <2>1, <3>1 DEF EnablePath
  <2>2. CASE do \in {"disable", "delete"}
    <3>1. x.todo = <<"load", "set", "write">>
      BY <1>1, <2>2 DEF Steps, ServiceDisable, ServiceDelete
    <3> QED
      BY <1>1, <2>2, <3>1 DEF DisablePath
  <2>3. CASE do \in {"config-set", "config-merge"}
    <3>1. x.todo = <<"set", "write">>
      BY <1>1, <2>3 DEF Steps, ConfigSet, ConfigMerge
    <3> QED
      BY <1>1, <2>3, <3>1 DEF SetPath
  <2>4. CASE do = "console-enable"
    <3>1. x.todo = IF arg = Default THEN <<"load", "set", "write">>
                   ELSE <<"load", "stage", "set", "write">>
      BY <1>1, <2>4 DEF Steps, ConsoleEnable
    <3> QED
      BY <1>1, <2>4, <3>1 DEF EnablePath, DisablePath
  <2>5. CASE do = "console-switch"
    <3>1. x.todo = IF arg = Default THEN <<"load", "launch">> ELSE <<"load", "stage", "launch">>
      BY <1>1, <2>5 DEF Steps, ConsoleSwitch
    <3> QED
      BY <1>1, <2>5, <3>1 DEF LaunchPath, LaunchDefaultPath
  <2>6. CASE do = "switch"
    <3>1. x.todo = SwitchConsole(arg)
      BY <1>1, <2>6 DEF Steps
    <3> QED
      BY <1>1, <2>6, <3>1 DEF SwitchConsole, SwitchPath, SwitchDefaultPath
  <2>7. CASE do = "engine-switch"
    <3>1. x.todo = EngineSwitch
      BY <1>1, <2>7 DEF Steps
    <3>2. x.todo \in EngineSwitchPath
      BY <3>1 DEF EngineSwitch, EngineSwitchPath
    <3>3. x.todo # <<>> /\ Head(x.todo) = "load"
      BY <3>1 DEF EngineSwitch
    <3> QED
      BY <1>1, <2>7, <3>2, <3>3
  <2>8. CASE do = "create"
    <3>1. x.todo = EngineCreate
      BY <1>1, <2>8 DEF Steps
    <3>2. x.todo \in CreatePath
      BY <3>1 DEF EngineCreate, CreatePath
    <3>3. x.todo # <<>> /\ Head(x.todo) = "validate"
      BY <3>1 DEF EngineCreate
    <3> QED
      BY <1>1, <2>8, <3>2, <3>3
  <2>9. CASE do = "rm"
    <3>1. x.todo = EngineRemove
      BY <1>1, <2>9 DEF Steps
    <3>2. x.todo \in RemovePath
      BY <3>1 DEF EngineRemove, RemovePath
    <3>3. x.todo # <<>> /\ Head(x.todo) = "load"
      BY <3>1 DEF EngineRemove
    <3> QED
      BY <1>1, <2>9, <3>2, <3>3
  <2>10. CASE do = "init"
    <3>1. x.todo = ConsoleInit
      BY <1>1, <2>10 DEF Steps
    <3>2. x.todo \in InitPath
      BY <3>1 DEF ConsoleInit, InitPath
    <3>3. x.todo # <<>> /\ Head(x.todo) = "load"
      BY <3>1 DEF ConsoleInit
    <3> QED
      BY <1>1, <2>10, <3>2, <3>3
  <2> QED
    BY <2>1, <2>2, <2>3, <2>4, <2>5, <2>6, <2>7, <2>8, <2>9, <2>10 DEF ShellDo
<1>3. /\ do = "create" => Left(x) = 9
      /\ do = "rm" => Left(x) = 9
      /\ do = "switch" => Left(x) >= 7
      /\ do = "init" => Left(x) = 9
  BY <1>1 DEF Left, Steps, EngineCreate, EngineRemove, ConsoleInit, SwitchConsole
<1>4. Holds(x)
  BY <1>1, <1>2 DEF Holds, Comes, ServiceDo, Loaded
<1> QED
  BY <1>1, <1>2, <1>3, <1>4 DEF Good

-----------------------------------------------------------------------------
(* The steps.                                                              *)

\* Loading the configuration keeps the invariant.
LEMMA LoadInv ==
  ASSUME IInv, NEW p \in Processes, Load(p)
  PROVE  IInv'
<1>1. Tracks /\ Data /\ Switching /\ Staged /\ Alone /\ Keys /\ OneAtATime
  BY DEF IInv
<1>2. /\ Running(p) /\ pr[p].todo # <<>> /\ Head(pr[p].todo) = "load"
      /\ UNCHANGED <<file, compose, images, hostKey, keys, conUp>>
  BY DEF Load, At, Running, store, boxes
<1> PICK r : r = pr[p]
  OBVIOUS
<1> PICK cfg : cfg = LoadConfig(file)
  OBVIOUS
<1>3. /\ Good(p, r) /\ Fits(p, r) /\ Shape(r) /\ Belongs(r) /\ Counts(r.do, Head(r.todo), Left(r))
      /\ IsRecord(r) /\ Holds(r) /\ r.todo # <<>>
  BY <1>1, <1>2, Here DEF Good
<1>4. cfg \in Configs /\ cfg.engine # None /\ (HasKey(file) => HasKey(cfg))
  BY <1>1, LoadConfigIs DEF Data
<1>5. CASE /\ ~Nothing(cfg, r.do, r.arg)
           /\ pr' = [pr EXCEPT ![p].todo = Tail(@), ![p].base = file,
                               ![p].cfg = Changed(cfg, r.do, r.arg)]
           /\ UNCHANGED <<faults, mishaps>>
  <2>0. PICK x : x = [r EXCEPT !.todo = Tail(r.todo), !.base = file,
                               !.cfg = Changed(cfg, r.do, r.arg)]
    OBVIOUS
  <2>1. pr' = [pr EXCEPT ![p] = x]
    BY <1>5, <2>0
  <2>2. /\ x.todo = Tail(r.todo) /\ x.do = r.do /\ x.arg = r.arg /\ x.read = r.read
        /\ x.defs = r.defs /\ x.cfg = Changed(cfg, r.do, r.arg) /\ x.base = file /\ IsRecord(x)
    BY <1>3, <2>0 DEF IsRecord
  <2>3. /\ OnTrack(x) /\ (x.todo # <<>> => Fits(p, x))
        /\ Left(r) \in Nat /\ Left(r) >= 1
        /\ Left(x) = Left(r) - 1 /\ (x.todo = <<>> <=> Left(r) = 1)
        /\ Comes(x, "write") <=> Comes(r, "set")
        /\ Comes(x, "truncate") <=> Comes(r, "compose")
        /\ Comes(x, "rewrite") <=> Comes(r, "truncate")
    BY <1>3, <2>2, Stepping
  <2>4. /\ ~Comes(x, "write") /\ ~Comes(x, "truncate") /\ ~Comes(x, "rewrite")
        /\ ~Comes(r, "write") /\ ~Comes(r, "truncate") /\ ~Comes(r, "rewrite")
    BY <1>2, <2>3 DEF Comes
  <2>5. x.read = None /\ x.defs = None /\ r.defs = None
    BY <1>3, <2>2, <2>4 DEF Holds
  <2>6. x.do = "init" => x.cfg = cfg
    BY <2>2 DEF Changed
  <2>7. Holds(x)
    BY <1>1, <1>4, <2>2, <2>4, <2>5, <2>6 DEF Holds, Data
  <2>8. Good(p, x)
    BY <2>2, <2>3, <2>7 DEF Good
  <2>9. Same(r, x)
    <3>1. r.do = "create" => Left(r) = 5
      BY <1>2, <1>3 DEF Counts
    <3>2. r.do = "rm" => Left(r) # 5
      BY <1>2, <1>3 DEF Counts
    <3>3. /\ x.do = "create" /\ Left(x) <= 5 => Left(r) <= 5
          /\ x.do = "rm" /\ Left(x) <= 4 => Left(r) <= 4
      BY <2>2, <2>3, <3>1, <3>2
    <3> QED
      BY <1>2, <2>2, <2>4, <3>3 DEF Same
  <2>10. Ready(x, images', mishaps')
    <3>1. Ready(r, images', mishaps')
      BY <1>1, <1>2, <1>5 DEF Staged
    <3>2. ASSUME x.do \in {"console-enable", "engine-enable", "engine-switch"}, Comes(x, "set")
          PROVE  x.do = "console-enable" /\ x.arg = Default
      BY <1>2, <1>3, <2>2, <3>2 DEF Shape, Comes
    <3>3. ASSUME x.do = "console-switch", Comes(x, "launch")
          PROVE  x.arg = Default
      BY <1>2, <1>3, <2>2, <3>3 DEF Shape, Comes
    <3> QED
      BY <1>2, <2>2, <2>4, <2>5, <3>1, <3>2, <3>3 DEF Ready
  <2>11. ASSUME p = "switch"
         PROVE  x.todo # <<>> /\ Left(x) >= 2
    <3>1. r.do = "switch"
      BY <1>3, <2>11 DEF Fits
    <3>2. Left(r) # 1 /\ Left(r) # 2
      BY <1>2, <1>3, <3>1 DEF Counts
    <3> QED
      BY <2>3, <3>2
  <2>12. ASSUME p = "init"
         PROVE  Keys' /\ ~At("init", "wait")
    <3>1. r.do = "init"
      BY <1>3, <2>12 DEF Fits
    <3>2. Left(r) = 9
      BY <1>2, <1>3, <3>1 DEF Counts
    <3>3. ~Saving
      BY <2>12, <3>2 DEF Saving
    <3>4. Left(x) \notin {4, 5, 6, 7}
      BY <2>3, <3>2
    <3>5. pr'["init"] = x /\ \A q \in Processes \ {"init"} : pr'[q] = pr[q]
      BY <1>1, <2>1, <2>12, Updated
    <3>6. x.cfg = cfg
      BY <2>2, <2>6, <3>1
    <3>7. Keys'
      BY <1>1, <1>2, <1>4, <1>5, <2>5, <3>3, <3>4, <3>5, <3>6, KeysOutside
    <3> QED
      BY <1>2, <2>12, <3>7 DEF At
  <2>13. x.todo # <<>> => Left(x) \in Nat /\ Left(x) < Left(r) /\ Left(x) >= 1
    BY <2>3
  <2> QED
    BY <1>2, <1>5, <2>1, <2>5, <2>8, <2>9, <2>10, <2>11, <2>12, <2>13, Replaced
<1>6. CASE /\ Nothing(cfg, r.do, r.arg)
           /\ pr' = [pr EXCEPT ![p] = IF r.do = "create"
                                      THEN [@ EXCEPT !.todo = <<"script">>] ELSE Idle]
           /\ UNCHANGED <<faults, mishaps>>
  <2>1. CASE r.do = "create"
    <3> PICK x : x = [r EXCEPT !.todo = <<"script">>]
      OBVIOUS
    <3>1. pr' = [pr EXCEPT ![p] = x]
      BY <1>6, <2>1
    <3>2. /\ x.todo = <<"script">> /\ x.do = r.do /\ x.arg = r.arg /\ x.read = r.read
          /\ x.defs = r.defs /\ x.cfg = r.cfg /\ x.base = r.base /\ IsRecord(x)
      BY <1>3 DEF IsRecord
    <3>3. x.todo # <<>> /\ Head(x.todo) = "script" /\ Left(x) = 1
      BY <3>2 DEF Left
    <3>4. /\ ~Comes(x, "write") /\ ~Comes(x, "truncate") /\ ~Comes(x, "rewrite")
          /\ ~Comes(r, "write") /\ ~Comes(r, "truncate") /\ ~Comes(r, "rewrite")
          /\ ~Comes(x, "set") /\ ~Comes(x, "launch") /\ \A y \in Loaded : ~Comes(x, y)
      BY <1>2, <3>3 DEF Comes, Loaded
    <3>5. x.read = None /\ x.defs = None
      BY <1>3, <3>2, <3>4 DEF Holds
    <3>6. OnTrack(x)
      BY <2>1, <3>2 DEF OnTrack, CreatePath
    <3>7. Holds(x)
      BY <2>1, <3>2, <3>4, <3>5 DEF Holds
    <3>8. Fits(p, x)
      BY <1>3, <3>2 DEF Fits
    <3>9. Good(p, x)
      BY <3>2, <3>6, <3>7, <3>8 DEF Good
    <3>10. Left(r) = 5
      BY <1>2, <1>3, <2>1 DEF Counts
    <3>11. Same(r, x)
      BY <1>2, <2>1, <3>2, <3>4, <3>10 DEF Same
    <3>12. \A disk, w : Ready(x, disk, w)
      BY <2>1, <3>2, <3>5 DEF Ready
    <3>13. p # "switch" /\ p # "init"
      BY <1>3, <2>1 DEF Fits
    <3>14. Left(x) \in Nat /\ Left(x) < Left(r) /\ Left(x) >= 1
      BY <3>3, <3>10
    <3> QED
      BY <1>2, <1>6, <3>1, <3>5, <3>9, <3>11, <3>12, <3>13, <3>14, Replaced
  <2>2. CASE r.do # "create"
    <3>1. End(p)
      BY <1>6, <2>2 DEF End
    <3>2. p # "switch" /\ p # "init"
      BY <1>3, <1>6 DEF Fits, Nothing
    <3> QED
      BY <1>2, <1>6, <3>1, <3>2, Ended
  <2> QED
    BY <2>1, <2>2
<1>7. CASE Unavailable(p)
  <2>1. End(p) /\ r.do \notin {"init", "switch"} /\ "error" \in mishaps' /\ mishaps \subseteq mishaps'
    BY <1>7 DEF Unavailable, Err, Note
  <2>2. p # "switch" /\ p # "init"
    BY <1>3, <2>1 DEF Fits
  <2> QED
    BY <1>2, <2>1, <2>2, Ended
<1> QED
  BY <1>5, <1>6, <1>7 DEF Load

\* config.Set's reading of the file keeps the invariant.
LEMMA SetReadInv ==
  ASSUME IInv, NEW p \in Processes, SetRead(p)
  PROVE  IInv'
<1>1. Tracks /\ Data /\ Switching /\ Staged /\ Alone /\ Keys /\ OneAtATime
  BY DEF IInv
<1>2. /\ Running(p) /\ UNCHANGED <<file, compose, images, hostKey, keys, conUp, mishaps>>
  BY DEF SetRead, At, store, boxes
<1>r. PICK r : r = pr[p]
  OBVIOUS
<1>3. /\ Good(p, r) /\ Fits(p, r) /\ Shape(r) /\ Counts(r.do, Head(r.todo), Left(r))
      /\ IsRecord(r) /\ Holds(r) /\ r.todo # <<>> /\ Head(r.todo) = "set"
  BY <1>1, <1>2, <1>r, Here DEF Good, SetRead, At, Running
<1>x. PICK x : x = [r EXCEPT !.todo = Tail(r.todo), !.read = file,
                             !.base = IF r.base = None THEN file ELSE r.base]
  OBVIOUS
<1>4. pr' = [pr EXCEPT ![p] = x]
  BY <1>r, <1>x DEF SetRead
<1>5. /\ x.todo = Tail(r.todo) /\ x.do = r.do /\ x.arg = r.arg /\ x.read = file
      /\ x.defs = r.defs /\ x.cfg = r.cfg /\ IsRecord(x)
      /\ x.base = IF r.base = None THEN file ELSE r.base
  BY <1>3, <1>x DEF IsRecord
<1>6. /\ OnTrack(x) /\ (x.todo # <<>> => Fits(p, x))
      /\ Left(r) \in Nat /\ Left(r) >= 1
      /\ Left(x) = Left(r) - 1 /\ (x.todo = <<>> <=> Left(r) = 1)
      /\ Comes(x, "write") <=> Comes(r, "set")
      /\ Comes(x, "truncate") <=> Comes(r, "compose")
      /\ Comes(x, "rewrite") <=> Comes(r, "truncate")
  BY <1>3, <1>5, Stepping
<1>7. /\ Comes(x, "write") /\ ~Comes(x, "truncate") /\ ~Comes(x, "rewrite") /\ ~Comes(x, "set")
      /\ ~Comes(x, "load") /\ ~Comes(x, "launch") /\ ~Comes(x, "ssh")
      /\ Comes(r, "set") /\ ~Comes(r, "truncate") /\ ~Comes(r, "rewrite") /\ ~Comes(r, "load")
  BY <1>3, <1>6 DEF Comes
<1>8. file \in Configs /\ file # None
  BY <1>1, NameAssumption DEF Data
<1>9. Holds(x)
  <2>1. x.read \in Configs \cup {None} /\ (x.read # None <=> Comes(x, "write"))
    BY <1>5, <1>7, <1>8
  <2>2. x.defs \in [Dinds -> BOOLEAN] \cup {None} /\ x.defs = None
    BY <1>3, <1>5, <1>7 DEF Holds
  <2>3. ASSUME x.do \in ServiceDo
        PROVE  x.base \in Configs /\ x.cfg = Changed(LoadConfig(x.base), x.do, x.arg)
    <3>1. r.base \in Configs /\ r.cfg = Changed(LoadConfig(r.base), r.do, r.arg)
      BY <1>3, <1>5, <1>7, <2>3 DEF Holds, Loaded
    <3>2. x.base = r.base
      BY <1>5, <3>1, NameAssumption
    <3> QED
      BY <1>5, <3>1, <3>2
  <2>4. x.do = "init" => x.cfg \in Configs /\ x.cfg.engine # None
    BY <1>3, <1>5, <1>7 DEF Holds
  <2> QED
    BY <1>7, <2>1, <2>2, <2>3, <2>4 DEF Holds
<1>10. Good(p, x)
  BY <1>5, <1>6, <1>9 DEF Good
<1>11. Same(r, x)
  <2>1. r.do = "create" => Left(r) # 6
    BY <1>3 DEF Counts
  <2>2. r.do = "rm" => Left(r) # 5
    BY <1>3 DEF Counts
  <2>3. /\ x.do = "create" /\ Left(x) <= 5 => Left(r) <= 5
        /\ x.do = "rm" /\ Left(x) <= 4 => Left(r) <= 4
    BY <1>5, <1>6, <2>1, <2>2
  <2> QED
    BY <1>3, <1>5, <1>7, <2>3 DEF Same
<1>12. Ready(x, images', mishaps')
  <2>1. Ready(r, images', mishaps') /\ OnDisk(file, images', mishaps')
    BY <1>1, <1>2, <1>r DEF Staged
  <2> QED
    BY <1>2, <1>3, <1>5, <1>7, <2>1 DEF Ready
<1>13. ASSUME p = "switch"
       PROVE  x.todo # <<>> /\ Left(x) >= 2
  <2>1. r.do = "switch"
    BY <1>3, <1>13 DEF Fits
  <2>2. Left(r) # 1 /\ Left(r) # 2
    BY <1>3, <2>1 DEF Counts
  <2> QED
    BY <1>6, <2>2
<1>14. ASSUME p = "init"
       PROVE  Keys' /\ ~At("init", "wait")
  <2>1. r.do = "init"
    BY <1>3, <1>14 DEF Fits
  <2>2. Left(r) \in {5, 7}
    BY <1>3, <2>1 DEF Counts
  <2>3. Saving
    BY <1>2, <1>14, <1>r, <2>2 DEF Saving
  <2>4. pr'["init"] = x /\ \A q \in Processes \ {"init"} : pr'[q] = pr[q]
    BY <1>1, <1>4, <1>14, Updated
  <2>5. Left(x) \in {4, 6} /\ (Left(x) = 4 => Left(r) = 5)
    BY <1>6, <2>2
  <2>6. Saving'
    BY <1>7, <2>4, <2>5 DEF Saving, Running, Comes
  <2>7. ASSUME {"crash", "not-saved"} \cap mishaps' = {}
        PROVE  /\ keys' <= 1 /\ hostKey' # 0 /\ hostKey' = keys' /\ x.read = file'
               /\ Left(x) \in {4, 5} => file'.key = hostKey'
    <3>1. /\ keys <= 1 /\ hostKey # 0 /\ hostKey = keys
          /\ Left(r) = 5 => file.key = hostKey
      BY <1>1, <1>2, <1>14, <1>r, <2>3, <2>7 DEF Keys
    <3> QED
      BY <1>2, <1>5, <2>5, <3>1
  <2>8. Keys'
    BY <2>4, <2>6, <2>7 DEF Keys
  <2> QED
    BY <1>3, <1>14, <1>r, <2>8 DEF At
<1>15. x.todo # <<>> => Left(x) \in Nat /\ Left(x) < Left(r) /\ Left(x) >= 1
  BY <1>6
<1> QED
  BY <1>2, <1>4, <1>5, <1>10, <1>11, <1>12, <1>13, <1>14, <1>15, <1>r, Replaced

\* What a command makes of a configuration changes one service.
LEMMA ChangedIs ==
  ASSUME NEW c \in Configs, NEW do \in ServiceDo, NEW n \in Names
  PROVE  /\ Changed(c, do, n) \in Configs
         /\ \A m \in Names \ {n} : Changed(c, do, n).svc[m] = c.svc[m]
         /\ do = "rm" => Changed(c, do, n).svc[n] = None
<1>1. \A v \in {"on", "off", None} :
         /\ [c EXCEPT !.svc[n] = v] \in Configs
         /\ [c EXCEPT !.svc[n] = v].svc[n] = v
         /\ \A m \in Names \ {n} : [c EXCEPT !.svc[n] = v].svc[m] = c.svc[m]
  BY DEF Configs
<1>2. CASE do \in {"enable", "create"}
  BY <1>1, <1>2 DEF Changed
<1>3. CASE do = "disable"
  BY <1>1, <1>3 DEF Changed
<1>4. CASE do \in {"delete", "rm"}
  BY <1>1, <1>4 DEF Changed
<1> QED
  BY <1>2, <1>3, <1>4 DEF ServiceDo

\* Writing the merged services back does not change what is in force.
LEMMA MergedAgain ==
  ASSUME NEW f \in Configs, NEW g \in Configs, NEW n \in Names,
         g.svc[n] = f.svc[n] \/ g.svc[n] = LoadConfig(f).svc[n]
  PROVE  LoadConfig(g).svc[n] = LoadConfig(f).svc[n]
<1>1. \A c : LoadConfig(c).svc[n] = Over(Over(Below.svc[n], c.svc[n]), Cmdline.svc[n])
  BY DEF LoadConfig, Merge
<1> QED
  BY <1>1 DEF Over

\* What Set writes, command by command.
LEMMA ModifiedIs ==
  ASSUME Tracks, Data, NEW p \in Processes, At(p, "write"), NEW r, r = pr[p], NEW f, f = Modified(p)
  PROVE  /\ f \in Configs
         /\ r.do \in ServiceDo =>
               f.svc = r.cfg.svc /\ f.console = r.read.console /\ f.engine = r.read.engine
         /\ r.do = "config-merge" =>
               /\ \A n \in Names \ {r.arg} : f.svc[n] = r.read.svc[n]
               /\ f.console = r.read.console /\ f.engine = r.read.engine
         /\ r.do \in {"console-enable", "switch", "config-set"} =>
               f.svc = r.read.svc /\ f.console = r.arg /\ f.engine = r.read.engine
         /\ r.do \in {"engine-enable", "engine-switch"} =>
               f.svc = r.read.svc /\ f.console = r.read.console /\ f.engine = r.arg
         /\ r.do = "init" =>
               f.svc = r.read.svc /\ f.console = r.read.console /\ f.engine = r.read.engine
         /\ r.do # "init" => f.key = r.read.key /\ f.pub = r.read.pub
         /\ r.do = "init" /\ Left(r) = 6 => f.key = hostKey
         /\ r.do = "init" /\ Left(r) # 6 => f.key = r.read.key /\ f.pub = hostKey
<1>1. /\ Good(p, r) /\ Fits(p, r) /\ Belongs(r) /\ OnTrack(r) /\ Holds(r)
      /\ r.todo # <<>> /\ Head(r.todo) = "write"
  BY Here DEF At, Good, Running
<1>2. r.read \in Configs
  BY <1>1 DEF Holds, Comes
<1>3. r.do \in (ShellDo \ {"console-switch"}) \cup {"switch", "init"}
  BY <1>1 DEF Fits, Belongs, Processes, ShellDo
<1>4. /\ r.do \in {"enable", "disable", "delete", "config-merge"} => r.arg \in Services
      /\ r.do \in {"config-set", "console-enable", "switch"} => r.arg \in Consoles
      /\ r.do \in {"engine-enable", "engine-switch"} => r.arg \in Engines
      /\ r.do \in {"create", "rm"} => r.arg \in Dinds
  BY <1>1 DEF Fits
<1>5. CASE r.do \in ServiceDo
  <2>1. f = [r.read EXCEPT !.svc = r.cfg.svc]
    BY <1>5 DEF Modified, ServiceDo
  <2>2. r.cfg \in Configs
    <3>1. r.base \in Configs /\ r.cfg = Changed(LoadConfig(r.base), r.do, r.arg)
      BY <1>1, <1>5 DEF Holds, Comes, Loaded
    <3>2. r.arg \in Names
      BY <1>4, <1>5 DEF Names, ServiceDo
    <3> QED
      BY <1>5, <3>1, <3>2, LoadConfigIs, ChangedIs
  <2> QED
    BY <1>2, <1>5, <2>1, <2>2 DEF Configs, ServiceDo
<1>6. CASE r.do = "config-merge"
  <2>1. f = [r.read EXCEPT !.svc[r.arg] = "on"]
    BY <1>6 DEF Modified
  <2>2. r.arg \in Names
    BY <1>4, <1>6 DEF Names
  <2> QED
    BY <1>2, <1>6, <2>1, <2>2 DEF Configs, ServiceDo
<1>7. CASE r.do \in {"console-enable", "switch", "config-set"}
  <2>1. f = [r.read EXCEPT !.console = r.arg]
    BY <1>7 DEF Modified
  <2> QED
    BY <1>2, <1>4, <1>7, <2>1 DEF Configs, ServiceDo
<1>8. CASE r.do \in {"engine-enable", "engine-switch"}
  <2>1. f = [r.read EXCEPT !.engine = r.arg]
    BY <1>8 DEF Modified
  <2> QED
    BY <1>2, <1>4, <1>8, <2>1 DEF Configs, ServiceDo
<1>9. CASE r.do = "init"
  <2>1. Head(Tail(r.todo)) = "set" <=> Left(r) = 6
    <3>1. Initing(r.todo)
      BY <1>1, <1>9, InitingPlaces DEF OnTrack
    <3>2. Spot(r.todo, 6, "write", "set") \/ Spot(r.todo, 4, "write", "scripts")
      BY <1>1, <3>1 DEF Initing, Spot, Final
    <3>3. CASE Spot(r.todo, 6, "write", "set")
      BY <3>3 DEF Spot, Follows, Left
    <3>4. CASE Spot(r.todo, 4, "write", "scripts")
      <4>1. Head(Tail(r.todo)) = "scripts" /\ Len(r.todo) = 4
        BY <3>4 DEF Spot, Follows
      <4>2. "scripts" # "set" /\ 4 # 6
        OBVIOUS
      <4>3. Head(Tail(r.todo)) # "set" /\ Left(r) # 6
        BY ONLY <4>1, <4>2, Zenon DEF Left
      <4> QED
        BY <4>3
    <3> QED
      BY <3>2, <3>3, <3>4
  <2>2. f = IF Left(r) = 6 THEN [r.read EXCEPT !.key = hostKey] ELSE [r.read EXCEPT !.pub = hostKey]
    BY <1>9, <2>1 DEF Modified
  <2>3. hostKey \in Nat
    BY DEF Data
  <2> QED
    BY <1>2, <1>9, <2>2, <2>3 DEF Configs, ServiceDo
<1> QED
  BY <1>3, <1>5, <1>6, <1>7, <1>8, <1>9 DEF ShellDo, ServiceDo

\* A command that was not overtaken changes what it is about.
LEMMA WriteKeeps ==
  ASSUME Tracks, Data, NEW p \in Processes, At(p, "write"), ~Overtaken(p),
         NEW r, r = pr[p], NEW f, f = Modified(p)
  PROVE  /\ \A n \in Names : n # r.arg \/ r.do \notin ServiceDo \cup {"config-merge"} =>
               LoadConfig(f).svc[n] = LoadConfig(file).svc[n]
         /\ r.arg \notin Consoles => LoadConfig(f).console = LoadConfig(file).console
         /\ r.arg \notin Engines => LoadConfig(f).engine = LoadConfig(file).engine
         /\ r.do = "rm" => f.svc[r.arg] = None
<1>1. /\ Good(p, r) /\ Fits(p, r) /\ Belongs(r) /\ Holds(r) /\ r.todo # <<>> /\ Head(r.todo) = "write"
  BY Here DEF At, Good, Running
<1>2. r.read = file /\ (r.do # "init" => r.base = file)
  BY DEF Overtaken
<1>3. file \in Configs
  BY DEF Data
<1>4. r.do \in (ShellDo \ {"console-switch"}) \cup {"switch", "init"}
  BY <1>1 DEF Fits, Belongs, Processes, ShellDo
<1>5. /\ f \in Configs
      /\ r.do \in ServiceDo =>
            f.svc = r.cfg.svc /\ f.console = r.read.console /\ f.engine = r.read.engine
      /\ r.do = "config-merge" =>
            /\ \A n \in Names \ {r.arg} : f.svc[n] = r.read.svc[n]
            /\ f.console = r.read.console /\ f.engine = r.read.engine
      /\ r.do \in {"console-enable", "switch", "config-set"} =>
            f.svc = r.read.svc /\ f.console = r.arg /\ f.engine = r.read.engine
      /\ r.do \in {"engine-enable", "engine-switch"} =>
            f.svc = r.read.svc /\ f.console = r.read.console /\ f.engine = r.arg
      /\ r.do = "init" =>
            f.svc = r.read.svc /\ f.console = r.read.console /\ f.engine = r.read.engine
  BY ModifiedIs
<1>6. ASSUME r.do \in ServiceDo
      PROVE  /\ \A n \in Names \ {r.arg} : f.svc[n] = LoadConfig(file).svc[n]
             /\ r.do = "rm" => f.svc[r.arg] = None
  <2>1. r.cfg = Changed(LoadConfig(file), r.do, r.arg)
    BY <1>1, <1>2, <1>6 DEF Holds, Comes, Loaded, ServiceDo
  <2>2. r.arg \in Names
    BY <1>1, <1>6 DEF Fits, Names, ServiceDo
  <2> QED
    BY <1>3, <1>5, <1>6, <2>1, <2>2, LoadConfigIs, ChangedIs
<1>7. ASSUME NEW n \in Names, n # r.arg \/ r.do \notin ServiceDo \cup {"config-merge"}
      PROVE  LoadConfig(f).svc[n] = LoadConfig(file).svc[n]
  <2>1. f.svc[n] = file.svc[n] \/ f.svc[n] = LoadConfig(file).svc[n]
    BY <1>2, <1>4, <1>5, <1>6, <1>7 DEF ShellDo, ServiceDo
  <2> QED
    BY <1>3, <1>5, <2>1, MergedAgain
<1>8. \A c : /\ LoadConfig(c).console = Over(Over(Below.console, c.console), Cmdline.console)
             /\ LoadConfig(c).engine = Over(Over(Below.engine, c.engine), Cmdline.engine)
  BY DEF LoadConfig, Merge
<1>9. ASSUME r.arg \notin Consoles
      PROVE  f.console = file.console
  <2>1. r.do \notin {"console-enable", "switch", "config-set"}
    BY <1>1, <1>9 DEF Fits
  <2> QED
    BY <1>2, <1>4, <1>5, <2>1 DEF ShellDo, ServiceDo
<1>10. ASSUME r.arg \notin Engines
       PROVE  f.engine = file.engine
  <2>1. r.do \notin {"engine-enable", "engine-switch"}
    BY <1>1, <1>10 DEF Fits
  <2> QED
    BY <1>2, <1>4, <1>5, <2>1 DEF ShellDo, ServiceDo
<1>11. r.do = "rm" => f.svc[r.arg] = None
  BY <1>6 DEF ServiceDo
<1> QED
  BY <1>7, <1>8, <1>9, <1>10, <1>11

\* And however late it comes, it changes nothing but that in what it found.
LEMMA WriteFound ==
  ASSUME Tracks, Data, NEW p \in Processes, At(p, "write"),
         NEW r, r = pr[p], NEW f, f = Modified(p)
  PROVE  /\ \A n \in Names \ {r.arg} :
               \/ LoadConfig(f).svc[n] = LoadConfig(r.read).svc[n]
               \/ r.arg \in Names /\ LoadConfig(f).svc[n] = LoadConfig(r.base).svc[n]
         /\ r.arg \notin Consoles => LoadConfig(f).console = LoadConfig(r.read).console
         /\ r.arg \notin Engines => LoadConfig(f).engine = LoadConfig(r.read).engine
<1>1. /\ Good(p, r) /\ Fits(p, r) /\ Belongs(r) /\ Holds(r) /\ r.todo # <<>> /\ Head(r.todo) = "write"
  BY Here DEF At, Good, Running
<1>2. r.read \in Configs
  BY <1>1 DEF Holds, Comes
<1>4. r.do \in (ShellDo \ {"console-switch"}) \cup {"switch", "init"}
  BY <1>1 DEF Fits, Belongs, Processes, ShellDo
<1>5. /\ f \in Configs
      /\ r.do \in ServiceDo =>
            f.svc = r.cfg.svc /\ f.console = r.read.console /\ f.engine = r.read.engine
      /\ r.do = "config-merge" =>
            /\ \A n \in Names \ {r.arg} : f.svc[n] = r.read.svc[n]
            /\ f.console = r.read.console /\ f.engine = r.read.engine
      /\ r.do \in {"console-enable", "switch", "config-set"} =>
            f.svc = r.read.svc /\ f.console = r.arg /\ f.engine = r.read.engine
      /\ r.do \in {"engine-enable", "engine-switch"} =>
            f.svc = r.read.svc /\ f.console = r.read.console /\ f.engine = r.arg
      /\ r.do = "init" =>
            f.svc = r.read.svc /\ f.console = r.read.console /\ f.engine = r.read.engine
  BY ModifiedIs
<1>6. ASSUME r.do \in ServiceDo
      PROVE  /\ r.arg \in Names
             /\ \A n \in Names \ {r.arg} : LoadConfig(f).svc[n] = LoadConfig(r.base).svc[n]
  <2>1. r.base \in Configs /\ r.cfg = Changed(LoadConfig(r.base), r.do, r.arg)
    BY <1>1, <1>6 DEF Holds, Comes, Loaded, ServiceDo
  <2>2. r.arg \in Names
    BY <1>1, <1>6 DEF Fits, Names, ServiceDo
  <2>3. \A n \in Names \ {r.arg} : f.svc[n] = LoadConfig(r.base).svc[n]
    BY <1>5, <1>6, <2>1, <2>2, LoadConfigIs, ChangedIs
  <2> QED
    BY <1>5, <2>1, <2>2, <2>3, MergedAgain
<1>7. ASSUME r.do \notin ServiceDo, NEW n \in Names \ {r.arg}
      PROVE  LoadConfig(f).svc[n] = LoadConfig(r.read).svc[n]
  <2>1. f.svc[n] = r.read.svc[n]
    BY <1>4, <1>5, <1>7 DEF ShellDo, ServiceDo
  <2> QED
    BY <1>2, <1>5, <2>1, MergedAgain
<1>8. \A c : /\ LoadConfig(c).console = Over(Over(Below.console, c.console), Cmdline.console)
             /\ LoadConfig(c).engine = Over(Over(Below.engine, c.engine), Cmdline.engine)
  BY DEF LoadConfig, Merge
<1>9. ASSUME r.arg \notin Consoles
      PROVE  f.console = r.read.console
  <2>1. r.do \notin {"console-enable", "switch", "config-set"}
    BY <1>1, <1>9 DEF Fits
  <2> QED
    BY <1>4, <1>5, <2>1 DEF ShellDo, ServiceDo
<1>10. ASSUME r.arg \notin Engines
       PROVE  f.engine = r.read.engine
  <2>1. r.do \notin {"engine-enable", "engine-switch"}
    BY <1>1, <1>10 DEF Fits
  <2> QED
    BY <1>4, <1>5, <2>1 DEF ShellDo, ServiceDo
<1> QED
  BY <1>6, <1>7, <1>8, <1>9, <1>10

\* What a process holds that has written the file, or could not.
LEMMA WriteGood ==
  ASSUME NEW p \in Processes, NEW r, Good(p, r), r.todo # <<>>, Head(r.todo) = "write",
         NEW x, x = [r EXCEPT !.todo = Tail(r.todo), !.read = None]
  PROVE  /\ Good(p, x) /\ x.read = None /\ x.do = r.do /\ x.arg = r.arg /\ x.defs = r.defs
         /\ Left(r) \in Nat /\ Left(r) >= 1 /\ Left(x) = Left(r) - 1
         /\ x.todo = <<>> <=> Left(r) = 1
         /\ ~Comes(x, "truncate") /\ ~Comes(x, "rewrite") /\ ~Comes(x, "write")
         /\ ~Comes(r, "truncate") /\ ~Comes(r, "rewrite")
         /\ \A disk, w : Ready(r, disk, w) => Ready(x, disk, w)
<1>1. IsRecord(r) /\ Holds(r) /\ OnTrack(r) /\ Fits(p, r)
  BY DEF Good
<1>2. /\ x.todo = Tail(r.todo) /\ x.do = r.do /\ x.arg = r.arg /\ x.read = None
      /\ x.defs = r.defs /\ x.cfg = r.cfg /\ x.base = r.base /\ IsRecord(x)
  BY <1>1 DEF IsRecord
<1>3. /\ OnTrack(x) /\ (x.todo # <<>> => Fits(p, x))
      /\ Left(r) \in Nat /\ Left(r) >= 1
      /\ Left(x) = Left(r) - 1 /\ (x.todo = <<>> <=> Left(r) = 1)
      /\ Comes(x, "write") <=> Comes(r, "set")
      /\ Comes(x, "truncate") <=> Comes(r, "compose")
      /\ Comes(x, "rewrite") <=> Comes(r, "truncate")
  BY <1>2, Stepping
<1>4. /\ ~Comes(x, "truncate") /\ ~Comes(x, "rewrite") /\ ~Comes(x, "write")
      /\ ~Comes(r, "truncate") /\ ~Comes(r, "rewrite") /\ ~Comes(r, "load") /\ Comes(r, "write")
  BY <1>3 DEF Comes
<1>5. Shape(r) /\ Belongs(r)
  BY <1>1, Table
<1>6. x.defs = None
  BY <1>1, <1>2, <1>4 DEF Holds
<1>7. x.do \in ServiceDo => x.base \in Configs /\ x.cfg = Changed(LoadConfig(x.base), x.do, x.arg)
  BY <1>1, <1>2, <1>4 DEF Holds, Loaded
<1>8. x.do = "init" => x.cfg \in Configs /\ x.cfg.engine # None
  BY <1>1, <1>2, <1>4 DEF Holds
<1>9. Holds(x)
  BY <1>2, <1>4, <1>6, <1>7, <1>8 DEF Holds
<1>10. ASSUME NEW disk, NEW w, Ready(r, disk, w)
       PROVE  Ready(x, disk, w)
  <2>1. x.do \in {"console-enable", "engine-enable", "engine-switch"} => ~Comes(x, "set")
    BY <1>2, <1>5 DEF Shape, Comes
  <2>2. x.do # "console-switch"
    BY <1>2, <1>5 DEF Belongs
  <2> QED
    BY <1>2, <1>4, <1>10, <2>1, <2>2 DEF Ready
<1> QED
  BY <1>2, <1>3, <1>4, <1>9, <1>10 DEF Good

\* Only the command's own engine can become included by what it writes, and only
\* if it creates it; one that it removes is not included any more.
LEMMA WriteIncluded ==
  ASSUME Tracks, Data, NEW p \in Processes, At(p, "write"), ~Overtaken(p),
         NEW r, r = pr[p], NEW f, f = Modified(p)
  PROVE  /\ \A d \in Included(f) : d \in Included(file) \/ (r.do = "create" /\ d = r.arg)
         /\ r.do = "rm" => r.arg \notin Included(f)
<1>1. /\ Fits(p, r) /\ r.todo # <<>>
  BY Here DEF At, Running
<1>2. /\ \A n \in Names : n # r.arg \/ r.do \notin ServiceDo \cup {"config-merge"} =>
             LoadConfig(f).svc[n] = LoadConfig(file).svc[n]
      /\ r.do = "rm" => f.svc[r.arg] = None
  BY WriteKeeps
<1>3. ASSUME r.do = "rm"
      PROVE  r.arg \notin Included(f)
  <2>1. r.arg \in Dinds /\ r.arg \in Names
    BY <1>1, <1>3 DEF Fits, Names
  <2>2. LoadConfig(f).svc[r.arg] = Over(Over(Below.svc[r.arg], f.svc[r.arg]), Cmdline.svc[r.arg])
    BY <2>1 DEF LoadConfig, Merge
  <2>3. LoadConfig(f).svc[r.arg] # "on"
    BY <1>2, <1>3, <2>1, <2>2, NewSystem DEF Over
  <2> QED
    BY <2>3 DEF Included
<1>4. ASSUME NEW d \in Included(f), ~(r.do = "create" /\ d = r.arg)
      PROVE  d \in Included(file)
  <2>1. d \in Dinds /\ d \in Names /\ LoadConfig(f).svc[d] = "on"
    BY DEF Included, Names
  <2>2. d # r.arg \/ r.do \notin ServiceDo \cup {"config-merge"}
    BY <1>1, <1>3, <1>4, <2>1, NameAssumption DEF Fits, ServiceDo
  <2> QED
    BY <1>2, <2>1, <2>2 DEF Included
<1> QED
  BY <1>3, <1>4

\* While console-init saves the key nobody else writes.
LEMMA OnlyInitSaves ==
  ASSUME IInv, NEW p \in Processes, p # "init"
  PROVE  /\ At(p, "write") => ~Saving
         /\ Saving => pr[p].read = None
<1>1. Tracks /\ Alone
  BY DEF IInv
<1> SUFFICES ASSUME Saving
             PROVE  ~At(p, "write") /\ pr[p].read = None
  BY <1>1 DEF Tracks, Good, Holds, At, Comes, Running
<1>2. Running("init") /\ Left(pr["init"]) \in {4, 5, 6, 7} /\ "init" \in Processes
  BY DEF Saving, Processes
<1>3. pr["init"].do = "init" /\ Counts(pr["init"].do, Head(pr["init"].todo), Left(pr["init"]))
  BY <1>1, <1>2, Here DEF Fits
<1>4. ~At("init", "wait")
  BY <1>2, <1>3 DEF Counts, At
<1>5. ASSUME At(p, "write")
      PROVE  FALSE
  <2>1. p = "switch"
    BY <1>1, <1>2, <1>4, <1>5 DEF Alone, At, Processes
  <2>2. Left(pr[p]) = 1 /\ Running(p)
    BY <1>1, <1>2, <1>5, <2>1 DEF Alone, At
  <2>3. pr[p].do = "switch" /\ Counts(pr[p].do, Head(pr[p].todo), Left(pr[p]))
    BY <1>1, <2>1, <2>2, Here DEF Fits
  <2> QED
    BY <1>5, <2>2, <2>3 DEF Counts, At
<1>6. pr[p].read = None
  BY <1>1, <1>5 DEF Tracks, Good, Holds, At, Comes, Running
<1> QED
  BY <1>5, <1>6

\* Writing the file keeps the invariant.
LEMMA WroteInv ==
  ASSUME IInv, NEW p \in Processes, At(p, "write"), WriteFileAtomic(Modified(p)),
         pr' = [pr EXCEPT ![p].todo = Tail(@), ![p].read = None],
         IF Overtaken(p) THEN Note("race") ELSE UNCHANGED mishaps,
         UNCHANGED <<compose, images, hostKey, keys, conUp>>
  PROVE  IInv'
<1>1. Tracks /\ Data /\ Switching /\ Staged /\ Alone /\ Keys /\ OneAtATime
  BY DEF IInv
<1>r. PICK r : r = pr[p]
  OBVIOUS
<1>f. PICK f : f = Modified(p)
  OBVIOUS
<1>x. PICK x : x = [r EXCEPT !.todo = Tail(r.todo), !.read = None]
  OBVIOUS
<1>2. pr' = [pr EXCEPT ![p] = x] /\ file' = f /\ Running(p) /\ mishaps \subseteq mishaps'
  BY <1>f, <1>r, <1>x DEF WriteFileAtomic, At, Note
<1>3. /\ Good(p, r) /\ Fits(p, r) /\ Counts(r.do, Head(r.todo), Left(r)) /\ Belongs(r)
      /\ Holds(r) /\ r.todo # <<>> /\ Head(r.todo) = "write"
  BY <1>1, <1>2, <1>r, Here DEF Good, At, Running
<1>4. /\ Good(p, x) /\ x.read = None /\ x.do = r.do /\ x.arg = r.arg /\ x.defs = r.defs
      /\ Left(r) \in Nat /\ Left(r) >= 1 /\ Left(x) = Left(r) - 1
      /\ x.todo = <<>> <=> Left(r) = 1
      /\ ~Comes(x, "truncate") /\ ~Comes(x, "rewrite") /\ ~Comes(x, "write")
      /\ ~Comes(r, "truncate") /\ ~Comes(r, "rewrite")
      /\ \A disk, w : Ready(r, disk, w) => Ready(x, disk, w)
  BY <1>3, <1>x, WriteGood
<1>5. /\ pr' = [q \in Processes |-> pr'[q]] /\ pr'[p] = x
      /\ \A q \in Processes \ {p} : pr'[q] = pr[q]
  BY <1>1, <1>2, Updated
<1>6. /\ f \in Configs
      /\ r.do \in ServiceDo =>
            f.svc = r.cfg.svc /\ f.console = r.read.console /\ f.engine = r.read.engine
      /\ r.do = "config-merge" => f.console = r.read.console /\ f.engine = r.read.engine
      /\ r.do \in {"console-enable", "switch", "config-set"} =>
            f.console = r.arg /\ f.engine = r.read.engine
      /\ r.do \in {"engine-enable", "engine-switch"} =>
            f.console = r.read.console /\ f.engine = r.arg
      /\ r.do = "init" => f.console = r.read.console /\ f.engine = r.read.engine
      /\ r.do # "init" => f.key = r.read.key /\ f.pub = r.read.pub
      /\ r.do = "init" /\ Left(r) = 6 => f.key = hostKey
      /\ r.do = "init" /\ Left(r) # 6 => f.key = r.read.key /\ f.pub = hostKey
  BY <1>1, <1>f, <1>r, ModifiedIs
<1>7. Tracks' /\ Data'
  BY <1>1, <1>2, <1>4, <1>5, <1>6 DEF Tracks, Data
<1>8. Switching'
  <2>1. CASE p = "switch"
    <3>1. r.do = "switch"
      BY <1>3, <2>1 DEF Fits
    <3>2. Left(r) # 1 /\ Left(r) # 2
      BY <1>3, <3>1 DEF Counts
    <3>3. x.todo # <<>> /\ Left(x) >= 2
      BY <1>4, <3>2
    <3> QED
      BY <1>5, <2>1, <3>3 DEF Switching, Running
  <2>2. CASE p # "switch"
    BY <1>1, <1>2, <1>5, <2>2 DEF Switching, Running, Processes
  <2> QED
    BY <2>1, <2>2
<1>9. Staged'
  <2>1. OnDisk(file, images', mishaps') /\ \A q \in Processes : Ready(pr[q], images', mishaps')
    <3>1. OnDisk(file, images, mishaps) /\ \A q \in Processes : Ready(pr[q], images, mishaps)
      BY <1>1 DEF Staged
    <3>2. OnDisk(file, images', mishaps')
      BY <1>2, <3>1 DEF OnDisk
    <3> QED
      BY <1>2, <3>1, <3>2, ReadyStays
  <2>2. \A q \in Processes : Ready(pr'[q], images', mishaps')
    <3>1. \A disk, w : Ready(r, disk, w) => Ready(x, disk, w)
      BY <1>4
    <3>2. Ready(r, images', mishaps')
      BY <1>r, <2>1
    <3>3. Ready(x, images', mishaps')
      BY ONLY <3>1, <3>2
    <3> QED
      BY <1>5, <2>1, <3>3
  <2>3. r.read # None
    BY <1>3 DEF Holds, Comes
  <2>4. OnDisk(r.read, images', mishaps')
    BY <1>3, <1>r, <2>1, <2>3 DEF Ready
  <2>5. /\ r.do \in {"engine-enable", "engine-switch"} => r.arg \in images'
        /\ r.do = "console-enable" => r.arg \in images' \cup {Default}
        /\ "by-hand" \notin mishaps' => r.do # "config-set"
        /\ "no-pull" \notin mishaps' => (r.do = "switch" => r.arg \in images' \cup {Default})
    BY <1>3, <1>r, <2>1 DEF Ready, Comes
  <2>6. r.do \in (ShellDo \ {"console-switch"}) \cup {"switch", "init"}
    BY <1>3 DEF Fits, Belongs, Processes, ShellDo
  <2>7. f.engine = r.read.engine \/ f.engine \in images'
    BY <1>6, <2>5, <2>6 DEF ShellDo, ServiceDo
  <2>8. {"by-hand", "no-pull"} \cap mishaps' = {} =>
           f.console = r.read.console \/ f.console \in images' \cup {Default}
    BY <1>6, <2>5, <2>6 DEF ShellDo, ServiceDo
  <2>9. OnDisk(f, images', mishaps')
    BY <2>4, <2>7, <2>8 DEF OnDisk
  <2> QED
    BY <1>2, <2>2, <2>9 DEF Staged
<1>10. ASSUME p = "init"
       PROVE  Alone' /\ Keys'
  <2>1. r.do = "init"
    BY <1>3, <1>10 DEF Fits
  <2>2. Left(r) \in {4, 6}
    BY <1>3, <2>1 DEF Counts
  <2>3. Saving /\ Left(x) \in {3, 5} /\ (Left(x) = 3 => Left(r) = 4) /\ x.todo # <<>>
    BY <1>2, <1>4, <1>10, <1>r, <2>2 DEF Saving
  <2>4. Alone'
    <3>1. ~At("init", "wait")
      BY <1>3, <1>10, <1>r DEF At
    <3>2. /\ \A q \in Shells : q \in Processes \ {"init"}
          /\ "switch" \in Processes \ {"init"} /\ "first" \in Processes \ {"init"}
      BY NameAssumption DEF Processes
    <3> QED
      BY <1>1, <1>2, <1>5, <1>10, <3>1, <3>2 DEF Alone, Running
  <2>5. Keys'
    <3> SUFFICES ASSUME {"crash", "not-saved"} \cap mishaps' = {}
                 PROVE  Keys'
      BY DEF Keys
    <3>1. /\ keys <= 1 /\ hostKey # 0 /\ hostKey = keys /\ r.read = file
          /\ Left(r) = 4 => file.key = hostKey
      BY <1>1, <1>2, <1>10, <1>r, <2>2, <2>3 DEF Keys
    <3>2. hostKey \in Nat /\ hostKey # None
      BY <1>1, NameAssumption DEF Data
    <3>3. f.key = hostKey /\ (Left(r) = 4 => f.pub = hostKey)
      BY <1>6, <2>1, <2>2, <3>1
    <3>4. CASE Left(x) = 5
      <4>1. Saving'
        BY <1>5, <1>10, <2>3, <3>4 DEF Saving, Running
      <4> QED
        BY <1>2, <1>5, <1>10, <3>1, <3>3, <3>4, <4>1 DEF Keys
    <3>5. CASE Left(x) = 3
      <4>1. ~Saving'
        BY <1>5, <1>10, <3>5 DEF Saving
      <4>2. HasKey(f)
        BY <2>3, <3>2, <3>3, <3>5 DEF HasKey
      <4>3. \A q \in Processes : pr'[q].read = None
        BY <1>4, <1>5, <1>10, <2>3, OnlyInitSaves
      <4>4. ~At("init", "ssh")'
        <5>1. OnTrack(x) /\ Fits(p, x)
          BY <1>4, <2>3 DEF Good
        <5>2. Counts(x.do, Head(x.todo), Left(x))
          BY <2>3, <5>1, Table
        <5> QED
          BY <1>4, <1>5, <1>10, <2>1, <3>5, <5>2 DEF Counts, At
      <4> QED
        BY <1>2, <3>1, <4>1, <4>2, <4>3, <4>4 DEF Keys
    <3> QED
      BY <2>3, <3>4, <3>5
  <2> QED
    BY <2>4, <2>5
<1>11. ASSUME p # "init"
       PROVE  Alone' /\ Keys'
  <2>1. Left(x) \in Nat /\ (x.todo # <<>> => Left(x) < Left(pr[p]) /\ Left(x) >= 1)
    BY <1>4, <1>r
  <2>2. Alone'
    BY <1>1, <1>2, <1>5, <1>11, <2>1, AloneKeeps
  <2>3. pr'["init"] = pr["init"]
    BY <1>5, <1>11 DEF Processes
  <2>4. ~Saving /\ ~Saving'
    BY <1>11, <2>3, OnlyInitSaves DEF Saving, Running
  <2>5. r.do # "init" /\ r.read # None
    BY <1>3, <1>11 DEF Fits, Processes, ShellDo, Holds, Comes
  <2>6. Keys'
    <3> SUFFICES ASSUME {"crash", "not-saved"} \cap mishaps' = {}
                 PROVE  Keys'
      BY DEF Keys
    <3>1. /\ keys <= 1
          /\ keys = 1 => /\ \A q \in Processes : pr[q].read # None => HasKey(pr[q].read)
                         /\ At("init", "ssh") => HasKey(pr["init"].cfg)
      BY <1>1, <1>2, <2>4 DEF Keys
    <3>2. keys = 1 => HasKey(f)
      BY <1>6, <1>r, <2>5, <3>1 DEF HasKey
    <3>3. keys = 1 => \A q \in Processes : pr'[q].read # None => HasKey(pr'[q].read)
      BY <1>4, <1>5, <3>1
    <3> QED
      BY <1>2, <2>3, <2>4, <3>1, <3>2, <3>3 DEF Keys, At, Running
  <2> QED
    BY <2>2, <2>6
<1>12. Alone' /\ Keys'
  BY <1>10, <1>11
<1>13. OneAtATime'
  <2> SUFFICES ASSUME {"race", "crash", "cut", "torn"} \cap mishaps' = {}
               PROVE  OneAtATime'
    BY DEF OneAtATime
  <2>1. ~Overtaken(p) /\ {"race", "crash", "cut", "torn"} \cap mishaps = {}
    BY <1>2 DEF Note
  <2>2. /\ \A d \in Included(f) : d \in Included(file) \/ (r.do = "create" /\ d = r.arg)
        /\ r.do = "rm" => r.arg \notin Included(f)
    BY <1>1, <1>f, <1>r, <2>1, WriteIncluded
  <2>3. Included(file)' = Included(f)
    BY <1>2 DEF Included
  <2>4. \A q \in Processes : (Rewriting(q)' <=> Rewriting(q)) /\ pr'[q].defs = pr[q].defs
                             /\ pr'[q].do = pr[q].do /\ pr'[q].arg = pr[q].arg
    BY <1>4, <1>5, <1>r DEF Rewriting, At, Running, Comes
  <2>5. \A d : Effective(d)' <=> Effective(d)
    BY <2>4 DEF Effective
  <2>6. \A q \in Processes : (Running(q)' => Running(q)) /\ (At(q, "truncate")' => At(q, "truncate"))
    BY <1>2, <1>4, <1>5 DEF At, Running, Comes
  <2>7. \A q \in Processes : Changes(q)' => Changes(q)
    BY <2>4, <2>6 DEF Changes
  <2>8. ASSUME r.do = "create"
        PROVE  Left(r) = 2
    BY <1>3, <2>8 DEF Counts
  <2>9. r.do = "create" => Effective(r.arg)
    BY <1>1, <1>2, <1>r, <2>1, <2>8 DEF OneAtATime
  <2>10. \A d \in Included(f) : Effective(d)
    BY <1>1, <2>1, <2>2, <2>9 DEF OneAtATime
  <2>11. ASSUME NEW q \in Processes, pr'[q].do = "rm", Running(q)', Left(pr'[q]) <= 4
         PROVE  pr'[q].arg \notin Included(f)
    <3>1. CASE q = p
      BY <1>4, <1>5, <2>2, <2>11, <3>1
    <3>2. CASE q # p
      <4>1. pr'[q] = pr[q] /\ Running(q) /\ pr[q].arg \notin Included(file)
        BY <1>1, <1>5, <2>1, <2>6, <2>11, <3>2 DEF OneAtATime
      <4>2. r.do = "create" => pr[q].arg # r.arg
        BY <1>1, <1>2, <1>r, <2>1, <2>11, <3>2, <4>1 DEF OneAtATime, Changes
      <4> QED
        BY <2>2, <4>1, <4>2
    <3> QED
      BY <3>1, <3>2
  <2>12. ASSUME NEW q \in Processes, pr'[q].do = "create", Running(q)', Left(pr'[q]) <= 5
         PROVE  Effective(pr[q].arg)
    <3>1. CASE q = p
      BY <1>4, <1>5, <1>r, <2>9, <2>12, <3>1
    <3>2. CASE q # p
      BY <1>1, <1>5, <2>1, <2>6, <2>12, <3>2 DEF OneAtATime
    <3> QED
      BY <3>1, <3>2
  <2>13. \A q \in Processes : pr'[q].do = "create" /\ Rewriting(q)' => pr'[q].defs[pr'[q].arg]
    BY <1>1, <2>1, <2>4 DEF OneAtATime
  <2>14. \A q \in Processes : pr'[q].do = "create" /\ Running(q)' /\ Left(pr'[q]) <= 5 =>
            Effective(pr[q].arg)'
    <3> SUFFICES ASSUME NEW q \in Processes, pr'[q].do = "create", Running(q)', Left(pr'[q]) <= 5
                 PROVE  Effective(pr[q].arg)'
      OBVIOUS
    <3>1. PICK a : a = pr[q].arg
      OBVIOUS
    <3>2. Effective(a)' /\ pr'[q].arg = a
      BY <2>4, <2>5, <2>12, <3>1
    <3> QED
      BY <3>2
  <2>15. \A p_1, q \in Processes : Changes(p_1)' /\ Changes(q)' /\ pr'[p_1].arg = pr'[q].arg => p_1 = q
    BY <1>1, <2>1, <2>4, <2>7 DEF OneAtATime
  <2>16. \A p_1, q \in Processes : pr'[p_1].defs # None /\ pr'[q].defs # None => p_1 = q
    BY <1>1, <2>1, <2>4 DEF OneAtATime
  <2>17. \A q \in Processes : At(q, "truncate")' =>
            compose' # Torn
            /\ pr'[q].defs = [compose' EXCEPT ![pr'[q].arg] = pr'[q].do = "create"]
    BY <1>1, <2>1, <2>4, <2>6 DEF OneAtATime
  <2>18. (\A q \in Processes : ~Rewriting(q)') => compose' # Torn
    BY <1>1, <2>1, <2>4 DEF OneAtATime
  <2>19. \A d \in Included(file)' : Effective(d)'
    BY <2>3, <2>5, <2>10
  <2> QED
    BY <2>3, <2>11, <2>13, <2>14, <2>15, <2>16, <2>17, <2>18, <2>19 DEF OneAtATime
<1> QED
  BY <1>7, <1>8, <1>9, <1>12, <1>13 DEF IInv

\* config.Set's writing of the file keeps the invariant, also when it fails.
LEMMA SetWriteInv ==
  ASSUME IInv, NEW p \in Processes, SetWrite(p)
  PROVE  IInv'
<1>1. Tracks /\ At(p, "write") /\ Running(p)
  BY DEF IInv, SetWrite, At
<1>r. PICK r : r = pr[p]
  OBVIOUS
<1>2. /\ Good(p, r) /\ Fits(p, r) /\ Counts(r.do, Head(r.todo), Left(r))
      /\ Holds(r) /\ r.todo # <<>> /\ Head(r.todo) = "write"
  BY <1>1, <1>r, Here DEF Good, At, Running
<1>3. CASE /\ WriteFileAtomic(Modified(p))
           /\ pr' = [pr EXCEPT ![p].todo = Tail(@), ![p].read = None]
           /\ IF Overtaken(p) THEN Note("race") ELSE UNCHANGED mishaps
           /\ UNCHANGED <<compose, scripts, images, boxes, count>>
  BY <1>1, <1>3, WroteInv DEF boxes
<1>4. CASE /\ pr[p].do \in {"console-enable", "switch", "engine-enable", "engine-switch", "init"}
           /\ Err(p, "not-saved")
           /\ pr' = [pr EXCEPT ![p].todo = Tail(@), ![p].read = None]
           /\ UNCHANGED <<store, boxes, given>>
  <2>x. PICK x : x = [r EXCEPT !.todo = Tail(r.todo), !.read = None]
    OBVIOUS
  <2>1. pr' = [pr EXCEPT ![p] = x]
    BY <1>4, <1>r, <2>x
  <2>2. /\ Good(p, x) /\ x.read = None /\ x.do = r.do /\ x.arg = r.arg /\ x.defs = r.defs
        /\ Left(r) \in Nat /\ Left(r) >= 1 /\ Left(x) = Left(r) - 1
        /\ x.todo = <<>> <=> Left(r) = 1
        /\ ~Comes(x, "truncate") /\ ~Comes(x, "rewrite") /\ ~Comes(x, "write")
        /\ ~Comes(r, "truncate") /\ ~Comes(r, "rewrite")
        /\ \A disk, w : Ready(r, disk, w) => Ready(x, disk, w)
    BY <1>2, <2>x, WriteGood
  <2>3. Same(r, x)
    BY <1>2, <1>4, <1>r, <2>2 DEF Same
  <2>4. /\ UNCHANGED <<file, compose, images, hostKey, keys, conUp>>
        /\ mishaps \subseteq mishaps' /\ "not-saved" \in mishaps'
    BY <1>4 DEF Err, Note, store, boxes
  <2>5. Ready(x, images', mishaps')
    <3>1. Ready(r, images, mishaps)
      BY <1>r DEF IInv, Staged
    <3>2. Ready(r, images', mishaps')
      BY <2>4, <3>1, ReadyStays
    <3>3. \A disk, w : Ready(r, disk, w) => Ready(x, disk, w)
      BY <2>2
    <3> QED
      BY ONLY <3>2, <3>3
  <2>6. ASSUME p = "switch"
        PROVE  x.todo # <<>> /\ Left(x) >= 2
    <3>1. r.do = "switch"
      BY <1>2, <2>6 DEF Fits
    <3>2. Left(r) # 1 /\ Left(r) # 2
      BY <1>2, <3>1 DEF Counts
    <3> QED
      BY <2>2, <3>2
  <2>7. Keys' /\ (p = "init" => ~At("init", "wait"))
    BY <1>2, <1>r, <2>4 DEF Keys, At
  <2>8. x.todo # <<>> => Left(x) \in Nat /\ Left(x) < Left(r) /\ Left(x) >= 1
    BY <2>2
  <2> QED
    BY <1>1, <1>r, <2>1, <2>2, <2>3, <2>4, <2>5, <2>6, <2>7, <2>8, Replaced
<1>5. CASE /\ pr[p].do \in {"enable", "disable", "delete", "create", "rm", "config-set",
                            "config-merge"}
           /\ Fail(p)
  <2>1. /\ End(p) /\ UNCHANGED <<file, compose, images, hostKey, keys, conUp>>
        /\ mishaps \subseteq mishaps'
    BY <1>5 DEF Fail, Err, Note, store, boxes
  <2>2. p # "switch" /\ p # "init" /\ Head(pr[p].todo) # "rewrite"
    BY <1>2, <1>5, <1>r DEF Fits
  <2> QED
    BY <1>1, <2>1, <2>2, Ended
<1> QED
  BY <1>3, <1>4, <1>5 DEF SetWrite

\* A process that deals with the compose file goes on: all but its part is kept.
LEMMA ComposeBut ==
  ASSUME IInv, NEW p \in Processes, Running(p),
         Head(pr[p].todo) \in {"compose", "truncate", "rewrite"},
         NEW x, pr' = [pr EXCEPT ![p] = x], IsRecord(x),
         x.todo = Tail(pr[p].todo), x.do = pr[p].do, x.arg = pr[p].arg, x.read = pr[p].read,
         x.defs \in [Dinds -> BOOLEAN] \cup {None},
         x.defs # None <=> Head(pr[p].todo) \in {"compose", "truncate"},
         UNCHANGED <<file, hostKey, keys, conUp, images>>, mishaps \subseteq mishaps'
  PROVE  /\ Tracks' /\ Switching' /\ Staged' /\ Alone' /\ Keys'
         /\ pr[p].do \in {"create", "rm"} /\ pr[p].arg \in Dinds
         /\ Left(pr[p]) \in Nat /\ Left(x) = Left(pr[p]) - 1 /\ x.todo # <<>>
         /\ Comes(x, "truncate") <=> Head(pr[p].todo) = "compose"
         /\ Comes(x, "rewrite") <=> Head(pr[p].todo) = "truncate"
<1>1. Tracks /\ Staged
  BY DEF IInv
<1>r. PICK r : r = pr[p]
  OBVIOUS
<1>2. /\ Good(p, r) /\ Fits(p, r) /\ Shape(r) /\ Belongs(r) /\ Counts(r.do, Head(r.todo), Left(r))
      /\ Holds(r) /\ r.todo # <<>>
  BY <1>1, <1>r, Here DEF Good, Running
<1>3. r.do \in {"create", "rm"}
  BY <1>2, <1>r DEF Belongs
<1>4. r.arg \in Dinds /\ p # "switch" /\ p # "init"
  BY <1>2, <1>3 DEF Fits
<1>5. /\ OnTrack(x) /\ (x.todo # <<>> => Fits(p, x))
      /\ Left(r) \in Nat /\ Left(r) >= 1
      /\ Left(x) = Left(r) - 1 /\ (x.todo = <<>> <=> Left(r) = 1)
      /\ Comes(x, "write") <=> Comes(r, "set")
      /\ Comes(x, "truncate") <=> Comes(r, "compose")
      /\ Comes(x, "rewrite") <=> Comes(r, "truncate")
  BY <1>2, <1>r, Stepping
<1>6. Left(r) # 1
  <2>1. CASE r.do = "create"
    BY <1>2, <1>r, <2>1 DEF Counts
  <2>2. CASE r.do = "rm"
    BY <1>2, <1>r, <2>2 DEF Counts
  <2> QED
    BY <1>3, <2>1, <2>2
<1>7. ~Comes(x, "write") /\ ~Comes(r, "write")
  BY <1>2, <1>5, <1>r DEF Comes
<1>8. x.read = None
  BY <1>2, <1>7, <1>r DEF Holds
<1>9. \A y \in Loaded : ~Comes(x, y)
  BY <1>2, <1>3, <1>r DEF Shape, Comes, Loaded, ServiceDo
<1>10. Holds(x)
  BY <1>2, <1>3, <1>5, <1>7, <1>8, <1>9, <1>r DEF Holds, Comes
<1>11. Good(p, x)
  BY <1>5, <1>10 DEF Good
<1>12. \A disk, w : Ready(x, disk, w)
  BY <1>3, <1>8, <1>r DEF Ready
<1>13. x.todo # <<>> => Left(x) \in Nat /\ Left(x) < Left(r) /\ Left(x) >= 1
  BY <1>5
<1>14. Tracks' /\ Switching' /\ Staged' /\ Alone' /\ Keys'
  BY <1>4, <1>8, <1>11, <1>12, <1>13, <1>r, ReplacedBut
<1>15. /\ Comes(r, "compose") <=> Head(r.todo) = "compose"
       /\ Comes(r, "truncate") <=> Head(r.todo) = "truncate"
  BY <1>2 DEF Comes
<1> QED
  BY <1>3, <1>4, <1>5, <1>6, <1>14, <1>15, <1>r

\* Reading the compose file keeps the invariant.
LEMMA ComposeReadInv ==
  ASSUME IInv, NEW p \in Processes, ComposeRead(p)
  PROVE  IInv'
<1>1. Tracks /\ Data /\ OneAtATime
  BY DEF IInv
<1>2. /\ Running(p) /\ Head(pr[p].todo) = "compose"
      /\ UNCHANGED <<file, compose, images, hostKey, keys, conUp>>
  BY DEF ComposeRead, At, store, boxes
<1>r. PICK r : r = pr[p]
  OBVIOUS
<1>3. Good(p, r) /\ Fits(p, r) /\ Belongs(r) /\ Counts(r.do, Head(r.todo), Left(r)) /\ IsRecord(r)
  BY <1>1, <1>2, <1>r, Here DEF Good
<1>4. r.do \in {"create", "rm"} /\ r.arg \in Dinds /\ p # "switch" /\ p # "init"
  BY <1>2, <1>3, <1>r DEF Belongs, Fits
<1>5. CASE /\ compose # Torn
           /\ pr' = [pr EXCEPT ![p].todo = Tail(@),
                               ![p].defs = [compose EXCEPT ![pr[p].arg] = pr[p].do = "create"]]
           /\ IF Held(p) THEN Note("race") ELSE UNCHANGED mishaps
  <2>d. PICK d : d = [compose EXCEPT ![r.arg] = r.do = "create"]
    OBVIOUS
  <2>x. PICK x : x = [r EXCEPT !.todo = Tail(r.todo), !.defs = d]
    OBVIOUS
  <2>1. pr' = [pr EXCEPT ![p] = x]
    BY <1>5, <1>r, <2>d, <2>x
  <2>2. /\ x.todo = Tail(r.todo) /\ x.do = r.do /\ x.arg = r.arg /\ x.read = r.read
        /\ x.defs = d /\ IsRecord(x)
    BY <1>3, <2>x DEF IsRecord
  <2>3. compose \in [Dinds -> BOOLEAN]
    BY <1>1, <1>5 DEF Data
  <2>4. d \in [Dinds -> BOOLEAN] /\ d # None
    BY <2>3, <2>d, NameAssumption
  <2>5. mishaps \subseteq mishaps'
    BY <1>5 DEF Note
  <2>6. /\ Tracks' /\ Switching' /\ Staged' /\ Alone' /\ Keys'
        /\ Left(r) \in Nat /\ Left(x) = Left(r) - 1 /\ x.todo # <<>>
        /\ Comes(x, "truncate") /\ ~Comes(x, "rewrite")
    BY <1>2, <1>r, <2>1, <2>2, <2>4, <2>5, ComposeBut
  <2>7. pr'[p] = x /\ \A q \in Processes \ {p} : pr'[q] = pr[q]
    BY <1>1, <2>1, Updated
  <2>8. OneAtATime'
    <3> SUFFICES ASSUME {"race", "crash", "cut", "torn"} \cap mishaps' = {}
                 PROVE  OneAtATime'
      BY DEF OneAtATime
    <3>1. ~Held(p) /\ {"race", "crash", "cut", "torn"} \cap mishaps = {}
      BY <1>5, <2>5 DEF Note
    <3>2. \A q \in Processes \ {p} : pr[q].defs = None
      BY <3>1 DEF Held
    <3>3. \A q \in Processes \ {p} : ~At(q, "truncate") /\ ~Rewriting(q)
      BY <1>1, <3>2 DEF Tracks, Good, Holds, Comes, At, Running, Rewriting
    <3>4. ~Rewriting(p) /\ ~At(p, "truncate")
      BY <1>2 DEF Rewriting, At
    <3>5. \A q \in Processes : ~Rewriting(q) /\ ~Rewriting(q)'
      BY <2>6, <2>7, <3>3, <3>4 DEF Rewriting, At, Running, Comes
    <3>6. \A e : Effective(e)' <=> Effective(e)
      BY <1>2, <3>5 DEF Effective
    <3>7. Included(file)' = Included(file)
      BY <1>2 DEF Included
    <3>8. \A q \in Processes : Changes(q)' => Changes(q) /\ pr'[q].arg = pr[q].arg
      BY <1>2, <1>r, <2>2, <2>7 DEF Changes, Running
    <3>9. /\ r.do = "create" => Left(x) = 7
          /\ r.do = "rm" => Left(r) = 4
      <4>1. (r.do = "create" => Left(r) = 8) /\ (r.do = "rm" => Left(r) = 4)
        BY <1>2, <1>3, <1>r DEF Counts
      <4> QED
        BY <2>6, <4>1
    <3>10. \A q \in Processes :
             /\ pr'[q].do = "create" /\ Running(q)' /\ Left(pr'[q]) <= 5 =>
                   pr[q].do = "create" /\ Running(q) /\ Left(pr[q]) <= 5 /\ pr'[q].arg = pr[q].arg
             /\ pr'[q].do = "rm" /\ Running(q)' /\ Left(pr'[q]) <= 4 =>
                   pr[q].do = "rm" /\ Running(q) /\ Left(pr[q]) <= 4 /\ pr'[q].arg = pr[q].arg
      BY <1>2, <1>r, <2>2, <2>7, <3>9 DEF Running
    <3>11. \A q, s \in Processes : Changes(q)' /\ Changes(s)' /\ pr'[q].arg = pr'[s].arg => q = s
      BY <1>1, <3>1, <3>8 DEF OneAtATime
    <3>12. \A q, s \in Processes : pr'[q].defs # None /\ pr'[s].defs # None => q = s
      BY <2>7, <3>2
    <3>13. \A q \in Processes : At(q, "truncate")' =>
              compose' # Torn
              /\ pr'[q].defs = [compose' EXCEPT ![pr'[q].arg] = pr'[q].do = "create"]
      <4> SUFFICES ASSUME NEW q \in Processes, At(q, "truncate")'
                   PROVE  compose' # Torn
                          /\ pr'[q].defs = [compose' EXCEPT ![pr'[q].arg] = pr'[q].do = "create"]
        OBVIOUS
      <4>1. q = p
        BY <2>7, <3>3 DEF At, Running
      <4> QED
        BY <1>2, <1>5, <2>2, <2>7, <2>d, <4>1
    <3>14. \A e \in Included(file)' : Effective(e)'
      BY <1>1, <3>1, <3>6, <3>7 DEF OneAtATime
    <3>15. \A q \in Processes :
             pr'[q].do = "create" /\ Running(q)' /\ Left(pr'[q]) <= 5 => Effective(pr[q].arg)'
      <4> SUFFICES ASSUME NEW q \in Processes,
                          pr'[q].do = "create", Running(q)', Left(pr'[q]) <= 5
                   PROVE  Effective(pr[q].arg)'
        OBVIOUS
      <4>1. PICK a : a = pr[q].arg
        OBVIOUS
      <4>2. Effective(a)' /\ pr'[q].arg = a
        BY <1>1, <3>1, <3>6, <3>10, <4>1 DEF OneAtATime
      <4> QED
        BY <4>2
    <3>16. \A q \in Processes : pr'[q].do = "rm" /\ Running(q)' /\ Left(pr'[q]) <= 4 =>
              pr'[q].arg \notin Included(file)'
      BY <1>1, <3>1, <3>7, <3>10 DEF OneAtATime
    <3> QED
      BY <1>2, <1>5, <3>5, <3>11, <3>12, <3>13, <3>14, <3>15, <3>16 DEF OneAtATime
  <2>9. Data'
    BY <1>1, <1>2 DEF Data
  <2> QED
    BY <2>6, <2>8, <2>9 DEF IInv
<1>6. CASE compose = Torn /\ End(p) /\ UNCHANGED mishaps
  BY <1>2, <1>4, <1>6, Ended
<1> QED
  BY <1>5, <1>6 DEF ComposeRead

\* So does truncating it: what was there is about to be written.
LEMMA ComposeTruncated ==
  ASSUME IInv, NEW p \in Processes, At(p, "truncate"), Go(p),
         compose' \in {[d \in Dinds |-> FALSE], Torn},
         UNCHANGED <<file, images, hostKey, keys, conUp, mishaps>>
  PROVE  IInv'
<1>1. Tracks /\ Data /\ OneAtATime
  BY DEF IInv
<1>2. /\ Running(p) /\ Head(pr[p].todo) = "truncate" /\ At(p, "truncate")
      /\ UNCHANGED <<file, images, hostKey, keys, conUp, mishaps>>
      /\ compose' \in {[d \in Dinds |-> FALSE], Torn}
  BY DEF At
<1>r. PICK r : r = pr[p]
  OBVIOUS
<1>3. /\ Good(p, r) /\ Fits(p, r) /\ Belongs(r) /\ Counts(r.do, Head(r.todo), Left(r))
      /\ IsRecord(r) /\ Holds(r)
  BY <1>1, <1>2, <1>r, Here DEF Good
<1>x. PICK x : x = [r EXCEPT !.todo = Tail(r.todo)]
  OBVIOUS
<1>4. pr' = [pr EXCEPT ![p] = x]
  BY <1>r, <1>x DEF Go
<1>5. /\ x.todo = Tail(r.todo) /\ x.do = r.do /\ x.arg = r.arg /\ x.read = r.read
      /\ x.defs = r.defs /\ IsRecord(x)
  BY <1>3, <1>x DEF IsRecord
<1>6. r.defs \in [Dinds -> BOOLEAN] /\ r.defs # None
  BY <1>2, <1>3, <1>r DEF Holds, Comes, Running
<1>7. /\ Tracks' /\ Switching' /\ Staged' /\ Alone' /\ Keys'
      /\ r.do \in {"create", "rm"} /\ r.arg \in Dinds
      /\ Left(r) \in Nat /\ Left(x) = Left(r) - 1 /\ x.todo # <<>>
      /\ ~Comes(x, "truncate") /\ Comes(x, "rewrite")
  BY <1>2, <1>4, <1>5, <1>6, <1>r, ComposeBut
<1>8. pr'[p] = x /\ \A q \in Processes \ {p} : pr'[q] = pr[q]
  BY <1>1, <1>4, Updated
<1>9. Data'
  BY <1>1, <1>2 DEF Data
<1>10. OneAtATime'
  <2> SUFFICES ASSUME {"race", "crash", "cut", "torn"} \cap mishaps' = {}
               PROVE  OneAtATime'
    BY DEF OneAtATime
  <2>1. {"race", "crash", "cut", "torn"} \cap mishaps = {}
    BY <1>2
  <2>2. \A q \in Processes \ {p} : pr[q].defs = None
    BY <1>1, <1>6, <1>r, <2>1 DEF OneAtATime
  <2>3. \A q \in Processes \ {p} : ~At(q, "truncate") /\ ~Rewriting(q)
    BY <1>1, <2>2 DEF Tracks, Good, Holds, Comes, At, Running, Rewriting
  <2>4. ~Rewriting(p)
    BY <1>2 DEF Rewriting, At
  <2>5. /\ Rewriting(p)'
        /\ \A q \in Processes \ {p} : ~Rewriting(q)' /\ ~At(q, "truncate")'
    BY <1>7, <1>8, <2>3 DEF Rewriting, At, Running, Comes
  <2>6. /\ compose \in [Dinds -> BOOLEAN]
        /\ r.defs = [compose EXCEPT ![r.arg] = r.do = "create"]
    BY <1>1, <1>2, <1>r, <2>1 DEF OneAtATime, Data
  <2>7. \A d : Effective(d) => compose[d]
    BY <2>3, <2>4 DEF Effective
  <2>8. \A d : Effective(d)' <=> r.defs[d]
    BY <1>5, <1>8, <2>5 DEF Effective
  <2>9. Included(file)' = Included(file) /\ Included(file) \subseteq Dinds
    BY <1>2 DEF Included
  <2>10. /\ r.do = "create" => Left(r) = 7
         /\ r.do = "rm" => Left(r) = 3
    BY <1>2, <1>3, <1>r DEF Counts
  <2>11. r.do = "rm" => r.arg \notin Included(file)
    BY <1>1, <1>2, <1>r, <2>1, <2>10 DEF OneAtATime
  <2>12. \A d \in Included(file)' : Effective(d)'
    <3> SUFFICES ASSUME NEW d \in Included(file)
                 PROVE  r.defs[d]
      BY <2>8, <2>9
    <3>1. compose[d]
      BY <1>1, <2>1, <2>7 DEF OneAtATime
    <3>2. CASE d = r.arg
      BY <1>7, <2>6, <2>9, <2>11, <3>2
    <3>3. CASE d # r.arg
      BY <2>6, <2>9, <3>1, <3>3
    <3> QED
      BY <3>2, <3>3
  <2>13. \A q \in Processes : Changes(q)' => Changes(q) /\ pr'[q].arg = pr[q].arg
    BY <1>2, <1>5, <1>8, <1>r DEF Changes, Running
  <2>14. \A q, s \in Processes : Changes(q)' /\ Changes(s)' /\ pr'[q].arg = pr'[s].arg => q = s
    BY <1>1, <2>1, <2>13 DEF OneAtATime
  <2>15. \A q, s \in Processes : pr'[q].defs # None /\ pr'[s].defs # None => q = s
    BY <1>8, <2>2
  <2>16. ASSUME NEW q \in Processes, pr'[q].do = "create", Running(q)', Left(pr'[q]) <= 5
         PROVE  Effective(pr[q].arg)'
    <3>1. q # p
      <4>1. r.do = "create" => Left(x) = 6
        BY <1>7, <2>10
      <4> QED
        BY <1>5, <1>8, <2>16, <4>1
    <3>2. PICK a : a = pr[q].arg
      OBVIOUS
    <3>3. pr'[q] = pr[q] /\ Running(q) /\ Effective(a) /\ pr'[q].arg = a
      BY <1>1, <1>8, <2>1, <2>16, <3>1, <3>2 DEF OneAtATime, Running
    <3>4. a # r.arg /\ a \in Dinds
      <4>1. Changes(p) /\ Changes(q)
        BY <1>2, <1>7, <1>r, <2>16, <3>3 DEF Changes
      <4>2. a # r.arg
        BY <1>1, <1>r, <2>1, <3>1, <3>2, <4>1 DEF OneAtATime
      <4>3. a \in Dinds
        BY <1>1, <2>16, <3>2, <3>3, Here DEF Fits
      <4> QED
        BY <4>2, <4>3
    <3>5. r.defs[a]
      BY <2>6, <2>7, <3>3, <3>4
    <3> QED
      BY <2>8, <3>3, <3>5
  <2>17. \A q \in Processes : pr'[q].do = "create" /\ Rewriting(q)' => pr'[q].defs[pr'[q].arg]
    <3> SUFFICES ASSUME NEW q \in Processes, pr'[q].do = "create", Rewriting(q)'
                 PROVE  pr'[q].defs[pr'[q].arg]
      OBVIOUS
    <3>1. q = p
      BY <2>5
    <3>2. pr'[q].arg = r.arg /\ pr'[q].defs = r.defs /\ r.do = "create"
      BY <1>5, <1>8, <3>1
    <3>3. r.arg \in Dinds /\ r.defs[r.arg] = (r.do = "create")
      BY <1>7, <2>6
    <3> QED
      BY <3>2, <3>3
  <2>18. \A q \in Processes : pr'[q].do = "rm" /\ Running(q)' /\ Left(pr'[q]) <= 4 =>
            pr'[q].arg \notin Included(file)'
    BY <1>1, <1>5, <1>8, <2>1, <2>9, <2>11 DEF OneAtATime, Running
  <2>19. \A q \in Processes : ~At(q, "truncate")'
    BY <1>7, <1>8, <2>5 DEF At, Running, Comes
  <2> QED
    BY <2>5, <2>12, <2>14, <2>15, <2>16, <2>17, <2>18, <2>19 DEF OneAtATime
<1> QED
  BY <1>7, <1>9, <1>10 DEF IInv

\* And so does writing it.
LEMMA ComposeRewritten ==
  ASSUME IInv, NEW p \in Processes, At(p, "rewrite"), compose' = pr[p].defs,
         pr' = [pr EXCEPT ![p].todo = Tail(@), ![p].defs = None],
         UNCHANGED <<file, images, hostKey, keys, conUp, mishaps>>
  PROVE  IInv'
<1>1. Tracks /\ Data /\ OneAtATime
  BY DEF IInv
<1>2. /\ Running(p) /\ Head(pr[p].todo) = "rewrite" /\ Rewriting(p)
      /\ UNCHANGED <<file, images, hostKey, keys, conUp, mishaps>> /\ compose' = pr[p].defs
  BY DEF At, Rewriting
<1>r. PICK r : r = pr[p]
  OBVIOUS
<1>3. /\ Good(p, r) /\ Fits(p, r) /\ Belongs(r) /\ Counts(r.do, Head(r.todo), Left(r))
      /\ IsRecord(r) /\ Holds(r)
  BY <1>1, <1>2, <1>r, Here DEF Good
<1>x. PICK x : x = [r EXCEPT !.todo = Tail(r.todo), !.defs = None]
  OBVIOUS
<1>4. pr' = [pr EXCEPT ![p] = x]
  BY <1>r, <1>x
<1>5. /\ x.todo = Tail(r.todo) /\ x.do = r.do /\ x.arg = r.arg /\ x.read = r.read
      /\ x.defs = None /\ IsRecord(x)
  BY <1>3, <1>x DEF IsRecord
<1>6. r.defs \in [Dinds -> BOOLEAN] /\ r.defs # None
  BY <1>2, <1>3, <1>r DEF Holds, Comes, Running
<1>7. /\ Tracks' /\ Switching' /\ Staged' /\ Alone' /\ Keys'
      /\ r.do \in {"create", "rm"} /\ r.arg \in Dinds
      /\ Left(r) \in Nat /\ Left(x) = Left(r) - 1 /\ x.todo # <<>>
      /\ ~Comes(x, "truncate") /\ ~Comes(x, "rewrite")
  BY <1>2, <1>4, <1>5, <1>6, <1>r, ComposeBut
<1>8. pr'[p] = x /\ \A q \in Processes \ {p} : pr'[q] = pr[q]
  BY <1>1, <1>4, Updated
<1>9. Data' /\ compose' = r.defs /\ compose' # Torn
  BY <1>1, <1>2, <1>6, <1>r, NameAssumption DEF Data
<1>10. OneAtATime'
  <2> SUFFICES ASSUME {"race", "crash", "cut", "torn"} \cap mishaps' = {}
               PROVE  OneAtATime'
    BY DEF OneAtATime
  <2>1. {"race", "crash", "cut", "torn"} \cap mishaps = {}
    BY <1>2
  <2>2. \A q \in Processes \ {p} : pr[q].defs = None
    BY <1>1, <1>6, <1>r, <2>1 DEF OneAtATime
  <2>3. \A q \in Processes \ {p} : ~At(q, "truncate") /\ ~Rewriting(q)
    BY <1>1, <2>2 DEF Tracks, Good, Holds, Comes, At, Running, Rewriting
  <2>4. \A q \in Processes : ~Rewriting(q)' /\ ~At(q, "truncate")'
    BY <1>7, <1>8, <2>3 DEF Rewriting, At, Running, Comes
  <2>5. \A d : Effective(d) => r.defs[d]
    BY <1>2, <1>r DEF Effective
  <2>6. \A d : Effective(d)' <=> r.defs[d]
    BY <1>9, <2>4 DEF Effective
  <2>7. Included(file)' = Included(file)
    BY <1>2 DEF Included
  <2>8. \A d \in Included(file)' : Effective(d)'
    BY <1>1, <2>1, <2>5, <2>6, <2>7 DEF OneAtATime
  <2>9. \A q \in Processes : Changes(q)' => Changes(q) /\ pr'[q].arg = pr[q].arg
    BY <1>2, <1>5, <1>8, <1>r DEF Changes, Running
  <2>10. \A q, s \in Processes : Changes(q)' /\ Changes(s)' /\ pr'[q].arg = pr'[s].arg => q = s
    BY <1>1, <2>1, <2>9 DEF OneAtATime
  <2>11. \A q, s \in Processes : pr'[q].defs # None /\ pr'[s].defs # None => q = s
    BY <1>5, <1>8, <2>2
  <2>12. r.do = "create" => r.defs[r.arg]
    BY <1>1, <1>2, <1>r, <2>1 DEF OneAtATime
  <2>13. r.do = "rm" => r.arg \notin Included(file)
    <3>1. r.do = "rm" => Left(r) = 2
      BY <1>2, <1>3, <1>r DEF Counts
    <3> QED
      BY <1>1, <1>2, <1>r, <2>1, <3>1 DEF OneAtATime
  <2>14. ASSUME NEW q \in Processes, pr'[q].do = "create", Running(q)', Left(pr'[q]) <= 5
         PROVE  Effective(pr[q].arg)'
    <3>1. PICK a : a = pr[q].arg
      OBVIOUS
    <3>2. CASE q = p
      BY <1>5, <1>8, <1>r, <2>6, <2>12, <2>14, <3>1, <3>2
    <3>3. CASE q # p
      <4>1. pr'[q] = pr[q] /\ Effective(a) /\ pr'[q].arg = a
        BY <1>1, <1>8, <2>1, <2>14, <3>1, <3>3 DEF OneAtATime, Running
      <4> QED
        BY <2>5, <2>6, <4>1
    <3> QED
      BY <3>2, <3>3
  <2>15. \A q \in Processes : pr'[q].do = "rm" /\ Running(q)' /\ Left(pr'[q]) <= 4 =>
            pr'[q].arg \notin Included(file)'
    <3> SUFFICES ASSUME NEW q \in Processes, pr'[q].do = "rm", Running(q)', Left(pr'[q]) <= 4
                 PROVE  pr'[q].arg \notin Included(file)
      BY <2>7
    <3>1. CASE q = p
      BY <1>5, <1>8, <2>13, <3>1
    <3>2. CASE q # p
      <4>1. pr'[q] = pr[q] /\ Running(q)
        BY <1>8, <3>2 DEF Running
      <4> QED
        BY <1>1, <2>1, <4>1 DEF OneAtATime
    <3> QED
      BY <3>1, <3>2
  <2> QED
    BY <1>9, <2>4, <2>8, <2>10, <2>11, <2>14, <2>15 DEF OneAtATime
<1> QED
  BY <1>7, <1>9, <1>10 DEF IInv

\* An error in a step that is not console-init's.
LEMMA Failed ==
  ASSUME IInv, NEW p \in Processes, Running(p), Fail(p),
         Head(pr[p].todo) \in {"stage", "truncate", "script", "unscript", "stop-dind",
            "stop-docker", "load-special", "up-console", "start-docker", "up-docker", "launch"}
  PROVE  IInv'
<1>1. Tracks
  BY DEF IInv
<1>2. Fits(p, pr[p]) /\ Counts(pr[p].do, Head(pr[p].todo), Left(pr[p]))
  BY <1>1, Here
<1>3. p # "init"
  BY <1>2 DEF Fits, Counts
<1>4. /\ End(p) /\ "error" \in mishaps' /\ mishaps \subseteq mishaps'
      /\ UNCHANGED <<file, compose, images, hostKey, keys, conUp>>
  BY DEF Fail, Err, Note, store, boxes
<1> QED
  BY <1>3, <1>4, Ended

\* If the compose file cannot be opened it is as it was,
LEMMA ComposeTruncateInv ==
  ASSUME IInv, NEW p \in Processes, ComposeTruncate(p)
  PROVE  IInv'
<1>1. At(p, "truncate") /\ Running(p) /\ Head(pr[p].todo) = "truncate"
  BY DEF ComposeTruncate, At
<1>2. CASE Fail(p)
  BY <1>1, <1>2, Failed
<1>3. CASE ~Fail(p)
  <2>1. /\ Go(p) /\ compose' \in {[d \in Dinds |-> FALSE], Torn}
        /\ UNCHANGED <<file, images, hostKey, keys, conUp, mishaps>>
    BY <1>3 DEF ComposeTruncate, boxes
  <2> QED
    BY <1>1, <2>1, ComposeTruncated
<1> QED
  BY <1>2, <1>3

\* and if it cannot be written that is noted: it is lost.
LEMMA ComposeRewriteInv ==
  ASSUME IInv, NEW p \in Processes, ComposeRewrite(p)
  PROVE  IInv'
<1>1. At(p, "rewrite") /\ Running(p) /\ Head(pr[p].todo) = "rewrite"
  BY DEF ComposeRewrite, At
<1>2. CASE Err(p, "torn") /\ End(p) /\ UNCHANGED <<store, boxes, given>>
  <2>1. /\ Tracks /\ Data
        /\ UNCHANGED <<file, compose, images, hostKey, keys, conUp>>
        /\ mishaps \subseteq mishaps' /\ "torn" \in mishaps'
    BY <1>2 DEF IInv, Err, Note, store, boxes
  <2>2. Fits(p, pr[p]) /\ Belongs(pr[p])
    BY <1>1, <2>1, Here
  <2>3. p # "init" /\ p # "switch"
    BY <1>1, <2>2 DEF Fits, Belongs
  <2>x. PICK x : x = Idle
    OBVIOUS
  <2>4. pr' = [pr EXCEPT ![p] = x]
    BY <1>2, <2>x DEF End
  <2>5. Good(p, x) /\ x.todo = <<>> /\ x.read = None /\ \A disk, w : Ready(x, disk, w)
    BY <2>x, IdleGood
  <2>6. Ready(x, images', mishaps')
    BY <2>5
  <2>7. Tracks' /\ Switching' /\ Staged' /\ Alone' /\ Keys'
    BY <1>1, <2>1, <2>3, <2>4, <2>5, <2>6, ReplacedBut
  <2>8. OneAtATime' /\ Data'
    BY <2>1 DEF OneAtATime, Data
  <2> QED
    BY <2>7, <2>8 DEF IInv
<1>3. CASE /\ compose' = pr[p].defs
           /\ pr' = [pr EXCEPT ![p].todo = Tail(@), ![p].defs = None]
           /\ UNCHANGED <<file, scripts, images, boxes, count, mishaps>>
  <2>1. UNCHANGED <<file, images, hostKey, keys, conUp, mishaps>>
    BY <1>3 DEF boxes
  <2> QED
    BY <1>1, <1>3, <2>1, ComposeRewritten
<1> QED
  BY <1>2, <1>3 DEF ComposeRewrite

\* The steps that touch neither the configuration file, nor the compose file, nor
\* the console keep the invariant: pulling an image,
LEMMA StageInv ==
  ASSUME IInv, NEW p \in Processes, StageServices(p)
  PROVE  IInv'
<1>1. Running(p) /\ Head(pr[p].todo) = "stage"
  BY DEF StageServices, At
<1>2. CASE Fail(p)
  BY <1>1, <1>2, Failed
<1>3. CASE /\ images' = images \cup {pr[p].arg} /\ Go(p)
           /\ UNCHANGED <<file, compose, scripts, boxes, count, mishaps>>
  <2>1. UNCHANGED <<file, compose, hostKey, keys, conUp, mishaps>>
    BY <1>3 DEF boxes
  <2> QED
    BY <1>1, <1>3, <2>1, Passed DEF PassSteps
<1>4. CASE End(p) /\ UNCHANGED <<store, boxes, count, mishaps>>
  <2>1. UNCHANGED <<file, compose, images, hostKey, keys, conUp, mishaps>>
    BY <1>4 DEF store, boxes
  <2>2. Tracks
    BY DEF IInv
  <2>3. Fits(p, pr[p]) /\ Belongs(pr[p])
    BY <1>1, <2>2, Here
  <2>4. p # "init" /\ p # "switch"
    BY <1>1, <2>3 DEF Fits, Belongs
  <2> QED
    BY <1>1, <1>4, <2>1, <2>4, Ended
<1> QED
  BY <1>2, <1>3, <1>4 DEF StageServices

\* not pulling it, which is noted,
LEMMA NoPullInv ==
  ASSUME IInv, NEW p \in Processes, NoPull(p)
  PROVE  IInv'
<1>1. /\ Running(p) /\ Head(pr[p].todo) = "stage" /\ pr[p].do = "console-switch" /\ Go(p)
      /\ "no-pull" \in mishaps' /\ mishaps \subseteq mishaps'
      /\ UNCHANGED <<file, compose, images, hostKey, keys, conUp>>
  BY DEF NoPull, At, Note, store, boxes
<1> QED
  BY <1>1, Passed DEF PassSteps

\* preFlightValidate,
LEMMA ValidateInv ==
  ASSUME IInv, NEW p \in Processes, PreFlightValidate(p)
  PROVE  IInv'
<1>1. /\ Running(p) /\ Head(pr[p].todo) = "validate"
      /\ UNCHANGED <<file, compose, images, hostKey, keys, conUp, mishaps>>
  BY DEF PreFlightValidate, At, store, boxes
<1>2. Tracks
  BY DEF IInv
<1>3. Fits(p, pr[p]) /\ Belongs(pr[p])
  BY <1>1, <1>2, Here
<1>4. p # "init" /\ p # "switch"
  BY <1>1, <1>3 DEF Fits, Belongs
<1>5. CASE Go(p)
  BY <1>1, <1>5, Passed DEF PassSteps
<1>6. CASE End(p)
  BY <1>1, <1>4, <1>6, Ended
<1> QED
  BY <1>5, <1>6 DEF PreFlightValidate

\* looking up whether the engine was included,
LEMMA CheckInv ==
  ASSUME IInv, NEW p \in Processes, CheckIncluded(p)
  PROVE  IInv'
<1>1. /\ Running(p) /\ Head(pr[p].todo) = "check"
      /\ UNCHANGED <<file, compose, images, hostKey, keys, conUp, mishaps>>
  BY DEF CheckIncluded, At, store, boxes
<1>2. Tracks
  BY DEF IInv
<1>3. Fits(p, pr[p]) /\ Belongs(pr[p])
  BY <1>1, <1>2, Here
<1>4. p # "init" /\ p # "switch"
  BY <1>1, <1>3 DEF Fits, Belongs
<1>5. CASE Go(p)
  BY <1>1, <1>5, Passed DEF PassSteps
<1>6. CASE End(p)
  BY <1>1, <1>4, <1>6, Ended
<1> QED
  BY <1>5, <1>6 DEF CheckIncluded

\* writing and removing an engine's script,
LEMMA ScriptInv ==
  ASSUME IInv, NEW p \in Processes, Script(p)
  PROVE  IInv'
<1>1. Running(p) /\ Head(pr[p].todo) \in {"script", "unscript"}
  BY DEF Script, At
<1>2. Tracks
  BY DEF IInv
<1>3. Fits(p, pr[p]) /\ Belongs(pr[p])
  BY <1>1, <1>2, Here
<1>4. p # "init" /\ p # "switch"
  BY <1>1, <1>3 DEF Fits, Belongs
<1>5. CASE Fail(p)
  BY <1>1, <1>5, Failed
<1>6. CASE ~Fail(p)
  <2>1. End(p) /\ UNCHANGED <<file, compose, images, hostKey, keys, conUp, mishaps>>
    BY <1>6 DEF Script, boxes
  <2> QED
    BY <1>1, <1>4, <2>1, Ended
<1> QED
  BY <1>5, <1>6

\* stopping an engine,
LEMMA StopDindInv ==
  ASSUME IInv, NEW p \in Processes, StopDind(p)
  PROVE  IInv'
<1>1. Running(p) /\ Head(pr[p].todo) = "stop-dind"
  BY DEF StopDind, At
<1>2. CASE Fail(p)
  BY <1>1, <1>2, Failed
<1>3. CASE ~Fail(p)
  <2>1. Go(p) /\ UNCHANGED <<file, compose, images, hostKey, keys, conUp, mishaps>>
    BY <1>3 DEF StopDind, store
  <2> QED
    BY <1>1, <2>1, Passed DEF PassSteps
<1> QED
  BY <1>2, <1>3

\* stopping docker,
LEMMA StopDockerInv ==
  ASSUME IInv, NEW p \in Processes, StopDocker(p)
  PROVE  IInv'
<1>1. Running(p) /\ Head(pr[p].todo) = "stop-docker"
  BY DEF StopDocker, At
<1>2. CASE Fail(p)
  BY <1>1, <1>2, Failed
<1>3. CASE ~Fail(p)
  <2>1. /\ Go(p) /\ UNCHANGED <<file, compose, images, hostKey, keys, conUp>>
        /\ mishaps \subseteq mishaps'
    BY <1>3 DEF StopDocker, Err, Note, store, boxes
  <2> QED
    BY <1>1, <2>1, Passed DEF PassSteps
<1> QED
  BY <1>2, <1>3

\* looking for a console or an engine in the repositories,
LEMMA LoadSpecialInv ==
  ASSUME IInv, NEW p \in Processes, LoadSpecialService(p)
  PROVE  IInv'
<1>1. Running(p) /\ Head(pr[p].todo) = "load-special"
  BY DEF LoadSpecialService, At
<1>2. CASE Fail(p)
  BY <1>1, <1>2, Failed
<1>3. CASE ~Fail(p)
  <2>1. Go(p) /\ UNCHANGED <<file, compose, images, hostKey, keys, conUp, mishaps>>
    BY <1>3 DEF LoadSpecialService, store, boxes
  <2> QED
    BY <1>1, <2>1, Passed DEF PassSteps
<1> QED
  BY <1>2, <1>3

\* starting docker as it is,
LEMMA StartDockerInv ==
  ASSUME IInv, NEW p \in Processes, StartDocker(p)
  PROVE  IInv'
<1>1. Running(p) /\ Head(pr[p].todo) = "start-docker"
  BY DEF StartDocker, At
<1>2. Tracks
  BY DEF IInv
<1>3. Fits(p, pr[p]) /\ Belongs(pr[p])
  BY <1>1, <1>2, Here
<1>4. p # "init"
  BY <1>1, <1>3 DEF Fits, Belongs
<1>5. CASE Fail(p)
  BY <1>1, <1>5, Failed
<1>6. CASE ~Fail(p)
  <2>1. End(p) /\ UNCHANGED <<file, compose, images, hostKey, keys, conUp, mishaps>>
    BY <1>6 DEF StartDocker, store
  <2> QED
    BY <1>1, <1>4, <2>1, Ended
<1> QED
  BY <1>5, <1>6

\* and creating it with another engine.
LEMMA UpDockerInv ==
  ASSUME IInv, NEW p \in Processes, UpDocker(p)
  PROVE  IInv'
<1>1. Running(p) /\ Head(pr[p].todo) = "up-docker"
  BY DEF UpDocker, At
<1>2. CASE Fail(p)
  BY <1>1, <1>2, Failed
<1>3. CASE ~Fail(p)
  <2>1. /\ Go(p) /\ images' = images \cup {pr[p].arg}
        /\ UNCHANGED <<file, compose, hostKey, keys, conUp, mishaps>>
    BY <1>3 DEF UpDocker
  <2> QED
    BY <1>1, <2>1, Passed DEF PassSteps
<1> QED
  BY <1>2, <1>3

\* So do the last steps of console-init: the engines' scripts,
LEMMA EngineScriptsInv ==
  ASSUME IInv, NEW p \in Processes, EngineScripts(p)
  PROVE  IInv'
<1>1. /\ Running(p) /\ Head(pr[p].todo) = "scripts" /\ Go(p)
      /\ UNCHANGED <<file, compose, images, hostKey, keys, conUp, mishaps>>
  BY DEF EngineScripts, At, boxes
<1> QED
  BY <1>1, Passed DEF PassSteps

\* telling that the console is ready,
LEMMA ConsoleDoneInv ==
  ASSUME IInv, NEW p \in Processes, ConsoleDone(p)
  PROVE  IInv'
<1>1. /\ Running(p) /\ Head(pr[p].todo) = "done" /\ Go(p)
      /\ UNCHANGED <<file, compose, images, hostKey, keys, conUp, mishaps>>
  BY DEF ConsoleDone, At, store
<1> QED
  BY <1>1, Passed DEF PassSteps

\* and waiting for the first engine to be there.
LEMMA FirstRunEndsInv ==
  ASSUME IInv, NEW p \in Processes, FirstRunEnds(p)
  PROVE  IInv'
<1>1. /\ Running(p) /\ Head(pr[p].todo) = "wait" /\ End(p)
      /\ UNCHANGED <<file, compose, images, hostKey, keys, conUp, mishaps>>
  BY DEF FirstRunEnds, At, store, boxes
<1>2. Tracks
  BY DEF IInv
<1>3. Fits(p, pr[p]) /\ Belongs(pr[p])
  BY <1>1, <1>2, Here
<1>4. p # "switch"
  BY <1>1, <1>3 DEF Fits, Belongs
<1> QED
  BY <1>1, <1>4, Ended

\* Only the switch-console container stops and starts the console, and then
\* console-init does not run.
LEMMA OnlySwitch ==
  ASSUME Tracks, Alone, NEW p \in Processes, Running(p),
         Head(pr[p].todo) \in {"stop-console", "up-console"}
  PROVE  /\ p = "switch" /\ pr[p].do = "switch" /\ ~Running("init") /\ ~Saving
         /\ Head(pr[p].todo) = "stop-console" => Left(pr[p]) \in {5, 6}
         /\ Head(pr[p].todo) = "up-console" => Left(pr[p]) = 2
<1>1. Fits(p, pr[p]) /\ Belongs(pr[p]) /\ Counts(pr[p].do, Head(pr[p].todo), Left(pr[p]))
  BY Here
<1>2. pr[p].do = "switch"
  BY <1>1 DEF Belongs
<1>3. p = "switch"
  BY <1>1, <1>2 DEF Fits, Processes, ShellDo
<1>4. /\ Head(pr[p].todo) = "stop-console" => Left(pr[p]) \in {5, 6}
      /\ Head(pr[p].todo) = "up-console" => Left(pr[p]) = 2
  BY <1>1, <1>2 DEF Counts
<1>5. ~Running("init")
  BY <1>3, <1>4 DEF Alone
<1> QED
  BY <1>2, <1>3, <1>4, <1>5 DEF Saving

\* Stopping the console keeps the invariant: the switch goes on.
LEMMA StopConsoleInv ==
  ASSUME IInv, NEW p \in Processes, StopConsole(p)
  PROVE  IInv'
<1>1. Tracks /\ Data /\ Switching /\ Staged /\ Alone /\ Keys /\ OneAtATime
  BY DEF IInv
<1>2. Running(p) /\ pr[p].todo # <<>> /\ Head(pr[p].todo) = "stop-console"
  BY DEF StopConsole, At, Running
<1>3. p = "switch" /\ pr[p].do = "switch" /\ ~Running("init") /\ ~Saving /\ Left(pr[p]) \in {5, 6}
  BY <1>1, <1>2, OnlySwitch
<1>4. CASE /\ conUp' = FALSE
           /\ pr' = [q \in Processes |->
                       IF q \in InConsole THEN Idle
                       ELSE IF q = p THEN [pr[q] EXCEPT !.todo = Tail(@)] ELSE pr[q]]
           /\ IF \E q \in InConsole : Running(q) THEN Note("cut") ELSE UNCHANGED mishaps
           /\ UNCHANGED <<store, con, hostKey, keys, done, dock, engineId, dinds, count>>
  <2>1. UNCHANGED <<file, compose, images, hostKey, keys>> /\ mishaps \subseteq mishaps'
    BY <1>4 DEF store, Note
  <2>x. PICK x : x = [pr[p] EXCEPT !.todo = Tail(pr[p].todo)]
    OBVIOUS
  <2>2. pr' = [q \in Processes |-> IF q = "switch" THEN x ELSE Idle]
    BY <1>3, <1>4, <2>x DEF InConsole
  <2>3. pr'["switch"] = x /\ \A q \in Processes \ {"switch"} : pr'[q] = Idle
    BY <2>2 DEF Processes
  <2>4. Good(p, pr[p]) /\ Good(p, x) /\ x.read = None /\ Same(pr[p], x)
    BY <1>1, <1>2, <2>x, Here, PassGood DEF PassSteps
  <2>5. x.todo = Tail(pr[p].todo) /\ x.do = pr[p].do /\ x.arg = pr[p].arg
    BY <2>4, <2>x DEF Good, IsRecord
  <2>6. x.todo # <<>> /\ Left(x) >= 2
    <3>1. Left(x) = Left(pr[p]) - 1 /\ (x.todo = <<>> <=> Left(pr[p]) = 1)
      BY <1>2, <2>4, <2>5, Stepping
    <3> QED
      BY <1>3, <3>1
  <2>7. \A q \in Processes : Good(q, Idle) /\ Idle.todo = <<>> /\ Idle.read = None
    BY IdleGood
  <2>8. Tracks'
    BY <1>3, <2>2, <2>3, <2>4, <2>7 DEF Tracks
  <2>9. Switching'
    BY <2>3, <2>6 DEF Switching, Running
  <2>10. ASSUME NEW q \in Processes
         PROVE  Ready(pr'[q], images', mishaps')
    <3>1. Ready(pr[p], images, mishaps)
      BY <1>1 DEF Staged
    <3>2. Ready(x, images, mishaps)
      BY <1>2, <2>4, <2>x, <3>1, PassReady DEF PassSteps
    <3>3. Ready(x, images', mishaps')
      BY <2>1, <3>2, ReadyStays
    <3> QED
      BY <2>3, <3>3, IdleGood
  <2>11. Staged'
    BY <1>1, <2>1, <2>10, StagedKeeps
  <2>12. pr'["init"] = Idle /\ ~Running("init")'
    BY <2>3, <2>7 DEF Processes, Running
  <2>13. Alone'
    BY <2>12 DEF Alone
  <2>14. \A q \in Processes : pr'[q].read \in {None, file, pr[q].read}
    BY <2>3, <2>4, <2>7
  <2>15. Keys'
    <3>1. PICK y : y = Idle
      OBVIOUS
    <3>2. y.todo = <<>> /\ ~Comes(y, "ssh") /\ pr'["init"] = y
      BY <2>7, <2>12, <3>1 DEF Comes, Processes
    <3> QED
      BY <1>1, <1>3, <2>1, <2>14, <3>2, KeysOutside
  <2>16. OneAtATime'
    <3>1. CASE \E q \in InConsole : Running(q)
      <4>1. "cut" \in mishaps'
        BY <1>4, <3>1 DEF Note
      <4> QED
        BY <4>1 DEF OneAtATime
    <3>2. CASE \A q \in InConsole : ~Running(q)
      <4>1. \A q \in Processes \ {"switch"} : ~Comes(pr[q], "rewrite")
        BY <3>2 DEF InConsole, Running, Comes
      <4>2. \A q \in Processes \ {"switch"} : Out(pr[q], pr'[q])
        BY <2>3, <4>1, IdleGood
      <4>3. \A q \in Processes : Out(pr[q], pr'[q]) \/ Same(pr[q], pr'[q])
        BY <1>3, <2>3, <2>4, <4>2
      <4> QED
        BY <1>1, <2>1, <4>3, QuietKeeps
    <3> QED
      BY <3>1, <3>2
  <2>17. Data'
    BY <1>1, <2>1 DEF Data
  <2> QED
    BY <2>8, <2>9, <2>11, <2>13, <2>15, <2>16, <2>17 DEF IInv
<1>5. CASE Err(p, "not-stopped") /\ Go(p) /\ UNCHANGED <<store, boxes, given>>
  <2>1. UNCHANGED <<file, compose, images, hostKey, keys, conUp>> /\ mishaps \subseteq mishaps'
    BY <1>5 DEF store, boxes, Err, Note
  <2> QED
    BY <1>2, <1>5, <2>1, Passed DEF PassSteps
<1> QED
  BY <1>4, <1>5 DEF StopConsole

\* Starting a console keeps the invariant: its console-init has not begun to save a
\* key, and the switch has only docker left to start.
LEMMA UpConsoleInv ==
  ASSUME IInv, NEW p \in Processes, UpConsole(p)
  PROVE  IInv'
<1>1. Tracks /\ Data /\ Switching /\ Staged /\ Alone /\ Keys /\ OneAtATime
  BY DEF IInv
<1>2. Running(p) /\ pr[p].todo # <<>> /\ Head(pr[p].todo) = "up-console"
  BY DEF UpConsole, At, Running
<1>3. p = "switch" /\ pr[p].do = "switch" /\ ~Running("init") /\ ~Saving /\ Left(pr[p]) = 2
  BY <1>1, <1>2, OnlySwitch
<1>4. CASE Fail(p)
  BY <1>2, <1>4, Failed
<1>5. ASSUME ~Fail(p)
      PROVE  UNCHANGED <<file, compose, keys>> /\ images \subseteq images'
  BY <1>5 DEF UpConsole
<1>6. CASE ~Fail(p) /\ conUp /\ con = pr[p].arg
  <2>1. Go(p) /\ UNCHANGED <<conUp, hostKey, mishaps>>
    BY <1>6 DEF UpConsole
  <2> QED
    BY <1>2, <1>5, <1>6, <2>1, Passed DEF PassSteps
<1>7. CASE ~Fail(p) /\ ~(conUp /\ con = pr[p].arg)
  <2>1. /\ StartConsole(pr[p].arg)
        /\ pr' = [q \in Processes |->
                    IF q = "init" THEN Process("init", None)
                    ELSE IF q \in InConsole THEN Idle
                    ELSE [pr[q] EXCEPT !.todo = Tail(@)]]
        /\ IF \E q \in InConsole : Running(q) THEN Note("cut") ELSE UNCHANGED mishaps
    BY <1>7 DEF UpConsole
  <2>2. conUp' = TRUE /\ hostKey' \in Nat /\ mishaps \subseteq mishaps'
    BY <1>1, <2>1 DEF StartConsole, Note, Data
  <2>x. PICK x : x = [pr[p] EXCEPT !.todo = Tail(pr[p].todo)]
    OBVIOUS
  <2>y. PICK y : y = Process("init", None)
    OBVIOUS
  <2>3. pr' = [q \in Processes |-> IF q = "init" THEN y ELSE IF q = "switch" THEN x ELSE Idle]
    BY <1>3, <2>1, <2>x, <2>y DEF InConsole
  <2>4. /\ pr'["switch"] = x /\ pr'["init"] = y
        /\ \A q \in Processes \ {"switch", "init"} : pr'[q] = Idle
    BY <2>3 DEF Processes
  <2>5. Good(p, pr[p]) /\ Good(p, x) /\ x.read = None /\ Same(pr[p], x)
    BY <1>1, <1>2, <2>x, Here, PassGood DEF PassSteps
  <2>6. x.todo = Tail(pr[p].todo) /\ x.do = pr[p].do /\ x.arg = pr[p].arg
    BY <2>5, <2>x DEF Good, IsRecord
  <2>7. Left(x) = 1
    BY <1>2, <1>3, <2>5, <2>6, Stepping
  <2>8. "init" \in Processes /\ y.do = "init"
    BY <2>y DEF Processes, Process, Idle
  <2>9. Fits("init", y)
    BY <2>8, NameAssumption DEF Fits
  <2>10. /\ Good("init", y) /\ y.read = None /\ y.defs = None
         /\ Left(y) = 9 /\ Head(y.todo) = "load"
    BY <2>8, <2>9, <2>y, Started
  <2>11. \A q \in Processes : Good(q, Idle) /\ Idle.todo = <<>> /\ Idle.read = None
    BY IdleGood
  <2>12. Tracks'
    BY <1>3, <2>3, <2>4, <2>5, <2>10, <2>11 DEF Tracks
  <2>13. Switching'
    BY <2>2 DEF Switching
  <2>14. ~Comes(y, "ssh") /\ ~Comes(y, "truncate") /\ ~Comes(y, "rewrite")
    BY <2>10 DEF Comes
  <2>15. ASSUME NEW q \in Processes
         PROVE  Ready(pr'[q], images', mishaps')
    <3>1. Ready(pr[p], images, mishaps)
      BY <1>1 DEF Staged
    <3>2. Ready(pr[p], images', mishaps')
      BY <1>5, <1>7, <2>2, <3>1, ReadyStays
    <3>3. Ready(x, images', mishaps')
      BY <1>2, <2>5, <2>x, <3>2, PassReady DEF PassSteps
    <3>4. Ready(y, images', mishaps')
      BY <2>8, <2>10 DEF Ready
    <3> QED
      BY <2>4, <3>3, <3>4, IdleGood
  <2>16. Staged'
    BY <1>1, <1>5, <1>7, <2>2, <2>15, StagedKeeps
  <2>17. /\ Running("switch")' => Left(pr'["switch"]) = 1
         /\ \A q \in Shells : ~Running(q)'
         /\ ~Running("first")'
    BY <2>4, <2>7, <2>11, NameAssumption DEF Running, Processes
  <2>18. Alone'
    BY <2>17 DEF Alone
  <2>19. \A q \in Processes : pr'[q].read \in {None, file, pr[q].read}
    BY <2>4, <2>5, <2>10, <2>11
  <2>20. Keys'
    BY <1>1, <1>3, <1>5, <1>7, <2>2, <2>4, <2>10, <2>14, <2>19, KeysOutside
  <2>21. OneAtATime'
    <3>1. CASE \E q \in InConsole : Running(q)
      <4>1. "cut" \in mishaps'
        BY <2>1, <3>1 DEF Note
      <4> QED
        BY <4>1 DEF OneAtATime
    <3>2. CASE \A q \in InConsole : ~Running(q)
      <4>1. \A q \in Processes \ {"switch"} : ~Comes(pr[q], "rewrite")
        BY <3>2 DEF InConsole, Running, Comes
      <4>2. \A q \in Processes \ {"switch", "init"} : Out(pr[q], pr'[q])
        BY <2>4, <4>1, IdleGood
      <4>3. Out(pr["init"], pr'["init"])
        BY <2>4, <2>8, <2>10, <2>14, <4>1 DEF Out
      <4>4. \A q \in Processes : Out(pr[q], pr'[q]) \/ Same(pr[q], pr'[q])
        BY <1>3, <2>4, <2>5, <4>2, <4>3
      <4> QED
        BY <1>1, <1>5, <1>7, <2>2, <4>4, QuietKeeps
    <3> QED
      BY <3>1, <3>2
  <2>22. Data'
    BY <1>1, <1>5, <1>7, <2>2 DEF Data
  <2> QED
    BY <2>12, <2>13, <2>16, <2>18, <2>20, <2>21, <2>22 DEF IInv
<1> QED
  BY <1>4, <1>6, <1>7

\* Launching the switch-console container keeps the invariant: its console has been
\* staged, and the shells are there only while console-init is not.
LEMMA LaunchInv ==
  ASSUME IInv, NEW p \in Processes, Launch(p)
  PROVE  IInv'
<1>1. Tracks /\ Data /\ Switching /\ Staged /\ Alone /\ Keys /\ OneAtATime
  BY DEF IInv
<1>2. Running(p) /\ Head(pr[p].todo) = "launch"
  BY DEF Launch, At
<1>3. Fits(p, pr[p]) /\ Belongs(pr[p])
  BY <1>1, <1>2, Here
<1>4. pr[p].do = "console-switch" /\ pr[p].arg \in Consoles
  BY <1>2, <1>3 DEF Belongs, Fits
<1>5. p \in Shells /\ p \notin {"switch", "init", "first"}
  BY <1>3, <1>4 DEF Fits, Processes
<1>6. ~Running("init")
  BY <1>1, <1>2, <1>5 DEF Alone
<1>7. CASE Fail(p)
  BY <1>2, <1>7, Failed
<1>8. CASE ~Fail(p)
  <2>1. /\ pr' = [pr EXCEPT ![p] = Idle,
                  !["switch"] = IF Running("switch") /\ @.arg = pr[p].arg THEN @
                                ELSE Process("switch", pr[p].arg)]
        /\ UNCHANGED <<file, compose, images, hostKey, keys, conUp, mishaps>>
    BY <1>8 DEF Launch, store, boxes
  <2>y. PICK y : y = IF Running("switch") /\ pr["switch"].arg = pr[p].arg THEN pr["switch"]
                     ELSE Process("switch", pr[p].arg)
    OBVIOUS
  <2>2. pr' = [pr EXCEPT ![p] = Idle, !["switch"] = y]
    BY <1>5, <2>1, <2>y
  <2>3. /\ pr' = [q \in Processes |-> pr'[q]] /\ pr'[p] = Idle /\ pr'["switch"] = y
        /\ \A q \in Processes \ {p, "switch"} : pr'[q] = pr[q]
    BY <1>1, <1>5, <2>2 DEF Tracks, Processes
  <2>4. "switch" \in Processes
    BY DEF Processes
  <2>5. CASE Running("switch") /\ pr["switch"].arg = pr[p].arg
    <3>1. y = pr["switch"]
      BY <2>5, <2>y
    <3>2. pr' = [pr EXCEPT ![p] = Idle]
      BY <1>1, <2>2, <2>4, <3>1, <1>5 DEF Tracks
    <3>3. End(p)
      BY <3>2 DEF End
    <3> QED
      BY <1>2, <1>5, <2>1, <3>3, Ended
  <2>6. CASE ~(Running("switch") /\ pr["switch"].arg = pr[p].arg)
    <3>1. y = Process("switch", pr[p].arg)
      BY <2>6, <2>y
    <3>2. y.do = "switch" /\ y.arg = pr[p].arg
      BY <3>1 DEF Process, Idle
    <3>3. Fits("switch", y)
      BY <1>4, <3>2, NameAssumption DEF Fits
    <3>4. /\ Good("switch", y) /\ y.todo # <<>> /\ y.read = None /\ y.defs = None
          /\ Left(y) >= 7 /\ Head(y.todo) \in {"load", "set", "validate"}
      BY <2>4, <3>1, <3>3, Started
    <3>5. \A q \in Processes : Good(q, Idle) /\ Idle.todo = <<>> /\ Idle.read = None
      BY IdleGood
    <3>6. Tracks'
      BY <1>1, <2>3, <3>4, <3>5 DEF Tracks
    <3>7. Switching'
      <4>1. Left(y) \in {7, 8}
        BY <3>1 DEF Left, Process, Idle, Steps, SwitchConsole
      <4>2. Left(y) >= 2
        BY <4>1
      <4> QED
        BY <2>3, <3>4, <4>2 DEF Switching, Running
    <3>8. ASSUME NEW q \in Processes
          PROVE  Ready(pr'[q], images', mishaps')
      <4>1. \A s \in Processes : Ready(pr[s], images', mishaps')
        BY <1>1, <2>1 DEF Staged
      <4>2. "no-pull" \notin mishaps' => pr[p].arg \in images' \cup {Default}
        BY <1>2, <1>4, <4>1 DEF Ready, Comes, Running
      <4>3. Ready(y, images', mishaps')
        BY <3>2, <3>4, <4>2 DEF Ready
      <4> QED
        BY <2>1, <2>3, <4>1, <4>3, IdleGood
    <3>9. Staged'
      BY <1>1, <2>1, <3>8, StagedKeeps
    <3>10. pr'["init"] = pr["init"]
      BY <1>5, <2>3 DEF Processes
    <3>11. Alone'
      BY <1>6, <3>10 DEF Alone, Running
    <3>12. \A q \in Processes : pr'[q].read \in {None, file, pr[q].read}
      BY <2>3, <3>4, <3>5
    <3>13. Keys'
      BY <1>1, <2>1, <3>10, <3>12, KeysKeeps
    <3>14. Out(pr[p], pr'[p])
      <4>1. ~Comes(pr[p], "rewrite")
        BY <1>2 DEF Comes
      <4> QED
        BY <2>3, <4>1, IdleGood
    <3>15. Out(pr["switch"], y)
      <4>1. ASSUME Comes(pr["switch"], "rewrite")
            PROVE  FALSE
        <5>1. Running("switch") /\ Head(pr["switch"].todo) = "rewrite"
          BY <4>1 DEF Comes, Running
        <5>2. Belongs(pr["switch"]) /\ Fits("switch", pr["switch"])
          BY <1>1, <2>4, <5>1, Here
        <5> QED
          BY <5>1, <5>2 DEF Belongs, Fits
      <4> QED
        BY <3>2, <3>4, <4>1 DEF Out, Comes
    <3>16. \A q \in Processes \ {p, "switch"} : Same(pr[q], pr'[q])
      BY <2>3 DEF Same
    <3>17. \A q \in Processes : Out(pr[q], pr'[q]) \/ Same(pr[q], pr'[q])
      BY <2>3, <3>14, <3>15, <3>16
    <3>18. OneAtATime'
      BY <1>1, <2>1, <3>17, QuietKeeps
    <3>19. Data'
      BY <1>1, <2>1 DEF Data
    <3> QED
      BY <3>6, <3>7, <3>9, <3>11, <3>13, <3>18, <3>19 DEF IInv
  <2> QED
    BY <2>5, <2>6
<1> QED
  BY <1>7, <1>8

\* A console that has its key skips the steps that save one.
LEMMA KeySkipped ==
  ASSUME NEW t, t = <<"ssh", "set", "write", "set", "write", "scripts", "done", "first-run">>
  PROVE  SubSeq(t, 6, Len(t)) = <<"scripts", "done", "first-run">>
<1>1. Len(t) = 8
  OBVIOUS
<1>2. SubSeq(t, 6, 8) = [i \in 1..3 |-> t[i + 5]]
  OBVIOUS
<1>3. PICK x : x = [i \in 1..3 |-> t[i + 5]]
  OBVIOUS
<1>4. x[1] = "scripts" /\ x[2] = "done" /\ x[3] = "first-run" /\ x = [i \in 1..3 |-> x[i]]
  BY <1>3
<1>5. x = <<"scripts", "done", "first-run">>
  BY <1>4
<1> QED
  BY <1>1, <1>2, <1>3, <1>5

\* console-init's steps are console-init's.
LEMMA OnlyInit ==
  ASSUME Tracks, NEW p \in Processes, Running(p), Head(pr[p].todo) \in {"ssh", "first-run"}
  PROVE  /\ p = "init" /\ pr[p].do = "init" /\ ~Saving
         /\ Head(pr[p].todo) = "ssh" => Left(pr[p]) = 8
         /\ Head(pr[p].todo) = "first-run" => Left(pr[p]) = 1
         /\ pr[p].read = None /\ pr[p].defs = None
         /\ pr[p].cfg \in Configs /\ pr[p].cfg.engine # None
<1>1. /\ Fits(p, pr[p]) /\ Belongs(pr[p]) /\ Counts(pr[p].do, Head(pr[p].todo), Left(pr[p]))
      /\ Holds(pr[p])
  BY Here DEF Good
<1>2. pr[p].do = "init"
  BY <1>1 DEF Belongs
<1>3. p = "init"
  BY <1>1, <1>2 DEF Fits, Processes, ShellDo
<1>4. /\ Head(pr[p].todo) = "ssh" => Left(pr[p]) = 8
      /\ Head(pr[p].todo) = "first-run" => Left(pr[p]) = 1
  BY <1>1, <1>2 DEF Counts
<1>5. Left(pr[p]) \in {1, 8}
  BY <1>4
<1>6. Left(pr[p]) \notin {4, 5, 6, 7}
  BY <1>5
<1> QED
  BY <1>1, <1>2, <1>3, <1>4, <1>6 DEF Saving, Holds, Comes, Running

\* Setting up SSH keeps the invariant: a new key is made only if none was before.
LEMMA SetupSSHInv ==
  ASSUME IInv, NEW p \in Processes, SetupSSH(p)
  PROVE  IInv'
<1>1. Tracks /\ Data /\ Switching /\ Staged /\ Alone /\ Keys /\ OneAtATime
  BY DEF IInv
<1>2. /\ Running(p) /\ At(p, "ssh") /\ Head(pr[p].todo) = "ssh"
      /\ UNCHANGED <<file, compose, images, conUp, mishaps>>
  BY DEF SetupSSH, At, store
<1>r. PICK r : r = pr[p]
  OBVIOUS
<1>3. /\ p = "init" /\ r.do = "init" /\ ~Saving /\ Left(r) = 8 /\ r.read = None /\ r.defs = None
      /\ r.cfg \in Configs /\ r.cfg.engine # None /\ r.todo # <<>> /\ Head(r.todo) = "ssh"
  BY <1>1, <1>2, <1>r, OnlyInit DEF Running
<1>4. Good(p, r) /\ IsRecord(r) /\ OnTrack(r) /\ Holds(r) /\ Fits(p, r)
  BY <1>1, <1>2, <1>r, Here DEF Good
<1>5. ~At("init", "wait")
  BY <1>2, <1>3 DEF At
<1>6. ASSUME NEW x, pr' = [pr EXCEPT ![p] = x], Good(p, x), x.todo # <<>>, x.do = "init",
             x.read = None, x.defs = None, Left(x) \in Nat, 1 <= Left(x), Left(x) < 8,
             ~Comes(x, "truncate"), ~Comes(x, "rewrite"), hostKey' \in Nat, keys' \in Nat, Keys'
      PROVE  IInv'
  <2>1. \A disk, w : Ready(x, disk, w)
    BY <1>6 DEF Ready
  <2>2. x.todo # <<>> => Left(x) \in Nat /\ Left(x) < Left(r) /\ Left(x) >= 1
    BY <1>3, <1>6
  <2>3. Tracks' /\ Switching' /\ Staged' /\ Alone' /\ Keys'
    BY <1>2, <1>3, <1>5, <1>6, <1>r, <2>1, <2>2, ReplacedBut
  <2>4. pr'[p] = x /\ \A q \in Processes \ {p} : pr'[q] = pr[q]
    BY <1>1, <1>6, Updated
  <2>5. Out(r, x)
    BY <1>3, <1>6 DEF Out, Comes
  <2>6. \A q \in Processes \ {p} : Same(pr[q], pr'[q])
    BY <2>4 DEF Same
  <2>7. \A q \in Processes : Out(pr[q], pr'[q]) \/ Same(pr[q], pr'[q])
    BY <1>r, <2>4, <2>5, <2>6
  <2>8. OneAtATime'
    BY <1>1, <1>2, <2>7, QuietKeeps
  <2>9. Data'
    BY <1>1, <1>2, <1>6 DEF Data
  <2> QED
    BY <2>3, <2>8, <2>9 DEF IInv
<1>7. CASE /\ pr' = [pr EXCEPT ![p].todo = SubSeq(@, 6, Len(@))] /\ UNCHANGED keys
           /\ hostKey' \in Nat
  <2>1. r.todo = <<"ssh", "set", "write", "set", "write", "scripts", "done", "first-run">>
    <3>1. r.todo \in InitPath
      BY <1>3, <1>4 DEF OnTrack
    <3> QED
      BY <1>3, <3>1 DEF InitPath
  <2>2. SubSeq(r.todo, 6, Len(r.todo)) = <<"scripts", "done", "first-run">>
    BY <2>1, KeySkipped
  <2>x. PICK x : x = [r EXCEPT !.todo = <<"scripts", "done", "first-run">>]
    OBVIOUS
  <2>3. pr' = [pr EXCEPT ![p] = x]
    BY <1>7, <1>r, <2>2, <2>x
  <2>4. /\ x.todo = <<"scripts", "done", "first-run">> /\ x.do = r.do /\ x.arg = r.arg
        /\ x.read = r.read /\ x.defs = r.defs /\ x.cfg = r.cfg /\ x.base = r.base /\ IsRecord(x)
    BY <1>4, <2>x DEF IsRecord
  <2>5. x.todo # <<>> /\ Head(x.todo) = "scripts" /\ Left(x) = 3 /\ x.todo \in InitPath
    BY <2>4 DEF Left, InitPath
  <2>6. /\ ~Comes(x, "write") /\ ~Comes(x, "truncate") /\ ~Comes(x, "rewrite")
        /\ ~Comes(x, "ssh")
    BY <2>5 DEF Comes
  <2>7. Holds(x)
    BY <1>3, <1>4, <2>4, <2>6 DEF Holds, ServiceDo
  <2>8. OnTrack(x) /\ Fits(p, x)
    BY <1>3, <1>4, <2>4, <2>5 DEF OnTrack, Fits
  <2>9. Good(p, x)
    BY <2>4, <2>7, <2>8 DEF Good
  <2>10. Left(x) \notin {4, 5, 6, 7} /\ Left(x) \in Nat /\ 1 <= Left(x) /\ Left(x) < 8
    BY <2>5
  <2>11. pr'["init"] = x /\ \A q \in Processes \ {"init"} : pr'[q] = pr[q]
    BY <1>1, <1>3, <2>3, Updated
  <2>12. \A q \in Processes : pr'[q].read \in {None, file, pr[q].read}
    BY <1>3, <2>4, <2>11
  <2>13. Keys'
    BY <1>1, <1>2, <1>3, <1>7, <2>6, <2>10, <2>11, <2>12, KeysOutside
  <2>14. keys' \in Nat
    BY <1>1, <1>7 DEF Data
  <2> QED
    BY <1>3, <1>6, <1>7, <2>3, <2>4, <2>5, <2>6, <2>9, <2>10, <2>13, <2>14
<1>8. CASE /\ hostKey = 0 /\ (r.cfg.key = None \/ r.cfg.pub = None)
           /\ keys' = keys + 1 /\ hostKey' = keys + 1 /\ Go(p)
  <2>x. PICK x : x = [r EXCEPT !.todo = Tail(r.todo)]
    OBVIOUS
  <2>1. pr' = [pr EXCEPT ![p] = x]
    BY <1>8, <1>r, <2>x DEF Go
  <2>2. /\ x.todo = Tail(r.todo) /\ x.do = r.do /\ x.arg = r.arg /\ x.read = r.read
        /\ x.defs = r.defs /\ x.cfg = r.cfg /\ x.base = r.base /\ IsRecord(x)
    BY <1>4, <2>x DEF IsRecord
  <2>3. /\ OnTrack(x) /\ (x.todo # <<>> => Fits(p, x))
        /\ Left(x) = Left(r) - 1 /\ (x.todo = <<>> <=> Left(r) = 1)
        /\ Comes(x, "write") <=> Comes(r, "set")
        /\ Comes(x, "truncate") <=> Comes(r, "compose")
        /\ Comes(x, "rewrite") <=> Comes(r, "truncate")
    BY <1>3, <1>4, <2>2, Stepping
  <2>4. ~Comes(x, "write") /\ ~Comes(x, "truncate") /\ ~Comes(x, "rewrite")
    BY <1>3, <2>3 DEF Comes
  <2>5. Holds(x)
    BY <1>3, <1>4, <2>2, <2>4 DEF Holds, ServiceDo
  <2>6. Good(p, x)
    BY <2>2, <2>3, <2>5 DEF Good
  <2>7. Left(x) = 7 /\ x.todo # <<>> /\ Left(x) \in Nat /\ 1 <= Left(x) /\ Left(x) < 8
    BY <1>3, <2>3
  <2>8. pr'["init"] = x
    BY <1>1, <1>3, <2>1, Updated
  <2>9. Saving'
    BY <2>7, <2>8 DEF Saving, Running
  <2>10. hostKey' \in Nat /\ keys' \in Nat
    BY <1>1, <1>8 DEF Data
  <2>11. ASSUME {"crash", "not-saved"} \cap mishaps' = {}
         PROVE  keys' <= 1 /\ hostKey' # 0 /\ hostKey' = keys'
    <3>1. keys <= 1 /\ (keys = 1 => HasKey(r.cfg))
      BY <1>1, <1>2, <1>3, <1>r, <2>11 DEF Keys
    <3>2. keys = 0
      BY <1>1, <1>8, <3>1 DEF HasKey, Data
    <3> QED
      BY <1>8, <3>2
  <2>12. Left(pr'["init"]) \notin {4, 5, 6}
    BY <2>7, <2>8
  <2>13. Keys'
    BY <2>9, <2>11, <2>12 DEF Keys
  <2> QED
    BY <1>3, <1>6, <2>1, <2>2, <2>4, <2>6, <2>7, <2>10, <2>13
<1>9. \/ /\ hostKey # 0 /\ pr' = [pr EXCEPT ![p].todo = SubSeq(@, 6, Len(@))]
         /\ UNCHANGED <<hostKey, keys>>
      \/ /\ hostKey = 0 /\ r.cfg.key # None
         /\ hostKey' = r.cfg.key /\ pr' = [pr EXCEPT ![p].todo = SubSeq(@, 6, Len(@))]
         /\ UNCHANGED keys
      \/ /\ hostKey = 0 /\ (r.cfg.key = None \/ r.cfg.pub = None)
         /\ keys' = keys + 1 /\ hostKey' = keys + 1 /\ Go(p)
  BY <1>r DEF SetupSSH
<1>10. r.cfg.key # None => r.cfg.key \in Nat
  BY <1>3 DEF Configs
<1>11. hostKey \in Nat
  BY <1>1 DEF Data
<1> QED
  BY <1>7, <1>8, <1>9, <1>10, <1>11

\* Starting Docker for the first time keeps the invariant: console-init waits.
LEMMA FirstRunInv ==
  ASSUME IInv, NEW p \in Processes, FirstRun(p)
  PROVE  IInv'
<1>1. Tracks /\ Data /\ Switching /\ Staged /\ Alone /\ Keys /\ OneAtATime
  BY DEF IInv
<1>2. /\ Running(p) /\ Head(pr[p].todo) = "first-run"
      /\ UNCHANGED <<file, compose, images, hostKey, keys, conUp, mishaps>>
  BY DEF FirstRun, At, store, boxes
<1>r. PICK r : r = pr[p]
  OBVIOUS
<1>3. /\ p = "init" /\ r.do = "init" /\ ~Saving /\ r.read = None /\ r.defs = None
      /\ r.cfg \in Configs /\ r.cfg.engine # None /\ r.todo # <<>> /\ Head(r.todo) = "first-run"
  BY <1>1, <1>2, <1>r, OnlyInit DEF Running
<1>4. IsRecord(r) /\ Holds(r) /\ Fits(p, r)
  BY <1>1, <1>2, <1>r, Here DEF Good
<1>5. CASE End(p)
  BY <1>2, <1>3, <1>5, Ended
<1>6. CASE ~End(p)
  <2>1. PICK new \in IF r.cfg.engine = Latest THEN Engines \ {dock} ELSE {r.cfg.engine} :
           pr' = [pr EXCEPT ![p].todo = <<"wait">>, !["first"] = Process("engine-switch", new)]
    BY <1>6, <1>r DEF FirstRun
  <2>2. new \in Engines
    BY <1>3, <2>1 DEF Configs
  <2>x. PICK x : x = [r EXCEPT !.todo = <<"wait">>]
    OBVIOUS
  <2>y. PICK y : y = Process("engine-switch", new)
    OBVIOUS
  <2>3. pr' = [pr EXCEPT !["init"] = x, !["first"] = y]
    BY <1>3, <1>r, <2>1, <2>x, <2>y
  <2>4. /\ pr' = [q \in Processes |-> pr'[q]] /\ pr'["init"] = x /\ pr'["first"] = y
        /\ \A q \in Processes \ {"init", "first"} : pr'[q] = pr[q]
    BY <1>1, <2>3 DEF Tracks, Processes
  <2>5. /\ x.todo = <<"wait">> /\ x.do = r.do /\ x.arg = r.arg
        /\ x.read = r.read /\ x.defs = r.defs /\ x.cfg = r.cfg /\ x.base = r.base /\ IsRecord(x)
    BY <1>4, <2>x DEF IsRecord
  <2>6. x.todo # <<>> /\ Head(x.todo) = "wait" /\ Left(x) = 1 /\ x.todo \in InitPath
    BY <2>5 DEF Left, InitPath
  <2>7. /\ ~Comes(x, "write") /\ ~Comes(x, "truncate") /\ ~Comes(x, "rewrite")
        /\ ~Comes(x, "ssh")
    BY <2>6 DEF Comes
  <2>8. Holds(x)
    BY <1>3, <1>4, <2>5, <2>7 DEF Holds, ServiceDo
  <2>9. OnTrack(x) /\ Fits(p, x)
    BY <1>3, <1>4, <2>5, <2>6 DEF OnTrack, Fits
  <2>10. Good(p, x)
    BY <2>5, <2>8, <2>9 DEF Good
  <2>11. "first" \in Processes /\ y.do = "engine-switch" /\ y.arg = new
    BY <2>y DEF Processes, Process, Idle
  <2>12. Fits("first", y)
    BY <2>2, <2>11, NameAssumption DEF Fits, ShellDo
  <2>13. /\ Good("first", y) /\ y.todo # <<>> /\ y.read = None /\ y.defs = None
         /\ Head(y.todo) \in {"load", "validate"}
    BY <2>11, <2>12, <2>y, Started DEF ShellDo
  <2>14. Tracks'
    BY <1>1, <1>3, <2>4, <2>10, <2>13 DEF Tracks
  <2>15. Switching'
    BY <1>1, <1>2, <2>4 DEF Switching, Running, Processes
  <2>16. ASSUME NEW q \in Processes
         PROVE  Ready(pr'[q], images', mishaps')
    <3>1. \A s \in Processes : Ready(pr[s], images', mishaps')
      BY <1>1, <1>2 DEF Staged
    <3>2. Ready(x, images', mishaps')
      BY <1>3, <2>5 DEF Ready
    <3>3. Ready(y, images', mishaps')
      BY <2>11, <2>13 DEF Ready, Comes
    <3> QED
      BY <1>2, <2>4, <3>1, <3>2, <3>3
  <2>17. Staged'
    BY <1>1, <1>2, <2>16, StagedKeeps
  <2>18. Running("init") /\ ~Running("first")
    BY <1>1, <1>2, <1>3 DEF Alone, At
  <2>19. Alone'
    <3>1. At("init", "wait")'
      BY <2>4, <2>6 DEF At, Running
    <3>2. pr'["switch"] = pr["switch"] /\ \A q \in Shells : pr'[q] = pr[q]
      BY <2>4, NameAssumption DEF Processes
    <3> QED
      BY <1>1, <2>18, <3>1, <3>2 DEF Alone, Running
  <2>20. \A q \in Processes : pr'[q].read \in {None, file, pr[q].read}
    BY <1>3, <2>4, <2>5, <2>13
  <2>21. Left(x) \notin {4, 5, 6, 7}
    BY <2>6
  <2>22. Keys'
    BY <1>1, <1>2, <1>3, <2>4, <2>7, <2>20, <2>21, KeysOutside
  <2>23. Out(pr["init"], x)
    BY <1>3, <1>r, <2>5, <2>7 DEF Out, Comes
  <2>24. Out(pr["first"], y)
    BY <2>11, <2>13, <2>18 DEF Out, Comes, Running
  <2>25. \A q \in Processes \ {"init", "first"} : Same(pr[q], pr'[q])
    BY <2>4 DEF Same
  <2>26. \A q \in Processes : Out(pr[q], pr'[q]) \/ Same(pr[q], pr'[q])
    BY <2>4, <2>23, <2>24, <2>25
  <2>27. OneAtATime'
    BY <1>1, <1>2, <2>26, QuietKeeps
  <2>28. Data'
    BY <1>1, <1>2 DEF Data
  <2> QED
    BY <2>14, <2>15, <2>17, <2>19, <2>22, <2>27, <2>28 DEF IInv
<1> QED
  BY <1>5, <1>6

\* A new command keeps the invariant: if it meets another one that deals with the
\* same engine, that is noted.
LEMMA GiveInv ==
  ASSUME IInv, NEW p \in Processes, Give(p)
  PROVE  IInv'
<1>1. Tracks /\ Data /\ Switching /\ Staged /\ Alone /\ Keys /\ OneAtATime
  BY DEF IInv
<1>2. /\ ~Running(p) /\ ~Running("init")
      /\ UNCHANGED <<file, compose, images, hostKey, keys, conUp>>
  BY DEF Give, store, boxes
<1>3. p \in Shells /\ p \notin {"switch", "init", "first"}
  BY NameAssumption DEF Give, Shells
<1>4. PICK c \in Commands :
         /\ pr' = [pr EXCEPT ![p] = Process(c.do, c.arg)]
         /\ mishaps' = mishaps \cup (IF c.do = "config-set" THEN {"by-hand"} ELSE {})
                              \cup (IF Overlaps(p, c) THEN {"race"} ELSE {})
  BY DEF Give
<1>5. /\ c.do \in ShellDo
      /\ c.do \in {"enable", "disable", "delete", "config-merge"} => c.arg \in Services
      /\ c.do \in {"config-set", "console-enable", "console-switch"} => c.arg \in Consoles
      /\ c.do \in {"engine-enable", "engine-switch"} => c.arg \in Engines
      /\ c.do \in {"create", "rm"} => c.arg \in Dinds
  <2>1. c \in CommandLines
    BY CommandAssumption
  <2> QED
    BY <2>1 DEF CommandLines, ShellDo
<1>x. PICK x : x = Process(c.do, c.arg)
  OBVIOUS
<1>6. x.do = c.do /\ x.arg = c.arg
  BY <1>x DEF Process, Idle
<1>7. Fits(p, x)
  BY <1>3, <1>5, <1>6 DEF Fits, ShellDo
<1>8. /\ Good(p, x) /\ x.todo # <<>> /\ x.read = None /\ x.defs = None
      /\ Head(x.todo) \in {"load", "set", "validate"}
      /\ Head(x.todo) = "set" => c.do \in {"config-set", "config-merge"}
      /\ c.do \in {"create", "rm"} => Left(x) = 9
  BY <1>5, <1>7, <1>x, Started
<1>9. /\ pr' = [q \in Processes |-> pr'[q]] /\ pr'[p] = x
      /\ \A q \in Processes \ {p} : pr'[q] = pr[q]
  BY <1>1, <1>4, <1>x, Updated
<1>10. mishaps \subseteq mishaps'
  BY <1>4
<1>11. Tracks'
  BY <1>1, <1>8, <1>9 DEF Tracks
<1>12. pr'["switch"] = pr["switch"] /\ pr'["init"] = pr["init"]
  BY <1>3, <1>9 DEF Processes
<1>13. Switching'
  BY <1>1, <1>2, <1>10, <1>12 DEF Switching, Running
<1>14. ASSUME NEW q \in Processes
       PROVE  Ready(pr'[q], images', mishaps')
  <2>1. \A s \in Processes : Ready(pr[s], images', mishaps')
    BY <1>1, <1>2, <1>10, ReadyStays DEF Staged
  <2>2. "by-hand" \notin mishaps' => c.do # "config-set"
    BY <1>4
  <2>3. c.do # "switch"
    BY <1>5 DEF ShellDo
  <2>4. Ready(x, images', mishaps')
    BY <1>6, <1>8, <2>2, <2>3 DEF Ready, Comes
  <2> QED
    BY <1>2, <1>9, <2>1, <2>4
<1>15. Staged'
  BY <1>1, <1>2, <1>10, <1>14, StagedKeeps
<1>16. Alone'
  BY <1>2, <1>12 DEF Alone, Running
<1>17. \A q \in Processes : pr'[q].read \in {None, file, pr[q].read}
  BY <1>8, <1>9
<1>18. Keys'
  BY <1>1, <1>2, <1>10, <1>12, <1>17, KeysKeeps
<1>19. Out(pr[p], x) \/ Fresh(pr[p], x)
  <2>1. ~Comes(x, "truncate") /\ ~Comes(x, "rewrite") /\ ~Comes(pr[p], "rewrite")
    BY <1>2, <1>8 DEF Comes, Running
  <2> QED
    BY <1>6, <1>8, <2>1 DEF Out, Fresh
<1>20. \A q \in Processes \ {p} : Same(pr[q], pr'[q])
  BY <1>9 DEF Same
<1>21. \A q \in Processes : Out(pr[q], pr'[q]) \/ Same(pr[q], pr'[q]) \/ Fresh(pr[q], pr'[q])
  BY <1>9, <1>19, <1>20
<1>22. ASSUME {"race", "crash", "cut", "torn"} \cap mishaps' = {}
       PROVE  \A q, s \in Processes : Changes(q)' /\ Changes(s)' /\ pr'[q].arg = pr'[s].arg => q = s
  <2>1. {"race", "crash", "cut", "torn"} \cap mishaps = {} /\ ~Overlaps(p, c)
    BY <1>4, <1>22
  <2>2. \A q \in Processes \ {p} : Changes(p)' /\ Changes(q)' => pr'[q].arg # pr'[p].arg
    BY <1>6, <1>9, <2>1 DEF Overlaps, Changes, Running
  <2>3. \A q \in Processes \ {p} : Changes(q)' => Changes(q) /\ pr'[q].arg = pr[q].arg
    BY <1>9 DEF Changes, Running
  <2>4. \A q, s \in Processes : Changes(q) /\ Changes(s) /\ pr[q].arg = pr[s].arg => q = s
    BY <1>1, <2>1 DEF OneAtATime
  <2> QED
    BY <2>2, <2>3, <2>4
<1>23. OneAtATime'
  BY <1>1, <1>2, <1>10, <1>21, <1>22, QuietButFresh
<1>24. Data'
  BY <1>1, <1>2 DEF Data
<1> QED
  BY <1>11, <1>13, <1>15, <1>16, <1>18, <1>23, <1>24 DEF IInv

\* The processes of a system that has booted: console-init has just begun.
LEMMA AfterBoot ==
  ASSUME NEW b, b = Booted
  PROVE  /\ b = [p \in Processes |-> b[p]]
         /\ \A p \in Processes :
               /\ Good(p, b[p]) /\ b[p].read = None /\ b[p].defs = None
               /\ \A disk, w : Ready(b[p], disk, w)
               /\ \A s : Comes(b[p], s) => s = "load"
               /\ p # "init" => b[p].todo = <<>>
               /\ b[p].todo = <<>> \/ b[p].do = "init"
         /\ Left(b["init"]) = 9
<1>y. PICK y : y = Process("init", None)
  OBVIOUS
<1>1. b = [p \in Processes |-> IF p = "init" THEN y ELSE Idle]
  BY <1>y DEF Booted
<1>2. "init" \in Processes /\ y.do = "init"
  BY <1>y DEF Processes, Process, Idle
<1>3. Fits("init", y)
  BY <1>2, NameAssumption DEF Fits
<1>4. Good("init", y) /\ y.read = None /\ y.defs = None /\ Left(y) = 9 /\ Head(y.todo) = "load"
  BY <1>2, <1>3, <1>y, Started
<1>5. \A disk, w : Ready(y, disk, w)
  BY <1>2, <1>4 DEF Ready
<1>6. \A s : Comes(y, s) => s = "load"
  BY <1>4 DEF Comes
<1>7. \A s : ~Comes(Idle, s)
  BY IdleGood DEF Comes
<1>8. b["init"] = y /\ \A p \in Processes \ {"init"} : b[p] = Idle
  BY <1>1, <1>2
<1>9. ASSUME NEW p \in Processes
      PROVE  /\ Good(p, b[p]) /\ b[p].read = None /\ b[p].defs = None
             /\ \A disk, w : Ready(b[p], disk, w)
             /\ \A s : Comes(b[p], s) => s = "load"
             /\ p # "init" => b[p].todo = <<>>
             /\ b[p].todo = <<>> \/ b[p].do = "init"
  <2>1. CASE p = "init"
    BY <1>2, <1>4, <1>5, <1>6, <1>8, <2>1
  <2>2. CASE p # "init"
    BY <1>7, <1>8, <2>2, IdleGood
  <2> QED
    BY <2>1, <2>2
<1> QED
  BY <1>1, <1>4, <1>8, <1>9

\* A boot keeps the invariant: no process is left that knew the configuration.
LEMMA RebootInv ==
  ASSUME IInv, Reboot
  PROVE  IInv'
<1>1. Tracks /\ Data /\ Staged
  BY DEF IInv
<1>2. /\ UNCHANGED <<file, compose, images, keys>> /\ conUp' = TRUE
      /\ mishaps' = mishaps \cup {"crash"} /\ hostKey' \in {hostKey, 0}
  BY DEF Reboot, store, Note, StartConsole
<1>b. PICK b : b = Booted
  OBVIOUS
<1>3. pr' = b
  BY <1>b DEF Reboot
<1>4. /\ b = [p \in Processes |-> b[p]]
      /\ \A p \in Processes : Good(p, b[p]) /\ \A disk, w : Ready(b[p], disk, w)
      /\ \A p \in Processes : p # "init" => b[p].todo = <<>>
  BY <1>b, AfterBoot
<1>5. Tracks'
  BY <1>3, <1>4 DEF Tracks
<1>6. Data'
  BY <1>1, <1>2 DEF Data
<1>7. Switching'
  BY <1>2 DEF Switching
<1>8. Staged'
  BY <1>1, <1>2, <1>3, <1>4, StagedKeeps
<1>9. Alone'
  <2>1. ~Running("switch")' /\ ~Running("first")' /\ \A p \in Shells : ~Running(p)'
    BY <1>3, <1>4, NameAssumption DEF Running, Processes
  <2> QED
    BY <2>1 DEF Alone
<1>10. Keys' /\ OneAtATime'
  BY <1>2 DEF Keys, OneAtATime
<1> QED
  BY <1>5, <1>6, <1>7, <1>8, <1>9, <1>10 DEF IInv

\* What does not concern the commands keeps the invariant, docker's steps too.
LEMMA DockerInv ==
  ASSUME IInv, UNCHANGED <<file, compose, images, hostKey, keys, conUp, pr, mishaps>>
  PROVE  IInv'
<1>1. Tracks /\ Data /\ Switching /\ Staged /\ Alone /\ Keys /\ OneAtATime
  BY DEF IInv
<1>2. Tracks' /\ Data'
  BY <1>1 DEF Tracks, Data
<1>3. Switching' /\ Alone'
  BY <1>1 DEF Switching, Alone, Running, At
<1>4. Staged'
  BY <1>1 DEF Staged
<1>5. Keys'
  BY <1>1, KeysKeeps
<1>6. \A q \in Processes : Same(pr[q], pr'[q])
  BY DEF Same
<1>7. OneAtATime'
  BY <1>1, <1>6, QuietKeeps
<1> QED
  BY <1>2, <1>3, <1>4, <1>5, <1>7 DEF IInv

\* A new system has the invariant.
LEMMA InitInv ==
  ASSUME Init
  PROVE  IInv
<1>1. /\ pr = Booted /\ file = First /\ compose = [d \in Dinds |-> FALSE]
      /\ images = {Below.console, First.console} \ {None, Default} /\ conUp = TRUE
      /\ hostKey = 0 /\ keys = 0 /\ mishaps = {}
  BY DEF Init
<1>2. /\ pr = [p \in Processes |-> pr[p]]
      /\ \A p \in Processes :
            /\ Good(p, pr[p]) /\ pr[p].read = None /\ pr[p].defs = None
            /\ \A disk, w : Ready(pr[p], disk, w)
            /\ \A s : Comes(pr[p], s) => s = "load"
            /\ p # "init" => pr[p].todo = <<>>
            /\ pr[p].todo = <<>> \/ pr[p].do = "init"
      /\ Left(pr["init"]) = 9
  BY <1>1, AfterBoot
<1>3. Tracks
  BY <1>2 DEF Tracks
<1>4. Data
  BY <1>1, ControlAssumption DEF Data
<1>5. Switching
  BY <1>1 DEF Switching
<1>6. Staged
  <2>1. OnDisk(file, images, mishaps)
    BY <1>1, NewSystem DEF OnDisk
  <2> QED
    BY <1>2, <2>1 DEF Staged
<1>7. Alone
  <2>1. ~Running("switch") /\ ~Running("first") /\ \A p \in Shells : ~Running(p)
    BY <1>2, NameAssumption DEF Running, Processes
  <2> QED
    BY <2>1 DEF Alone
<1>8. Keys
  <2>1. Left(pr["init"]) \notin {4, 5, 6, 7}
    BY <1>2
  <2>2. ~Saving
    BY <2>1 DEF Saving
  <2> QED
    BY <1>1, <2>2 DEF Keys
<1>9. OneAtATime
  <2>1. Included(file) = {}
    <3>1. ASSUME NEW d \in Dinds
          PROVE  LoadConfig(First).svc[d] # "on"
      <4>1. d \in Names
        BY DEF Names
      <4>2. LoadConfig(First).svc[d] = Over(Over(Below.svc[d], First.svc[d]), Cmdline.svc[d])
        BY <4>1 DEF LoadConfig, Merge
      <4> QED
        BY <4>2, NewSystem DEF Over
    <3> QED
      BY <1>1, <3>1 DEF Included
  <2>2. compose # Torn
    BY <1>1, NameAssumption
  <2>3. \A p \in Processes : ~At(p, "truncate") /\ ~Rewriting(p) /\ ~Changes(p)
    BY <1>2 DEF At, Rewriting, Running, Comes, Changes
  <2>4. \A p \in Processes : ~(Running(p) /\ pr[p].do \in {"create", "rm"})
    BY <2>3 DEF Changes
  <2> QED
    BY <1>2, <2>1, <2>2, <2>3, <2>4 DEF OneAtATime
<1> QED
  BY <1>3, <1>4, <1>5, <1>6, <1>7, <1>8, <1>9 DEF IInv

\* Every step keeps the invariant.
LEMMA NextInv ==
  ASSUME IInv, [Next]_vars
  PROVE  IInv'
<1>1. CASE Docker
  <2>1. UNCHANGED <<file, compose, images, hostKey, keys, conUp, pr, mishaps>>
    BY <1>1 DEF Docker, UserDocker, StartInConsole, DockerInit, store
  <2> QED
    BY <2>1, DockerInv
<1>2. CASE Reboot
  BY <1>2, RebootInv
<1>3. ASSUME NEW p \in Processes, Give(p)
      PROVE  IInv'
  BY <1>3, GiveInv
<1>4. ASSUME NEW p \in Processes, Step(p)
      PROVE  IInv'
  BY <1>4, LoadInv, NoPullInv, StageInv, SetReadInv, SetWriteInv, ValidateInv, ComposeReadInv,
     ComposeTruncateInv, ComposeRewriteInv, ScriptInv, StopDindInv, CheckInv, StopDockerInv,
     StopConsoleInv, LoadSpecialInv, UpConsoleInv, StartDockerInv, UpDockerInv, LaunchInv,
     SetupSSHInv, EngineScriptsInv, ConsoleDoneInv, FirstRunInv, FirstRunEndsInv DEF Step
<1>5. CASE UNCHANGED vars
  <2>1. UNCHANGED <<file, compose, images, hostKey, keys, conUp, pr, mishaps>>
    BY <1>5 DEF vars, store, boxes
  <2> QED
    BY <2>1, DockerInv
<1> QED
  BY <1>1, <1>2, <1>3, <1>4, <1>5 DEF Next

\* So the invariant holds always: what the processes know, and what is on the disk,
\* fits together whatever commands are given, fail, are cut off or overtake
\* each other.
THEOREM Inductive == Spec => []IInv
<1>1. Init => IInv
  BY InitInv
<1>2. IInv /\ [Next]_vars => IInv'
  BY NextInv
<1> QED
  BY <1>1, <1>2, PTL DEF Spec

-----------------------------------------------------------------------------
(* What follows.                                                           *)

\* switch-console: the console is down only while the switch goes on, or after an
\* error, however many switches there are and whoever starts them.
THEOREM ConsoleReturns == Spec => []ConsoleComesBack
<1>1. IInv => ConsoleComesBack
  BY DEF IInv, Switching, ConsoleComesBack
<1> QED
  BY <1>1, Inductive, PTL

\* A console that was configured before its image is there: the switch that did so
\* has yet to pull it, or another one is going to configure its own.
Pulling ==
    \/ file.console \in images \cup {Default, None}
    \/ {"by-hand", "error", "crash", "not-saved", "race"} \cap mishaps # {}
    \/ /\ Running("switch")
       /\ \/ Left(pr["switch"]) >= 3
          \/ Left(pr["switch"]) = 2 /\ file.console = pr["switch"].arg

\* What others do does not matter, unless they write the file;
LEMMA PullingElse ==
  ASSUME Pulling, UNCHANGED file, images \subseteq images', mishaps \subseteq mishaps',
         pr'["switch"] = pr["switch"]
  PROVE  Pulling'
BY DEF Pulling, Running

\* nor what the switch does before it writes the file, and after it has pulled.
LEMMA PullingSwitch ==
  ASSUME Tracks, Pulling, UNCHANGED file, images \subseteq images', mishaps \subseteq mishaps',
         Running("switch"), Head(pr["switch"].todo) \notin {"write", "up-console"},
         NEW x, pr'["switch"] = x, x.todo = Tail(pr["switch"].todo)
  PROVE  Pulling'
<1>r. PICK r : r = pr["switch"]
  OBVIOUS
<1>0. "switch" \in Processes
  BY DEF Processes
<1>1. /\ Fits("switch", r) /\ Shape(r) /\ Counts(r.do, Head(r.todo), Left(r))
  BY <1>0, <1>r, Here
<1>2. /\ Left(r) \in Nat /\ Left(r) # 3 /\ Left(r) # 2 /\ Len(Tail(r.todo)) = Left(r) - 1
      /\ Tail(r.todo) = <<>> <=> Left(r) = 1
  BY <1>1, <1>r DEF Fits, Counts, Shape
<1>x. Left(x) = Len(Tail(r.todo)) /\ x.todo = Tail(r.todo)
  BY <1>r DEF Left
<1>n. PICK n : n = Left(r)
  OBVIOUS
<1>4. n \in Nat /\ n # 3 /\ Left(x) = n - 1 /\ (x.todo = <<>> <=> n = 1)
  BY <1>2, <1>x, <1>n
<1>5. n >= 3 => Left(x) >= 3 /\ x.todo # <<>>
  BY ONLY <1>4
<1>3. Left(r) >= 3 => x.todo # <<>> /\ Left(x) >= 3
  BY ONLY <1>5, <1>n
<1> QED
  BY <1>2, <1>3, <1>r DEF Pulling, Running

\* Both.
LEMMA PullingOn ==
  ASSUME IInv, Pulling, UNCHANGED file, images \subseteq images', mishaps \subseteq mishaps',
         NEW p \in Processes, Running(p), NEW x, pr' = [pr EXCEPT ![p] = x],
         p = "switch" => /\ Head(pr[p].todo) \notin {"write", "up-console"}
                         /\ x.todo = Tail(pr[p].todo)
  PROVE  Pulling'
<1>1. Tracks
  BY DEF IInv
<1>2. pr'[p] = x /\ \A q \in Processes \ {p} : pr'[q] = pr[q]
  BY <1>1, Updated
<1>3. CASE p # "switch"
  <2>1. pr'["switch"] = pr["switch"]
    BY <1>2, <1>3 DEF Processes
  <2> QED
    BY <2>1, PullingElse
<1>4. CASE p = "switch"
  BY <1>1, <1>2, <1>4, PullingSwitch
<1> QED
  BY <1>3, <1>4

\* In particular a process that just goes on or ends.
LEMMA PullingGo ==
  ASSUME IInv, Pulling, UNCHANGED file, images \subseteq images', mishaps \subseteq mishaps',
         NEW p \in Processes, Running(p), Go(p) \/ End(p),
         p = "switch" => Head(pr[p].todo) \notin {"write", "up-console"},
         p = "switch" /\ End(p) => Head(pr[p].todo) = "start-docker"
  PROVE  Pulling'
<1>1. Tracks
  BY DEF IInv
<1>2. IsRecord(pr[p]) /\ Fits(p, pr[p]) /\ Shape(pr[p])
      /\ Counts(pr[p].do, Head(pr[p].todo), Left(pr[p]))
  BY <1>1, Here DEF Good
<1>3. CASE Go(p)
  <2>x. PICK x : x = [pr[p] EXCEPT !.todo = Tail(pr[p].todo)]
    OBVIOUS
  <2>1. pr' = [pr EXCEPT ![p] = x] /\ x.todo = Tail(pr[p].todo)
    BY <1>2, <1>3, <2>x DEF Go, IsRecord
  <2> QED
    BY <2>1, PullingOn
<1>4. CASE End(p)
  <2>x. PICK x : x = Idle
    OBVIOUS
  <2>1. pr' = [pr EXCEPT ![p] = x] /\ x.todo = <<>>
    BY <1>4, <2>x DEF End, Idle
  <2>2. p = "switch" => Tail(pr[p].todo) = <<>>
    BY <1>2, <1>4 DEF Fits, Counts, Shape
  <2> QED
    BY <2>1, <2>2, PullingOn
<1> QED
  BY <1>3, <1>4

\* What Set writes is on the disk, or is what was there, or is the switch's own.
LEMMA PullingWrite ==
  ASSUME IInv, Pulling, NEW p \in Processes, At(p, "write"), WriteFileAtomic(Modified(p)),
         pr' = [pr EXCEPT ![p].todo = Tail(@), ![p].read = None],
         IF Overtaken(p) THEN Note("race") ELSE UNCHANGED mishaps,
         UNCHANGED images
  PROVE  Pulling'
<1>1. Tracks /\ Data /\ Staged
  BY DEF IInv
<1>r. PICK r : r = pr[p]
  OBVIOUS
<1>f. PICK f : f = Modified(p)
  OBVIOUS
<1>x. PICK x : x = [r EXCEPT !.todo = Tail(r.todo), !.read = None]
  OBVIOUS
<1>2. pr' = [pr EXCEPT ![p] = x] /\ file' = f /\ Running(p)
  BY <1>f, <1>r, <1>x DEF WriteFileAtomic, At
<1>3. /\ Fits(p, r) /\ Counts(r.do, Head(r.todo), Left(r)) /\ Belongs(r) /\ Shape(r)
      /\ IsRecord(r) /\ r.todo # <<>> /\ Head(r.todo) = "write"
  BY <1>1, <1>2, <1>r, Here DEF Good, At, Running
<1>4. pr'[p] = x /\ \A q \in Processes \ {p} : pr'[q] = pr[q]
  BY <1>1, <1>2, Updated
<1>5. x.todo = Tail(r.todo) /\ x.arg = r.arg
  BY <1>3, <1>x DEF IsRecord
<1>6. CASE Overtaken(p)
  <2>1. "race" \in mishaps'
    BY <1>6 DEF Note
  <2> QED
    BY <2>1 DEF Pulling
<1>7. CASE ~Overtaken(p)
  <2>1. r.read = file /\ mishaps' = mishaps
    BY <1>7, <1>r DEF Overtaken
  <2>2. /\ r.do \in ServiceDo \cup {"config-merge", "engine-enable", "engine-switch", "init"} =>
              f.console = r.read.console
        /\ r.do \in {"console-enable", "switch", "config-set"} => f.console = r.arg
    BY <1>1, <1>f, <1>r, ModifiedIs
  <2>3. r.do \in (ShellDo \ {"console-switch"}) \cup {"switch", "init"}
    BY <1>3 DEF Fits, Belongs, Processes, ShellDo
  <2>4. Ready(r, images, mishaps)
    BY <1>1, <1>r DEF Staged
  <2>5. CASE r.do = "console-enable"
    <3>1. f.console \in images \cup {Default}
      BY <1>3, <2>2, <2>4, <2>5 DEF Ready, Comes
    <3> QED
      BY <1>2, <3>1 DEF Pulling
  <2>6. CASE r.do = "config-set"
    <3>1. "by-hand" \in mishaps
      BY <1>3, <2>4, <2>6 DEF Ready
    <3> QED
      BY <2>1, <3>1 DEF Pulling
  <2>7. CASE r.do = "switch"
    <3>1. p = "switch"
      BY <1>3, <2>7 DEF Fits, Processes, ShellDo
    <3>a. Left(r) = 3
      BY <1>3, <2>7 DEF Counts
    <3>b. /\ Len(Tail(r.todo)) = Left(r) - 1
          /\ Tail(r.todo) = <<>> <=> Left(r) = 1
      BY <1>3 DEF Shape
    <3>2. Left(r) = 3 /\ Len(Tail(r.todo)) = 2 /\ Tail(r.todo) # <<>>
      BY ONLY <3>a, <3>b
    <3>3. pr'["switch"] = x /\ x.todo # <<>> /\ Left(x) = 2 /\ file'.console = x.arg
      BY <1>2, <1>4, <1>5, <2>2, <2>7, <3>1, <3>2 DEF Left
    <3> QED
      BY <3>3 DEF Pulling, Running
  <2>8. CASE r.do \in ServiceDo \cup {"config-merge", "engine-enable", "engine-switch", "init"}
    <3>1. f.console = file.console
      BY <2>1, <2>2, <2>8
    <3>2. p # "switch"
      BY <1>3, <2>8 DEF Fits, ServiceDo
    <3>3. pr'["switch"] = pr["switch"]
      BY <1>4, <3>2 DEF Processes
    <3> QED
      BY <1>2, <2>1, <3>1, <3>3 DEF Pulling, Running
  <2> QED
    BY <2>3, <2>5, <2>6, <2>7, <2>8 DEF ShellDo, ServiceDo
<1> QED
  BY <1>6, <1>7

\* So it is for every step.
LEMMA PullingNext ==
  ASSUME IInv, Pulling, [Next]_vars
  PROVE  Pulling'
<1> DEFINE Wrong == {"error", "crash", "not-saved"} \cap mishaps' # {}
<1>0. Wrong => Pulling'
  BY DEF Pulling
<1> HIDE DEF Wrong
<1>1. Tracks
  BY DEF IInv
<1>2. CASE UNCHANGED vars
  BY <1>2, PullingElse DEF vars, store
<1>3. CASE Docker
  BY <1>3, PullingElse DEF Docker, UserDocker, StartInConsole, DockerInit, store
<1>4. CASE Reboot
  BY <1>0, <1>4 DEF Reboot, Note, Wrong
<1>5. ASSUME NEW p \in Processes, Fail(p)
      PROVE  Pulling'
  BY <1>0, <1>5 DEF Fail, Err, Note, Wrong
<1>6. ASSUME NEW p \in Processes, Give(p)
      PROVE  Pulling'
  <2>1. UNCHANGED <<file, images>> /\ mishaps \subseteq mishaps' /\ p \in Shells
    BY <1>6 DEF Give, store, Shells
  <2>2. PICK y : pr' = [pr EXCEPT ![p] = y]
    BY <1>6 DEF Give
  <2>3. pr'["switch"] = pr["switch"]
    BY <1>1, <2>1, <2>2, NameAssumption DEF Tracks, Processes
  <2> QED
    BY <2>1, <2>3, PullingElse
<1>7. ASSUME NEW p \in Processes, SetWrite(p)
      PROVE  Pulling'
  <2>1. CASE Fail(p)
    BY <1>5, <2>1
  <2>2. CASE Err(p, "not-saved")
    BY <1>0, <2>2 DEF Err, Note, Wrong
  <2> QED
    BY <1>7, <2>1, <2>2, PullingWrite DEF SetWrite
<1>8. ASSUME NEW p \in Processes, Running(p),
             UNCHANGED <<file, images>>, mishaps \subseteq mishaps', p # "switch",
             \E x : pr' = [pr EXCEPT ![p] = x]
      PROVE  Pulling'
  <2>1. images \subseteq images'
    BY <1>8
  <2> QED
    BY <1>8, <2>1, PullingOn
<1>9. ASSUME NEW p \in Processes, Running(p), UNCHANGED file, images \subseteq images',
             mishaps \subseteq mishaps', Go(p) \/ End(p),
             p = "switch" => Head(pr[p].todo) \notin {"write", "up-console"},
             p = "switch" /\ End(p) => Head(pr[p].todo) = "start-docker"
      PROVE  Pulling'
  BY <1>9, PullingGo
<1>10. ASSUME NEW p \in Processes, Load(p)
       PROVE  Pulling'
  <2>1. Running(p) /\ Head(pr[p].todo) = "load" /\ UNCHANGED <<file, images>>
    BY <1>10 DEF Load, At, store
  <2>2. Fits(p, pr[p]) /\ IsRecord(pr[p])
    BY <1>1, <2>1, Here DEF Good
  <2>3. CASE Unavailable(p)
    BY <1>0, <2>3 DEF Unavailable, Err, Note, Wrong
  <2>4. CASE ~Unavailable(p)
    <3>r. PICK r : r = pr[p]
      OBVIOUS
    <3>1. UNCHANGED mishaps
      BY <1>10, <2>4 DEF Load
    <3>2. PICK y : pr' = [pr EXCEPT ![p] = y] /\ (p = "switch" => y.todo = Tail(pr[p].todo))
      <4>1. CASE \E c : pr' = [pr EXCEPT ![p].todo = Tail(@), ![p].base = file, ![p].cfg = c]
        <5>c. PICK c : pr' = [pr EXCEPT ![p].todo = Tail(@), ![p].base = file, ![p].cfg = c]
          BY <4>1
        <5>x. PICK x : x = [r EXCEPT !.todo = Tail(r.todo), !.base = file, !.cfg = c]
          OBVIOUS
        <5>1. pr' = [pr EXCEPT ![p] = x]
          BY <3>r, <5>c, <5>x
        <5>2. x.todo = Tail(r.todo)
          BY <2>2, <3>r, <5>x DEF IsRecord
        <5> QED
          BY <3>r, <5>1, <5>2
      <4>2. CASE Nothing(LoadConfig(file), r.do, r.arg)
        <5>1. p # "switch"
          BY <2>2, <3>r, <4>2 DEF Fits, Nothing
        <5> QED
          BY <1>10, <2>4, <3>r, <4>2, <5>1 DEF Load
      <4> QED
        BY <1>10, <2>4, <3>r, <4>1, <4>2 DEF Load
    <3> QED
      BY <2>1, <3>1, <3>2, PullingOn
  <2> QED
    BY <2>3, <2>4
<1>11. ASSUME NEW p \in Processes, SetRead(p)
       PROVE  Pulling'
  <2>1. Running(p) /\ Head(pr[p].todo) = "set" /\ UNCHANGED <<file, images, mishaps>>
    BY <1>11 DEF SetRead, At, store
  <2>2. IsRecord(pr[p])
    BY <1>1, <2>1, Here DEF Good
  <2>r. PICK r : r = pr[p]
    OBVIOUS
  <2>x. PICK x : x = [r EXCEPT !.todo = Tail(r.todo), !.read = file,
                               !.base = IF r.base = None THEN file ELSE r.base]
    OBVIOUS
  <2>3. pr' = [pr EXCEPT ![p] = x]
    BY <1>11, <2>r, <2>x DEF SetRead
  <2>4. x.todo = Tail(r.todo)
    BY <2>2, <2>r, <2>x DEF IsRecord
  <2> QED
    BY <2>1, <2>3, <2>4, <2>r, PullingOn
<1>12. ASSUME NEW p \in Processes,
              \/ NoPull(p) \/ StageServices(p) \/ PreFlightValidate(p) \/ ComposeTruncate(p)
              \/ Script(p) \/ StopDind(p) \/ CheckIncluded(p)
       PROVE  Pulling'
  <2>1. /\ Running(p) /\ UNCHANGED file /\ images \subseteq images'
        /\ Head(pr[p].todo) \in {"stage", "validate", "truncate", "script", "unscript",
                                  "stop-dind", "check"}
        /\ Fail(p) \/ (mishaps \subseteq mishaps' /\ (Go(p) \/ End(p)))
    BY <1>12 DEF NoPull, StageServices, PreFlightValidate, ComposeTruncate, Script, StopDind,
       CheckIncluded, At, Fail, Note, store
  <2>2. Fits(p, pr[p]) /\ Belongs(pr[p])
    BY <1>1, <2>1, Here
  <2>3. p # "switch"
    BY <2>1, <2>2 DEF Fits, Belongs
  <2> QED
    BY <1>5, <1>9, <2>1, <2>3
<1>13. ASSUME NEW p \in Processes, ComposeRead(p) \/ ComposeRewrite(p)
       PROVE  Pulling'
  <2>1. /\ Running(p) /\ UNCHANGED <<file, images>> /\ mishaps \subseteq mishaps'
        /\ Head(pr[p].todo) \in {"compose", "rewrite"}
    BY <1>13 DEF ComposeRead, ComposeRewrite, At, Err, Note, store
  <2>2. Fits(p, pr[p]) /\ Belongs(pr[p])
    BY <1>1, <2>1, Here
  <2>3. p # "switch"
    BY <2>1, <2>2 DEF Fits, Belongs
  <2>4. CASE End(p)
    BY <1>9, <2>1, <2>3, <2>4
  <2>5. CASE ~End(p)
    <3>1. PICK d : pr' = [pr EXCEPT ![p].todo = Tail(@), ![p].defs = d]
      BY <1>13, <2>5 DEF ComposeRead, ComposeRewrite
    <3>2. pr' = [pr EXCEPT ![p] = [pr[p] EXCEPT !.todo = Tail(pr[p].todo), !.defs = d]]
      BY <3>1
    <3> QED
      BY <1>8, <2>1, <2>3, <3>2
  <2> QED
    BY <2>4, <2>5
<1>14. ASSUME NEW p \in Processes, \/ StopDocker(p) \/ LoadSpecialService(p) \/ StartDocker(p)
                                   \/ UpDocker(p) \/ EngineScripts(p) \/ ConsoleDone(p)
       PROVE  Pulling'
  <2>1. /\ Running(p) /\ UNCHANGED file /\ images \subseteq images'
        /\ Head(pr[p].todo) \in {"stop-docker", "load-special", "start-docker", "up-docker",
                                  "scripts", "done"}
        /\ Fail(p) \/ (mishaps \subseteq mishaps' /\ (Go(p) \/ (StartDocker(p) /\ End(p))))
    BY <1>14 DEF StopDocker, LoadSpecialService, StartDocker, UpDocker, EngineScripts,
       ConsoleDone, At, Fail, Err, Note, store
  <2>2. CASE Go(p)
    <3>1. CASE Fail(p)
      BY <1>5, <3>1
    <3>2. CASE ~Fail(p)
      <4>1. ~(p = "switch" /\ End(p)) \/ Head(pr[p].todo) = "start-docker" \/ Go(p)
        BY <2>2
      <4>x. PICK x : x = [pr[p] EXCEPT !.todo = Tail(pr[p].todo)]
        OBVIOUS
      <4>2. IsRecord(pr[p])
        BY <1>1, <2>1, Here DEF Good
      <4>3. pr' = [pr EXCEPT ![p] = x] /\ x.todo = Tail(pr[p].todo)
        BY <2>2, <4>2, <4>x DEF Go, IsRecord
      <4> QED
        BY <2>1, <3>2, <4>3, PullingOn
    <3> QED
      BY <3>1, <3>2
  <2>3. CASE StartDocker(p) /\ End(p) /\ ~Fail(p)
    <3>1. Head(pr[p].todo) = "start-docker"
      BY <2>3 DEF StartDocker, At
    <3> QED
      BY <1>9, <2>1, <2>3, <3>1
  <2> QED
    BY <1>5, <2>1, <2>2, <2>3
<1>15. ASSUME NEW p \in Processes, StopConsole(p)
       PROVE  Pulling'
  <2>1. /\ Running(p) /\ Head(pr[p].todo) = "stop-console" /\ UNCHANGED <<file, images>>
        /\ mishaps \subseteq mishaps'
    BY <1>15 DEF StopConsole, At, Err, Note, store
  <2>2. p = "switch"
    BY <1>1, <2>1, OnlySwitch DEF IInv, Running
  <2>x. PICK x : x = [pr[p] EXCEPT !.todo = Tail(pr[p].todo)]
    OBVIOUS
  <2>3. x.todo = Tail(pr[p].todo) /\ x.arg = pr[p].arg
    <3>1. IsRecord(pr[p])
      BY <1>1, <2>1, Here DEF Good
    <3> QED
      BY <3>1, <2>x DEF IsRecord
  <2>4. pr'["switch"] = x
    <3>1. CASE Go(p)
      BY <1>1, <2>2, <2>x, <3>1 DEF Go, Tracks, Processes
    <3>2. CASE ~Go(p)
      BY <1>15, <2>2, <2>x, <3>2 DEF StopConsole, InConsole, Processes
    <3> QED
      BY <3>1, <3>2
  <2> QED
    BY <1>1, <2>1, <2>2, <2>3, <2>4, PullingSwitch
<1>16. ASSUME NEW p \in Processes, UpConsole(p)
       PROVE  Pulling'
  <2>1. CASE Fail(p)
    BY <1>5, <2>1
  <2>2. CASE ~Fail(p)
    <3>1. /\ Running(p) /\ Head(pr[p].todo) = "up-console" /\ UNCHANGED file
          /\ images' = images \cup ({pr[p].arg} \ {Default}) /\ mishaps \subseteq mishaps'
      BY <1>16, <2>2 DEF UpConsole, At, Note
    <3>2. p = "switch" /\ Left(pr["switch"]) = 2
      BY <1>1, <3>1, OnlySwitch DEF IInv, Running
    <3> QED
      BY <3>1, <3>2 DEF Pulling
  <2> QED
    BY <2>1, <2>2
<1>17. ASSUME NEW p \in Processes, Launch(p)
       PROVE  Pulling'
  <2>1. CASE Fail(p)
    BY <1>5, <2>1
  <2>2. CASE ~Fail(p)
    <3>1. /\ Running(p) /\ Head(pr[p].todo) = "launch" /\ UNCHANGED <<file, images, mishaps>>
          /\ pr' = [pr EXCEPT ![p] = Idle,
                     !["switch"] = IF Running("switch") /\ @.arg = pr[p].arg THEN @
                                   ELSE Process("switch", pr[p].arg)]
      BY <1>17, <2>2 DEF Launch, At, store
    <3>2. Fits(p, pr[p]) /\ Belongs(pr[p])
      BY <1>1, <3>1, Here
    <3>3. p # "switch"
      BY <3>1, <3>2 DEF Fits, Belongs
    <3>y. PICK y : y = Process("switch", pr[p].arg)
      OBVIOUS
    <3>4. pr'["switch"] = pr["switch"] \/ pr'["switch"] = y
      BY <1>1, <3>1, <3>3, <3>y DEF Tracks, Processes
    <3>5. Left(y) >= 3 /\ y.todo # <<>>
      <4>1. y.todo = SwitchConsole(pr[p].arg)
        BY <3>y DEF Process, Idle, Steps
      <4>2. Len(SwitchConsole(pr[p].arg)) \in {7, 8} /\ SwitchConsole(pr[p].arg) # <<>>
        BY DEF SwitchConsole
      <4>3. Left(y) = Len(SwitchConsole(pr[p].arg))
        BY <4>1 DEF Left
      <4>n. PICK n : n = Len(SwitchConsole(pr[p].arg))
        OBVIOUS
      <4>4. n \in {7, 8}
        BY ONLY <4>2, <4>n
      <4>5. n >= 3
        BY ONLY <4>4
      <4> QED
        BY ONLY <4>1, <4>2, <4>3, <4>n, <4>5
    <3>6. CASE pr'["switch"] = y
      BY <3>5, <3>6 DEF Pulling, Running
    <3>7. CASE pr'["switch"] = pr["switch"]
      BY <3>1, <3>7, PullingElse
    <3> QED
      BY <3>4, <3>6, <3>7
  <2> QED
    BY <2>1, <2>2
<1>18. ASSUME NEW p \in Processes, SetupSSH(p) \/ FirstRun(p) \/ FirstRunEnds(p)
       PROVE  Pulling'
  <2>1. /\ Running(p) /\ Head(pr[p].todo) \in {"ssh", "first-run", "wait"}
        /\ UNCHANGED <<file, images, mishaps>>
    BY <1>18 DEF SetupSSH, FirstRun, FirstRunEnds, At, store
  <2>2. Fits(p, pr[p]) /\ Belongs(pr[p])
    BY <1>1, <2>1, Here
  <2>3. p # "switch"
    BY <2>1, <2>2 DEF Fits, Belongs
  <2>4. pr'["switch"] = pr["switch"]
    BY <1>1, <1>18, <2>3 DEF SetupSSH, FirstRun, FirstRunEnds, Go, End, Tracks, Processes
  <2> QED
    BY <2>1, <2>4, PullingElse
<1>19. ASSUME NEW p \in Processes, Step(p)
       PROVE  Pulling'
  BY <1>7, <1>10, <1>11, <1>12, <1>13, <1>14, <1>15, <1>16, <1>17, <1>18, <1>19 DEF Step
<1> QED
  BY <1>2, <1>3, <1>4, <1>6, <1>19 DEF Next

\* consoleEnable, engineEnable, engineSwitch and switch-console: what the next boot
\* will use is on the disk, for any interleaving of commands that write the file
\* from what they read earlier; a console that was not to be pulled first is there
\* when its switch has ended well.
THEOREM NextBootIsStaged == Spec => []ConfiguredIsStaged
<1>1. Init => Pulling
  BY NewSystem DEF Init, Pulling
<1>2. IInv /\ Pulling /\ [Next]_vars => Pulling'
  BY PullingNext
<1>3. IInv /\ Pulling => ConfiguredIsStaged
  <2> SUFFICES ASSUME IInv, Pulling
               PROVE  ConfiguredIsStaged
    OBVIOUS
  <2>1. OnDisk(file, images, mishaps)
    BY DEF IInv, Staged
  <2> QED
    BY <2>1 DEF OnDisk, Pulling, ConfiguredIsStaged
<1> QED
  BY <1>1, <1>2, <1>3, Inductive, PTL DEF Spec

\* engine create and engine rm: an engine that is included is defined, unless
\* commands for one engine overlapped or writing the compose file was cut short.
THEOREM IncludedAreDefined == Spec => []IncludedIsDefined
<1>1. IInv => IncludedIsDefined
  <2> SUFFICES ASSUME IInv, {"race", "crash", "cut", "torn"} \cap mishaps = {},
                      \A p \in Processes : ~At(p, "rewrite")
               PROVE  Included(file) \subseteq Defined
    BY DEF IncludedIsDefined
  <2>1. compose # Torn /\ \A d \in Included(file) : Effective(d)
    BY DEF IInv, OneAtATime, Rewriting
  <2>2. \A d \in Included(file) : d \in Dinds /\ compose[d]
    BY <2>1 DEF Effective, Rewriting, Included
  <2> QED
    BY <2>1, <2>2 DEF Defined
<1> QED
  BY <1>1, Inductive, PTL

\* setupSSH: all consoles of a machine have one host key.
THEOREM HostKeyIsKept == Spec => []OneHostKey
<1>1. IInv => OneHostKey
  BY DEF IInv, Keys, OneHostKey, Data
<1> QED
  BY <1>1, Inductive, PTL

\* What a process has read of the file it keeps until it writes or ends.
LEMMA GoneOn ==
  ASSUME Tracks, NEW p \in Processes, NEW x, pr' = [pr EXCEPT ![p] = x],
         x.read \in {None, pr[p].read}
  PROVE  \A q \in Processes : pr'[q].read \in {None, pr[q].read}
<1>1. pr'[p] = x /\ \A q \in Processes \ {p} : pr'[q] = pr[q]
  BY Updated
<1> QED
  BY <1>1

\* Likewise for the steps that just go on or end.
LEMMA GoneOrEnded ==
  ASSUME Tracks, NEW p \in Processes, Go(p) \/ End(p)
  PROVE  \A q \in Processes : pr'[q].read \in {None, pr[q].read}
<1>1. IsRecord(pr[p])
  BY DEF Tracks, Good
<1>2. CASE Go(p)
  <2>x. PICK x : x = [pr[p] EXCEPT !.todo = Tail(pr[p].todo)]
    OBVIOUS
  <2>1. pr' = [pr EXCEPT ![p] = x] /\ x.read = pr[p].read
    BY <1>1, <1>2, <2>x DEF Go, IsRecord
  <2> QED
    BY <2>1, GoneOn
<1>3. CASE End(p)
  <2>x. PICK x : x = Idle
    OBVIOUS
  <2>1. pr' = [pr EXCEPT ![p] = x] /\ x.read = None
    BY <1>3, <2>x DEF End, Idle
  <2> QED
    BY <2>1, GoneOn
<1> QED
  BY <1>2, <1>3

\* The file is written by Set only, and read by Set only; nothing else reads or
\* writes it.
LEMMA Views ==
  ASSUME IInv, [Next]_vars
  PROVE  \/ UNCHANGED file /\ \A q \in Processes : pr'[q].read \in {None, pr[q].read}
         \/ \E p \in Processes : SetRead(p)
         \/ \E p \in Processes :
               /\ At(p, "write") /\ file' = Modified(p)
               /\ pr' = [pr EXCEPT ![p].todo = Tail(@), ![p].read = None]
<1> DEFINE Quiet == UNCHANGED file /\ \A q \in Processes : pr'[q].read \in {None, pr[q].read}
<1>1. Tracks /\ \A p \in Processes : IsRecord(pr[p])
  BY DEF IInv, Tracks, Good
<1>2. CASE UNCHANGED vars
  BY <1>2 DEF vars, store
<1>3. CASE Docker
  BY <1>3 DEF Docker, UserDocker, StartInConsole, DockerInit, store
<1>4. CASE Reboot
  <2>1. UNCHANGED file /\ pr' = Booted
    BY <1>4 DEF Reboot, store
  <2>2. \A q \in Processes : pr'[q].read = None
    BY <2>1, AfterBoot
  <2> QED
    BY <2>1, <2>2
<1>5. ASSUME NEW p \in Processes, Give(p)
      PROVE  Quiet
  <2>1. PICK c : pr' = [pr EXCEPT ![p] = Process(c.do, c.arg)]
    BY <1>5 DEF Give
  <2>x. PICK x : x = Process(c.do, c.arg)
    OBVIOUS
  <2>2. x.read = None
    BY <2>x DEF Process, Idle
  <2> QED
    BY <1>1, <1>5, <2>1, <2>2, <2>x, GoneOn DEF Give, store
<1>6. ASSUME NEW p \in Processes,
             UNCHANGED file, Go(p) \/ End(p)
      PROVE  Quiet
  BY <1>1, <1>6, GoneOrEnded
<1>7. ASSUME NEW p \in Processes, Load(p)
      PROVE  Quiet
  <2>1. UNCHANGED file
    BY <1>7 DEF Load, store
  <2>2. CASE End(p)
    BY <1>6, <2>1, <2>2
  <2>3. CASE ~End(p)
    <3>r. PICK r : r = pr[p]
      OBVIOUS
    <3>1. \/ \E c : pr' = [pr EXCEPT ![p].todo = Tail(@), ![p].base = file, ![p].cfg = c]
          \/ pr' = [pr EXCEPT ![p] = [@ EXCEPT !.todo = <<"script">>]]
      BY <1>7, <2>3 DEF Load, Unavailable, End
    <3>2. CASE pr' = [pr EXCEPT ![p] = [@ EXCEPT !.todo = <<"script">>]]
      <4>x. PICK x : x = [r EXCEPT !.todo = <<"script">>]
        OBVIOUS
      <4>1. pr' = [pr EXCEPT ![p] = x] /\ x.read = r.read
        BY <1>1, <3>2, <3>r, <4>x DEF IsRecord
      <4> QED
        BY <1>1, <2>1, <3>r, <4>1, GoneOn
    <3>3. CASE \E c : pr' = [pr EXCEPT ![p].todo = Tail(@), ![p].base = file, ![p].cfg = c]
      <4>c. PICK c : pr' = [pr EXCEPT ![p].todo = Tail(@), ![p].base = file, ![p].cfg = c]
        BY <3>3
      <4>x. PICK x : x = [r EXCEPT !.todo = Tail(r.todo), !.base = file, !.cfg = c]
        OBVIOUS
      <4>1. pr' = [pr EXCEPT ![p] = x]
        BY <3>r, <4>c, <4>x
      <4>2. IsRecord(r)
        BY <1>1, <3>r
      <4>3. x.read = r.read
        BY <4>2, <4>x DEF IsRecord
      <4> QED
        BY <1>1, <2>1, <3>r, <4>1, <4>3, GoneOn
    <3> QED
      BY <3>1, <3>2, <3>3
  <2> QED
    BY <2>2, <2>3
<1>8. ASSUME NEW p \in Processes, ComposeRead(p) \/ ComposeRewrite(p)
      PROVE  Quiet
  <2>1. UNCHANGED file
    BY <1>8 DEF ComposeRead, ComposeRewrite, store
  <2>2. CASE End(p)
    BY <1>6, <2>1, <2>2
  <2>3. CASE ~End(p)
    <3>r. PICK r : r = pr[p]
      OBVIOUS
    <3>d. PICK d : pr' = [pr EXCEPT ![p].todo = Tail(@), ![p].defs = d]
      BY <1>8, <2>3 DEF ComposeRead, ComposeRewrite
    <3>x. PICK x : x = [r EXCEPT !.todo = Tail(r.todo), !.defs = d]
      OBVIOUS
    <3>1. pr' = [pr EXCEPT ![p] = x]
      BY <3>d, <3>r, <3>x
    <3>2. IsRecord(r)
      BY <1>1, <3>r
    <3>3. x.read = r.read
      BY <3>2, <3>x DEF IsRecord
    <3> QED
      BY <1>1, <2>1, <3>r, <3>1, <3>3, GoneOn
  <2> QED
    BY <2>2, <2>3
<1>9. ASSUME NEW p \in Processes,
             \/ NoPull(p) \/ StageServices(p) \/ PreFlightValidate(p) \/ ComposeTruncate(p) \/ Script(p)
             \/ StopDind(p) \/ CheckIncluded(p) \/ StopDocker(p) \/ LoadSpecialService(p)
             \/ StartDocker(p) \/ UpDocker(p) \/ EngineScripts(p) \/ ConsoleDone(p)
             \/ FirstRunEnds(p)
      PROVE  Quiet
  <2>1. UNCHANGED file /\ (Go(p) \/ End(p))
    BY <1>9 DEF NoPull, StageServices, PreFlightValidate, ComposeTruncate, Script, StopDind,
       CheckIncluded, StopDocker, LoadSpecialService, StartDocker, UpDocker, EngineScripts,
       ConsoleDone, FirstRunEnds, Fail, store
  <2> QED
    BY <1>6, <2>1
<1>10. ASSUME NEW p \in Processes, StopConsole(p)
       PROVE  Quiet
  <2>1. UNCHANGED file
    BY <1>10 DEF StopConsole, store
  <2>2. CASE Go(p)
    BY <1>6, <2>1, <2>2
  <2>3. CASE ~Go(p)
    <3>x. PICK x : x = [pr[p] EXCEPT !.todo = Tail(pr[p].todo)]
      OBVIOUS
    <3>1. x.read = pr[p].read /\ Idle.read = None
      BY <1>1, <3>x DEF IsRecord, Idle
    <3>2. \A q \in Processes : pr'[q] \in {Idle, pr[q]} \/ (q = p /\ pr'[q] = x)
      BY <1>10, <2>3, <3>x DEF StopConsole
    <3> QED
      BY <2>1, <3>1, <3>2
  <2> QED
    BY <2>2, <2>3
<1>11. ASSUME NEW p \in Processes, UpConsole(p)
       PROVE  Quiet
  <2>1. UNCHANGED file
    BY <1>11 DEF UpConsole, Fail, store
  <2>2. CASE Go(p) \/ End(p)
    BY <1>6, <2>1, <2>2
  <2>3. CASE ~Go(p) /\ ~End(p)
    <3>1. PICK y : y = Process("init", None)
      OBVIOUS
    <3>2. y.read = None /\ Idle.read = None
      BY <3>1 DEF Process, Idle
    <3>3. pr' = [q \in Processes |-> IF q = "init" THEN y
                                     ELSE IF q \in InConsole THEN Idle
                                     ELSE [pr[q] EXCEPT !.todo = Tail(@)]]
      BY <1>11, <2>3, <3>1 DEF UpConsole, Fail
    <3>4. ASSUME NEW q \in Processes
          PROVE  pr'[q].read \in {None, pr[q].read}
      <4>x. PICK x : x = [pr[q] EXCEPT !.todo = Tail(pr[q].todo)]
        OBVIOUS
      <4>1. x.read = pr[q].read
        BY <1>1, <4>x DEF IsRecord
      <4>2. pr'[q] \in {y, Idle, x}
        BY <3>3, <4>x
      <4> QED
        BY <3>2, <4>1, <4>2
    <3> QED
      BY <2>1, <3>4
  <2> QED
    BY <2>2, <2>3
<1>12. ASSUME NEW p \in Processes, Launch(p) \/ FirstRun(p)
       PROVE  Quiet
  <2>1. UNCHANGED file
    BY <1>12 DEF Launch, FirstRun, Fail, store
  <2>2. CASE End(p)
    BY <1>6, <2>1, <2>2
  <2>3. CASE ~End(p)
    <3>1. \A do, arg : Process(do, arg).read = None
      BY DEF Process, Idle
    <3>2. Idle.read = None
      BY DEF Idle
    <3>3. CASE Launch(p)
      <4>1. pr' = [pr EXCEPT ![p] = Idle,
                   !["switch"] = IF Running("switch") /\ @.arg = pr[p].arg THEN @
                                 ELSE Process("switch", pr[p].arg)]
        BY <2>3, <3>3 DEF Launch, Fail
      <4>y. PICK y : y = Process("switch", pr[p].arg)
        OBVIOUS
      <4>2. y.read = None
        BY <3>1, <4>y
      <4>3. \A q \in Processes : pr'[q] \in {Idle, pr[q], y}
        BY <1>1, <4>1, <4>y DEF Tracks
      <4> QED
        BY <2>1, <3>2, <4>2, <4>3
    <3>4. CASE FirstRun(p)
      <4>1. PICK new : pr' = [pr EXCEPT ![p].todo = <<"wait">>,
                                        !["first"] = Process("engine-switch", new)]
        BY <2>3, <3>4 DEF FirstRun
      <4>y. PICK y : y = Process("engine-switch", new)
        OBVIOUS
      <4>x. PICK x : x = [pr[p] EXCEPT !.todo = <<"wait">>]
        OBVIOUS
      <4>2. y.read = None /\ x.read = pr[p].read
        BY <1>1, <3>1, <4>x, <4>y DEF IsRecord
      <4>3. pr' = [pr EXCEPT ![p] = x, !["first"] = y] \/ p = "first"
        BY <4>1, <4>x, <4>y
      <4>4. p # "first"
        <5>1. Running(p) /\ Head(pr[p].todo) = "first-run"
          BY <3>4 DEF FirstRun, At
        <5> QED
          BY <1>1, <5>1, OnlyInit
      <4>5. \A q \in Processes : pr'[q] = pr[q] \/ pr'[q] = y \/ (q = p /\ pr'[q] = x)
        BY <1>1, <4>3, <4>4 DEF Tracks
      <4> QED
        BY <2>1, <4>2, <4>5
    <3> QED
      BY <1>12, <3>3, <3>4
  <2> QED
    BY <2>2, <2>3
<1>13. ASSUME NEW p \in Processes, SetupSSH(p)
       PROVE  Quiet
  <2>1. UNCHANGED file
    BY <1>13 DEF SetupSSH, store
  <2>2. CASE Go(p)
    BY <1>6, <2>1, <2>2
  <2>3. CASE ~Go(p)
    <3>1. pr' = [pr EXCEPT ![p].todo = SubSeq(@, 6, Len(@))]
      BY <1>13, <2>3 DEF SetupSSH
    <3>t. PICK t : t = SubSeq(pr[p].todo, 6, Len(pr[p].todo))
      OBVIOUS
    <3>x. PICK x : x = [pr[p] EXCEPT !.todo = t]
      OBVIOUS
    <3>2. pr' = [pr EXCEPT ![p] = x]
      BY <3>1, <3>t, <3>x
    <3>3. x.read = pr[p].read
      BY <1>1, <3>x DEF IsRecord
    <3> QED
      BY <1>1, <2>1, <3>2, <3>3, GoneOn
  <2> QED
    BY <2>2, <2>3
<1>14. ASSUME NEW p \in Processes, SetWrite(p)
       PROVE  \/ Quiet
              \/ /\ At(p, "write") /\ file' = Modified(p)
                 /\ pr' = [pr EXCEPT ![p].todo = Tail(@), ![p].read = None]
  <2>1. CASE Fail(p)
    <3>1. UNCHANGED file /\ End(p)
      BY <2>1 DEF Fail, store
    <3> QED
      BY <1>6, <3>1
  <2>2. CASE /\ pr' = [pr EXCEPT ![p].todo = Tail(@), ![p].read = None] /\ UNCHANGED file
    <3>r. PICK r : r = pr[p]
      OBVIOUS
    <3>x. PICK x : x = [r EXCEPT !.todo = Tail(r.todo), !.read = None]
      OBVIOUS
    <3>1. pr' = [pr EXCEPT ![p] = x]
      BY <2>2, <3>r, <3>x
    <3>2. IsRecord(r)
      BY <1>1, <3>r
    <3>3. x.read = None
      BY <3>2, <3>x DEF IsRecord
    <3> QED
      BY <1>1, <2>2, <3>1, <3>3, GoneOn
  <2> QED
    BY <1>14, <2>1, <2>2 DEF SetWrite, WriteFileAtomic, store
<1>15. ASSUME NEW p \in Processes, Step(p), ~SetRead(p), ~SetWrite(p)
       PROVE  Quiet
  BY <1>7, <1>8, <1>9, <1>10, <1>11, <1>12, <1>13, <1>15 DEF Step
<1> QED
  BY <1>2, <1>3, <1>4, <1>5, <1>14, <1>15 DEF Next

\* Set and the commands that call it: a command changes what it is about, and leaves
\* the rest as it found it, however late it writes.
THEOREM NothingElseChanges == Spec => OthersKept
<1> DEFINE Keeps ==
      \A p \in Processes :
        At(p, "write") /\ pr'[p].todo # pr[p].todo /\ file' # file =>
            LET r == pr[p]
                new == LoadConfig(file')
                seen == IF r.arg \in Names THEN {r.base, r.read} ELSE {r.read}
            IN  /\ \A n \in Names \ {r.arg} : \E c \in seen : new.svc[n] = LoadConfig(c).svc[n]
                /\ r.arg \notin Consoles => new.console = LoadConfig(r.read).console
                /\ r.arg \notin Engines => new.engine = LoadConfig(r.read).engine
<1>1. IInv /\ [Next]_vars => Keeps
  <2> SUFFICES ASSUME IInv, [Next]_vars, NEW p \in Processes,
                      At(p, "write"), pr'[p].todo # pr[p].todo, file' # file, NEW r, r = pr[p]
               PROVE  /\ \A n \in Names \ {r.arg} :
                            \/ LoadConfig(file').svc[n] = LoadConfig(r.read).svc[n]
                            \/ r.arg \in Names /\ LoadConfig(file').svc[n] = LoadConfig(r.base).svc[n]
                      /\ r.arg \notin Consoles =>
                            LoadConfig(file').console = LoadConfig(r.read).console
                      /\ r.arg \notin Engines =>
                            LoadConfig(file').engine = LoadConfig(r.read).engine
    OBVIOUS
  <2>1. Tracks /\ Data
    BY DEF IInv
  <2>2. PICK q \in Processes :
           /\ At(q, "write") /\ file' = Modified(q)
           /\ pr' = [pr EXCEPT ![q].todo = Tail(@), ![q].read = None]
    BY Views DEF SetRead, store
  <2>3. p = q
    BY <2>1, <2>2 DEF Tracks
  <2>f. PICK f : f = Modified(p)
    OBVIOUS
  <2>4. /\ \A n \in Names \ {r.arg} :
              \/ LoadConfig(f).svc[n] = LoadConfig(r.read).svc[n]
              \/ r.arg \in Names /\ LoadConfig(f).svc[n] = LoadConfig(r.base).svc[n]
        /\ r.arg \notin Consoles => LoadConfig(f).console = LoadConfig(r.read).console
        /\ r.arg \notin Engines => LoadConfig(f).engine = LoadConfig(r.read).engine
    BY <2>1, <2>f, WriteFound
  <2>5. file' = f
    BY <2>2, <2>3, <2>f
  <2> QED
    BY <2>4, <2>5
<1> QED
  BY <1>1, Inductive, PTL DEF Spec, OthersKept
=============================================================================
