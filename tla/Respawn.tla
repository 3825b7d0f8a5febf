------------------------------- MODULE Respawn -------------------------------
(***************************************************************************)
(* respawn, the first process of the console container: it runs one child  *)
(* per line of respawn.conf (gettys and sshd) and starts a child again     *)
(* whenever it ends, until a SIGTERM arrives or the child ends too often   *)
(* too fast.  One goroutine per line, one for the signal, and main.        *)
(***************************************************************************)
EXTENDS Integers, FiniteSets

CONSTANTS
    Line,       \* the lines of respawn.conf that hold a command
    MaxBlank,   \* bound on the number of blank and comment lines
    Limit       \* how often a child is restarted before its age is looked at

ASSUME RespawnAssumption ==
    IsFiniteSet(Line) /\ MaxBlank \in Nat /\ Limit \in Nat \ {0}

VARIABLES
    running, processes,     \* the variables the goroutines share
    linePc, child, count,   \* execute: where it is, its child, its counter
    sigterm, handler,       \* the channel for SIGTERM (one slot), its reader
    done, received,         \* doneChannel: lines sent, and read by main
    main,
    blank,                  \* how many blank and comment lines the file has
    lateStarts,             \* history: starts after running was cleared
    missed                  \* history: lines that were about to start or add a
                            \* child when termPids signalled

executeVars == <<linePc, child, count, lateStarts>>
signalVars  == <<sigterm, handler>>
mainVars    == <<received, main, blank>>
respawnVars == <<running, processes, executeVars, signalVars, done, mainVars,
                 missed>>

RespawnInit ==
    /\ running = TRUE /\ processes = {}
    /\ linePc = [l \in Line |-> "start"]
    /\ child = [l \in Line |-> "none"]
    /\ count = [l \in Line |-> 0]
    /\ lateStarts = [l \in Line |-> 0]
    /\ sigterm = 0 /\ handler = "idle"
    /\ done = {} /\ received = {} /\ main = "waiting"
    /\ blank \in 0..MaxBlank /\ missed = {}

LineTo(l, where) == linePc' = [linePc EXCEPT ![l] = where]
MainWaits == main = "waiting"   \* when main returns the process ends

-----------------------------------------------------------------------------
(* execute, the goroutine of line l.                                       *)

\* cmd.Start, which may fail.
Start(l) ==
    /\ MainWaits /\ linePc[l] = "start"
    /\ \/ child' = [child EXCEPT ![l] = "alive"] /\ LineTo(l, "add")
       \/ LineTo(l, "check") /\ UNCHANGED child
    /\ lateStarts' = [lateStarts EXCEPT ![l] = IF running THEN 0 ELSE @ + 1]
    /\ UNCHANGED <<running, processes, count, signalVars, done, mainVars, missed>>

addProcess(l) ==
    /\ MainWaits /\ linePc[l] = "add"
    /\ processes' = processes \cup {l}
    /\ LineTo(l, "wait")
    /\ UNCHANGED <<running, child, count, lateStarts, signalVars, done, mainVars, missed>>

\* cmd.Wait returns when the child has ended.
Wait(l) ==
    /\ MainWaits /\ linePc[l] = "wait"
    /\ child[l] = "dead"
    /\ child' = [child EXCEPT ![l] = "none"]
    /\ LineTo(l, "remove")
    /\ UNCHANGED <<running, processes, count, lateStarts, signalVars, done, mainVars, missed>>

removeProcess(l) ==
    /\ MainWaits /\ linePc[l] = "remove"
    /\ processes' = processes \ {l}
    /\ LineTo(l, "check")
    /\ UNCHANGED <<running, child, count, lateStarts, signalVars, done, mainVars, missed>>

\* The deferred send; the channel has room for every line.
Finish(l) == LineTo(l, "done") /\ done' = done \cup {l}

\* Mutant: running is looked at only when the age of the child is.
Check_OnlyAtLimit(l) ==
    /\ MainWaits /\ linePc[l] = "check"
    /\ \/ ~running /\ count[l] + 1 > Limit /\ Finish(l) /\ UNCHANGED count
       \/ /\ running \/ count[l] + 1 <= Limit
          /\ LineTo(l, "start") /\ UNCHANGED done
          /\ count' = [count EXCEPT ![l] = IF @ + 1 > Limit THEN 0 ELSE @ + 1]
    /\ UNCHANGED <<running, processes, child, lateStarts, signalVars, mainVars, missed>>

\* The rest of the loop: stop when told to, or when there were more than Limit
\* restarts and they took no more than a second.
Check(l) ==
    /\ MainWaits /\ linePc[l] = "check"
    /\ \/ ~running /\ Finish(l) /\ UNCHANGED count
       \/ /\ running /\ count[l] + 1 <= Limit
          /\ count' = [count EXCEPT ![l] = @ + 1]
          /\ LineTo(l, "start") /\ UNCHANGED done
       \/ /\ running /\ count[l] + 1 > Limit
          /\ \/ Finish(l) /\ UNCHANGED count
             \/ /\ count' = [count EXCEPT ![l] = 0]
                /\ LineTo(l, "start") /\ UNCHANGED done
    /\ UNCHANGED <<running, processes, child, lateStarts, signalVars, mainVars, missed>>

-----------------------------------------------------------------------------
(* setupSigterm, termPids, main and the children.                          *)

\* A SIGTERM that finds the channel full is dropped.
Sigterm ==
    /\ MainWaits
    /\ sigterm' = 1
    /\ UNCHANGED <<running, processes, executeVars, handler, done, mainVars, missed>>

\* termPids clears running,
ClearRunning ==
    /\ MainWaits /\ handler = "idle" /\ sigterm = 1
    /\ sigterm' = 0
    /\ running' = FALSE
    /\ handler' = "signal"
    /\ UNCHANGED <<processes, executeVars, done, mainVars, missed>>

\* Mutant: the first process only.
SignalAll_One ==
    /\ MainWaits /\ handler = "signal"
    /\ handler' = "idle"
    /\ \E first \in Line :
         child' = [l \in Line |-> IF l = first /\ l \in processes /\ child[l] = "alive"
                                  THEN "signalled" ELSE child[l]]
    /\ missed' = missed \cup {l \in Line : linePc[l] \in {"start", "add"}}
    /\ UNCHANGED <<running, processes, linePc, count, lateStarts, sigterm, done, mainVars>>

\* and then, under the lock, signals every child it knows of.
SignalAll ==
    /\ MainWaits /\ handler = "signal"
    /\ handler' = "idle"
    /\ child' = [l \in Line |-> IF l \in processes /\ child[l] = "alive"
                                THEN "signalled" ELSE child[l]]
    /\ missed' = missed \cup {l \in Line : linePc[l] \in {"start", "add"}}
    /\ UNCHANGED <<running, processes, linePc, count, lateStarts, sigterm, done, mainVars>>

\* A child ends by itself, or because of the signal.
ChildEnds(l) ==
    /\ child[l] \in {"alive", "signalled"}
    /\ child' = [child EXCEPT ![l] = "dead"]
    /\ UNCHANGED <<running, processes, linePc, count, lateStarts, signalVars, done, mainVars, missed>>

\* Mutant: main waits for one line only.
Receive_Once(l) ==
    /\ MainWaits /\ l \in done \ received
    /\ received' = received \cup {l} /\ main' = "returned"
    /\ UNCHANGED <<running, processes, executeVars, signalVars, done, blank, missed>>

\* main reads as many answers as there are lines, blank ones included.
Receive(l) ==
    /\ MainWaits /\ l \in done \ received
    /\ received' = received \cup {l}
    /\ main' = IF Cardinality(received') = Cardinality(Line) + blank
               THEN "returned" ELSE "waiting"
    /\ UNCHANGED <<running, processes, executeVars, signalVars, done, blank, missed>>

Execute(l) == Start(l) \/ addProcess(l) \/ Wait(l) \/ removeProcess(l) \/ Check(l)
Handler == ClearRunning \/ SignalAll

Returned == main = "returned" /\ UNCHANGED respawnVars

RespawnNext ==
    \/ \E l \in Line : Execute(l) \/ ChildEnds(l) \/ Receive(l)
    \/ Sigterm \/ Handler \/ Returned

RespawnSpec == RespawnInit /\ [][RespawnNext]_respawnVars

\* The goroutines run, a child that was sent SIGTERM ends, and the console is told
\* to stop once: docker stop sends one SIGTERM.  Nothing is assumed of a child that
\* was not signalled, and nothing of the SIGKILL that Docker sends in the end.
FairRespawn ==
    /\ RespawnSpec
    /\ \A l \in Line : /\ WF_respawnVars(Execute(l)) /\ WF_respawnVars(Receive(l))
                       /\ WF_respawnVars(child[l] = "signalled" /\ ChildEnds(l))
    /\ WF_respawnVars(Handler) /\ WF_respawnVars(running /\ Sigterm)

-----------------------------------------------------------------------------
(* Properties.                                                             *)

\* The values of the variables.
RespawnTypeOK ==
    /\ running \in BOOLEAN /\ processes \in SUBSET Line
    /\ linePc \in [Line -> {"start", "add", "wait", "remove", "check", "done"}]
    /\ child \in [Line -> {"none", "alive", "signalled", "dead"}]
    /\ count \in [Line -> 0..Limit] /\ lateStarts \in [Line -> Nat]
    /\ sigterm \in 0..1 /\ handler \in {"idle", "signal"}
    /\ done \in SUBSET Line /\ received \in SUBSET done
    /\ main \in {"waiting", "returned"} /\ blank \in Nat /\ missed \in SUBSET Line

\* Once running is cleared each line starts at most one more child: execute
\* may have passed its check of running just before.
LateStarts == \A l \in Line : lateStarts[l] <= 1

\* A child that termPids does not know of was started a moment ago: execute has
\* not come to addProcess yet.  And nobody is in the table without a child, or
\* with one that cmd.Wait has just collected.
Tracked ==
    \A l \in Line :
        /\ child[l] # "none" /\ l \notin processes => linePc[l] = "add"
        /\ child[l] = "none" /\ l \in processes => linePc[l] = "remove"

\* A child that is not told to end was started, or was about to be, while termPids
\* went through its table: running is cleared first, so that no other can follow.
Reached ==
    ~running /\ handler = "idle" => \A l \in Line : child[l] = "alive" => l \in missed

\* respawn returns only when every line has ended and its child is collected;
\* with a blank line or a comment in respawn.conf it never does.
CleanReturn ==
    main = "returned" => /\ blank = 0
                         /\ \A l \in Line : linePc[l] = "done" /\ child[l] = "none"

\* One SIGTERM is enough: every line ends with its child collected, and respawn
\* returns.  The exceptions are what the code leaves open: a line that was between
\* its check of running and addProcess when termPids signalled waits for a child
\* that nobody has told to end, and with a blank line or a comment run waits for an
\* answer that does not come although all lines have ended.
Ended(l) == linePc[l] = "done" /\ child[l] = "none"
Returns ==
    <>[](/\ \A l \in Line : Ended(l) \/ (l \in missed /\ child[l] = "alive")
         /\ main = "returned" \/ blank > 0 \/ \E l \in Line : ~Ended(l))
=============================================================================
