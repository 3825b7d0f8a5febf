--------------------------- MODULE ClientBackoff ---------------------------
(***************************************************************************)
(* Getting a client for a Docker daemon that may not be up yet.  ClientOK  *)
(* asks the daemon once for every value a backoff goroutine sends on its   *)
(* unbuffered channel, and closes the backoff when it leaves.  NewClient   *)
(* calls ClientOK; the services of a project share one client, for which   *)
(* the first of them calls it under a sync.Once.                           *)
(***************************************************************************)
EXTENDS Integers

CONSTANTS
    Direct,         \* callers of NewClient
    Shared,         \* goroutines of services, in ClientFactory.Create
    MaxRestarts     \* bound: how often the daemon goes down again

Caller == Direct \cup Shared

ASSUME CallerAssumption ==
    /\ Direct \cap Shared = {}
    /\ MaxRestarts \in Nat

VARIABLES
    daemon, restarts,   \* whether the daemon answers
    once,               \* the sync.Once of the factory
    pc, err,            \* ClientOK: where it is, whether it timed out
    answered,           \* history: the daemon answered this caller's test
    bpc, late           \* Backoff.backoff: where it is, whether time is up

docker == <<daemon, restarts>>
caller == <<pc, err, answered>>
backoff == <<bpc, late>>
vars == <<docker, once, caller, backoff>>

Init ==
    /\ daemon \in BOOLEAN /\ restarts = 0
    /\ once = "fresh"
    /\ pc = [c \in Caller |-> "call"]
    /\ err = [c \in Caller |-> FALSE]
    /\ answered = [c \in Caller |-> FALSE]
    /\ bpc = [c \in Caller |-> "none"]
    /\ late = [c \in Caller |-> FALSE]

Goto(c, l) == pc' = [pc EXCEPT ![c] = l]
BGoto(c, l) == bpc' = [bpc EXCEPT ![c] = l]

\* A panic in one goroutine ends the process of all that share the factory.
Alive(c) == c \in Shared => \A d \in Shared : pc[d] # "panic"

-----------------------------------------------------------------------------
DaemonUp ==
    /\ ~daemon
    /\ daemon' = TRUE
    /\ UNCHANGED <<restarts, once, caller, backoff>>

DaemonDown ==
    /\ daemon /\ restarts < MaxRestarts
    /\ daemon' = FALSE /\ restarts' = restarts + 1
    /\ UNCHANGED <<once, caller, backoff>>

-----------------------------------------------------------------------------
(* NewClient, Create and ClientOK.                                         *)

\* backoff.Start: channels are made and the goroutine begins.
Call(c) ==
    /\ Alive(c) /\ pc[c] = "call"
    /\ c \in Shared => once = "fresh"
    /\ once' = IF c \in Shared THEN "running" ELSE once
    /\ Goto(c, "range") /\ BGoto(c, "deadline")
    /\ UNCHANGED <<docker, err, answered, late>>

\* Mutant: once.Do does not make the others wait for the first.
OnceDone_NoWait(c) ==
    /\ Alive(c) /\ c \in Shared /\ pc[c] = "call"
    /\ once # "fresh"
    /\ Goto(c, "returned")
    /\ UNCHANGED <<docker, once, err, answered, backoff>>

\* once.Do returns at once when its function has returned before.
OnceDone(c) ==
    /\ Alive(c) /\ c \in Shared /\ pc[c] = "call"
    /\ once = "done"
    /\ Goto(c, "returned")
    /\ UNCHANGED <<docker, once, err, answered, backoff>>

\* client.Info
Test(c) ==
    /\ Alive(c) /\ pc[c] = "test"
    /\ answered' = [answered EXCEPT ![c] = daemon]
    /\ Goto(c, IF daemon THEN "close" ELSE "range")
    /\ UNCHANGED <<docker, once, err, backoff>>

\* What follows ClientOK: NewClient returns its error, the factory panics.
Leave(c) ==
    /\ Alive(c) /\ pc[c] = "leave"
    /\ Goto(c, IF c \in Shared /\ err[c] THEN "panic" ELSE "returned")
    /\ once' = IF c \in Shared THEN "done" ELSE once
    /\ UNCHANGED <<docker, err, answered, backoff>>

-----------------------------------------------------------------------------
(* Backoff.backoff; a send and its receive are one step.                   *)

\* Mutant: MaxMillis is taken for nanoseconds.
Deadline_Early(c) ==
    /\ Alive(c) /\ bpc[c] = "deadline"
    /\ \E l \in {"timeout", "select"} : BGoto(c, l)
    /\ UNCHANGED <<docker, once, caller, late>>

\* Time is looked at before each value.
Deadline(c) ==
    /\ Alive(c) /\ bpc[c] = "deadline"
    /\ BGoto(c, IF late[c] THEN "timeout" ELSE "select")
    /\ UNCHANGED <<docker, once, caller, late>>

\* Mutant: the caller takes the value for one to go on with.
SendFalse_Ignored(c) ==
    /\ Alive(c) /\ bpc[c] = "timeout" /\ pc[c] = "range"
    /\ BGoto(c, "select") /\ Goto(c, "test")
    /\ UNCHANGED <<docker, once, err, answered, late>>

\* b.c <- false, outside of the select
SendFalse(c) ==
    /\ Alive(c) /\ bpc[c] = "timeout" /\ pc[c] = "range"
    /\ BGoto(c, "select") /\ Goto(c, "close")
    /\ err' = [err EXCEPT ![c] = TRUE]
    /\ UNCHANGED <<docker, once, answered, late>>

\* b.c <- writeVal
SendTrue(c) ==
    /\ Alive(c) /\ bpc[c] = "select" /\ pc[c] = "range"
    /\ BGoto(c, "sleep") /\ Goto(c, "test")
    /\ UNCHANGED <<docker, once, err, answered, late>>

\* Close sends done, the goroutine closes both channels and returns.
Done(c) ==
    /\ Alive(c) /\ bpc[c] = "select" /\ pc[c] = "close"
    /\ BGoto(c, "ended") /\ Goto(c, "leave")
    /\ UNCHANGED <<docker, once, err, answered, late>>

\* time.Sleep; its length, doubled up to a limit, is left out.
Sleep(c) ==
    /\ Alive(c) /\ bpc[c] = "sleep"
    /\ BGoto(c, "deadline")
    /\ UNCHANGED <<docker, once, caller, late>>

\* MaxMillis go by.
TimePasses(c) ==
    /\ Alive(c) /\ bpc[c] \notin {"none", "ended"} /\ ~late[c]
    /\ late' = [late EXCEPT ![c] = TRUE]
    /\ UNCHANGED <<docker, once, caller, bpc>>

-----------------------------------------------------------------------------
ClientOK(c) == Call(c) \/ OnceDone(c) \/ Test(c) \/ Leave(c)
Goroutine(c) == Deadline(c) \/ SendFalse(c) \/ SendTrue(c) \/ Done(c) \/ Sleep(c)

\* The caller waits in Close for a goroutine that waits for it: this is for ever.
Hangs(c) == pc[c] = "close" /\ bpc[c] = "timeout"

Stuck(c) == Hangs(c) \/ (c \in Shared /\ pc[c] = "call" /\ \E d \in Shared : Hangs(d))

\* Nobody has anything left to do.
Over ==
    /\ \A c \in Caller : pc[c] = "returned" \/ ~Alive(c) \/ Stuck(c)
    /\ UNCHANGED vars

Next ==
    \/ DaemonUp \/ DaemonDown
    \/ \E c \in Caller : ClientOK(c) \/ Goroutine(c) \/ TimePasses(c)
    \/ Over

Spec == Init /\ [][Next]_vars

\* Goroutines run, the daemon's answer or refusal arrives, and time passes.
FairSpec ==
    /\ Spec
    /\ \A c \in Caller : /\ WF_vars(ClientOK(c)) /\ WF_vars(Goroutine(c))
                         /\ WF_vars(TimePasses(c))

-----------------------------------------------------------------------------
(* Properties.                                                             *)

\* The values of the variables; while ClientOK is in its loop, or in Close, there
\* is a goroutine to talk to.
TypeOK ==
    /\ daemon \in BOOLEAN /\ restarts \in 0..MaxRestarts
    /\ once \in {"fresh", "running", "done"}
    /\ pc \in [Caller -> {"call", "range", "test", "close", "leave", "returned",
                          "panic"}]
    /\ err \in [Caller -> BOOLEAN] /\ answered \in [Caller -> BOOLEAN]
    /\ bpc \in [Caller -> {"none", "deadline", "timeout", "select", "sleep", "ended"}]
    /\ late \in [Caller -> BOOLEAN]
    /\ \A c \in Caller : pc[c] \in {"range", "test", "close"} =>
                             bpc[c] \notin {"none", "ended"}

\* A client that ClientOK or the factory returns without an error is for a
\* daemon that has answered, be it to the service that came first.
ClientAnswered ==
    \A c \in Caller : pc[c] = "returned" /\ ~err[c] =>
        answered[c] \/ (c \in Shared /\ \E d \in Shared : answered[d])

\* When ClientOK is left, its backoff goroutine has ended.
NoLeak ==
    \A c \in Caller :
        pc[c] \in {"leave", "returned", "panic"} => bpc[c] \in {"none", "ended"}

\* ClientOK hangs only after the daemon answered and time was up all the same,
\* while the test or the sleep before it took long; never before that.
HangsOnlyLate ==
    \A c \in Caller : Hangs(c) => late[c] /\ answered[c] /\ ~err[c]

\* Every caller gets its client or an error, or its process has ended, but for
\* one whose Close came too late, and for those that wait for it in once.Do.
Answers ==
    <>(\A c \in Caller : \/ pc[c] = "returned" \/ ~Alive(c) \/ Stuck(c))
=============================================================================
