----------------------------- MODULE RetryProofs -----------------------------
(***************************************************************************)
(* The safety properties of the two components that try again what failed: *)
(* those of ClientBackoff, for any number of callers and restarts of the   *)
(* daemon, and those of Respawn, for any respawn.conf.                     *)
(***************************************************************************)
EXTENDS ClientBackoff, Respawn, FiniteSetTheorems, TLAPS

-----------------------------------------------------------------------------
(* ClientBackoff.                                                          *)

\* Which places ClientOK and its goroutine can be at together.
Together ==
    /\ \A c \in Caller : pc[c] = "call" => bpc[c] = "none"
    /\ \A c \in Caller : pc[c] \in {"leave", "panic"} => bpc[c] = "ended"
    /\ \A c \in Caller : pc[c] = "returned" => bpc[c] \in {"none", "ended"}
    /\ \A c \in Caller : pc[c] = "returned" /\ bpc[c] = "none" => c \in Shared
    /\ \A c \in Caller : bpc[c] = "timeout" => late[c]

\* What ClientOK knows when it has left its loop: an answer or an error.
Known ==
    /\ \A c \in Caller : err[c] => pc[c] \in {"close", "leave", "returned", "panic"}
    /\ \A c \in Caller : err[c] /\ pc[c] = "close" => bpc[c] = "select"
    /\ \A c \in Caller :
           answered[c] => ~err[c] /\ pc[c] \in {"close", "leave", "returned"}
    /\ \A c \in Caller : pc[c] \in {"close", "leave"} => answered[c] \/ err[c]
    /\ \A c \in Caller : pc[c] = "returned" /\ bpc[c] # "none" => answered[c] \/ err[c]

\* What the sync.Once stands for, and those that found it done.
OnceKnown ==
    /\ once = "done" => \E d \in Shared : answered[d] \/ pc[d] = "panic"
    /\ \A c \in Caller : pc[c] = "returned" /\ bpc[c] = "none" =>
           \E d \in Shared : answered[d]

IInv == TypeOK /\ Together /\ Known /\ OnceKnown

\* Init establishes the invariant.
LEMMA IInvInit == Init => IInv
BY CallerAssumption DEF Init, IInv, TypeOK, Together, Known, OnceKnown, Caller

\* Every step keeps the types, and a goroutine for ClientOK to talk to.
LEMMA TypeNext == ASSUME IInv, [Next]_vars PROVE TypeOK'
<1> USE CallerAssumption DEF IInv, TypeOK, Together, Goto, BGoto, docker, caller, backoff
<1>1. CASE DaemonUp
  BY <1>1 DEF DaemonUp
<1>2. CASE DaemonDown
  <2>1. restarts' \in 0..MaxRestarts
    BY <1>2 DEF DaemonDown
  <2>2. daemon' \in BOOLEAN /\ UNCHANGED <<once, pc, err, answered, bpc, late>>
    BY <1>2 DEF DaemonDown
  <2> QED
    BY <2>1, <2>2
<1>3. ASSUME NEW c \in Caller, ClientOK(c) PROVE TypeOK'
  <2>1. CASE Call(c)
    BY <2>1 DEF Call
  <2>2. CASE OnceDone(c)
    BY <2>2 DEF OnceDone
  <2>3. CASE Test(c)
    BY <2>3 DEF Test
  <2>4. CASE Leave(c)
    BY <2>4 DEF Leave
  <2> QED
    BY <1>3, <2>1, <2>2, <2>3, <2>4 DEF ClientOK
<1>4. ASSUME NEW c \in Caller, Goroutine(c) PROVE TypeOK'
  <2>1. CASE Deadline(c)
    BY <2>1 DEF Deadline
  <2>2. CASE SendFalse(c)
    BY <2>2 DEF SendFalse
  <2>3. CASE SendTrue(c)
    BY <2>3 DEF SendTrue
  <2>4. CASE Done(c)
    BY <2>4 DEF Done
  <2>5. CASE Sleep(c)
    BY <2>5 DEF Sleep
  <2> QED
    BY <1>4, <2>1, <2>2, <2>3, <2>4, <2>5 DEF Goroutine
<1>5. ASSUME NEW c \in Caller, TimePasses(c) PROVE TypeOK'
  BY <1>5 DEF TimePasses
<1>6. CASE UNCHANGED vars
  BY <1>6 DEF vars
<1> QED
  BY <1>1, <1>2, <1>3, <1>4, <1>5, <1>6 DEF Next, Over

\* Every step keeps ClientOK and its goroutine in step, and what both know.
LEMMA KnownNext == ASSUME IInv, [Next]_vars PROVE Together' /\ Known'
<1> USE DEF IInv, TypeOK, Together, Known, Goto, BGoto, docker, caller, backoff
<1>1. CASE DaemonUp
  BY <1>1 DEF DaemonUp
<1>2. CASE DaemonDown
  BY <1>2 DEF DaemonDown
<1>3. ASSUME NEW c \in Caller, ClientOK(c) PROVE Together' /\ Known'
  <2>1. CASE Call(c)
    BY <2>1 DEF Call
  <2>2. CASE OnceDone(c)
    BY <2>2 DEF OnceDone
  <2>3. CASE Test(c)
    BY <2>3 DEF Test
  <2>4. CASE Leave(c)
    BY <2>4 DEF Leave
  <2> QED
    BY <1>3, <2>1, <2>2, <2>3, <2>4 DEF ClientOK
<1>4. ASSUME NEW c \in Caller, Goroutine(c) PROVE Together' /\ Known'
  <2>1. CASE Deadline(c)
    BY <2>1 DEF Deadline
  <2>2. CASE SendFalse(c)
    BY <2>2 DEF SendFalse
  <2>3. CASE SendTrue(c)
    BY <2>3 DEF SendTrue
  <2>4. CASE Done(c)
    BY <2>4 DEF Done
  <2>5. CASE Sleep(c)
    BY <2>5 DEF Sleep
  <2> QED
    BY <1>4, <2>1, <2>2, <2>3, <2>4, <2>5 DEF Goroutine
<1>5. ASSUME NEW c \in Caller, TimePasses(c) PROVE Together' /\ Known'
  BY <1>5 DEF TimePasses
<1>6. CASE UNCHANGED vars
  BY <1>6 DEF vars
<1> QED
  BY <1>1, <1>2, <1>3, <1>4, <1>5, <1>6 DEF Next, Over

\* An answer is not taken back, and neither is a panic.
LEMMA AnswersStay ==
    ASSUME IInv, [Next]_vars, NEW d \in Caller
    PROVE  /\ answered[d] => answered'[d]
           /\ pc[d] = "panic" => pc'[d] = "panic"
<1> USE DEF IInv, TypeOK, Known, Goto, docker, caller
<1>1. ASSUME NEW c \in Caller, ClientOK(c)
      PROVE  (answered[d] => answered'[d]) /\ (pc[d] = "panic" => pc'[d] = "panic")
  BY <1>1 DEF ClientOK, Call, OnceDone, Test, Leave
<1>2. ASSUME NEW c \in Caller, Goroutine(c)
      PROVE  (answered[d] => answered'[d]) /\ (pc[d] = "panic" => pc'[d] = "panic")
  BY <1>2 DEF Goroutine, Deadline, SendFalse, SendTrue, Done, Sleep
<1>3. CASE UNCHANGED caller
  BY <1>3
<1> QED
  BY <1>1, <1>2, <1>3
     DEF Next, Over, vars, DaemonUp, DaemonDown, TimePasses

\* Every step keeps this: once.Do is done by an answer or a panic.
LEMMA OnceNext == ASSUME IInv, [Next]_vars PROVE OnceKnown'
<1>0. TypeOK /\ Together /\ Known /\ OnceKnown /\ Shared \subseteq Caller
  BY DEF IInv, Caller
<1>1. once' = "done" => \E d \in Shared : answered'[d] \/ pc'[d] = "panic"
  <2>1. CASE once = "done"
    BY <1>0, <2>1, AnswersStay DEF OnceKnown
  <2>2. CASE once # "done"
    <3>1. ASSUME once' = "done"
          PROVE  \E c \in Shared : Leave(c)
      BY <2>2, <3>1
         DEF Next, Over, vars, ClientOK, Goroutine, Call, OnceDone, Test, Leave,
             Deadline, SendFalse, SendTrue, Done, Sleep, DaemonUp, DaemonDown,
             TimePasses
    <3>2. ASSUME NEW c \in Shared, Leave(c)
          PROVE  answered'[c] \/ pc'[c] = "panic"
      BY <1>0, <3>2 DEF Leave, Goto, Known, TypeOK
    <3> QED
      BY <3>1, <3>2
  <2> QED
    BY <2>1, <2>2
<1>2. ASSUME NEW c \in Caller, pc'[c] = "returned", bpc'[c] = "none"
      PROVE  \E d \in Shared : answered'[d]
  <2>1. CASE pc[c] = "returned" /\ bpc[c] = "none"
    BY <1>0, <2>1, AnswersStay DEF OnceKnown
  <2>2. CASE ~(pc[c] = "returned" /\ bpc[c] = "none")
    <3>1. OnceDone(c)
      BY <1>0, <1>2, <2>2
         DEF Next, Over, vars, ClientOK, Goroutine, Call, OnceDone, Test, Leave,
             Deadline, SendFalse, SendTrue, Done, Sleep, DaemonUp, DaemonDown,
             TimePasses, TypeOK, Together, Goto, BGoto, docker, caller, backoff
    <3>2. PICK d \in Shared : answered[d] \/ pc[d] = "panic"
      BY <1>0, <3>1 DEF OnceDone, OnceKnown
    <3>3. answered[d]
      BY <3>1, <3>2 DEF OnceDone, Alive
    <3> QED
      BY <1>0, <3>2, <3>3, AnswersStay
  <2> QED
    BY <2>1, <2>2
<1> QED
  BY <1>1, <1>2 DEF OnceKnown

\* The invariant holds in every state of every behaviour.
THEOREM Invariance == Spec => []IInv
<1>1. IInv /\ [Next]_vars => IInv'
  BY TypeNext, KnownNext, OnceNext DEF IInv
<1> QED
  BY IInvInit, <1>1, PTL DEF Spec

\* ClientOK always has a goroutine to receive from and to close.
THEOREM TypeCorrect == Spec => []TypeOK
<1>1. IInv => TypeOK
  BY DEF IInv
<1> QED
  BY Invariance, <1>1, PTL

\* A client that is returned is one whose daemon has answered, also for those
\* services that only waited for once.Do.
THEOREM ReturnedClientsAnswered == Spec => []ClientAnswered
<1>1. IInv => ClientAnswered
  BY DEF IInv, Together, Known, OnceKnown, ClientAnswered
<1> QED
  BY Invariance, <1>1, PTL

\* ClientOK leaves no backoff goroutine behind.
THEOREM BackoffEnds == Spec => []NoLeak
<1>1. IInv => NoLeak
  BY DEF IInv, Together, NoLeak
<1> QED
  BY Invariance, <1>1, PTL

\* Close meets a goroutine stuck in its last send only when the daemon answered
\* after time was up.
THEOREM CloseHangsOnlyLate == Spec => []HangsOnlyLate
<1>1. IInv => HangsOnlyLate
  BY DEF IInv, Together, Known, HangsOnlyLate, Hangs
<1> QED
  BY Invariance, <1>1, PTL

-----------------------------------------------------------------------------
(* Respawn.                                                                *)

\* What execute has at each of its places: a child, an entry in the table.
Places ==
    /\ \A l \in Line : linePc[l] \in {"add", "wait"} <=> child[l] # "none"
    /\ \A l \in Line : linePc[l] \in {"wait", "remove"} <=> l \in processes
    /\ \A l \in Line : linePc[l] = "done" <=> l \in done

\* Only a line that was past its check of running can start once more, and it
\* has not done so yet.
AtMostOneMore ==
    \A l \in Line : /\ lateStarts[l] <= 1
                    /\ running \/ linePc[l] = "start" => lateStarts[l] = 0

\* main has returned only after an answer from every line.
AllAnswered == main = "returned" => blank = 0 /\ received = Line

\* After termPids has signalled, a line that has a child which it did not reach,
\* or will start one, is one that it missed.
Told ==
    ~running /\ handler = "idle" =>
        \A l \in Line : linePc[l] = "start" \/ child[l] = "alive" => l \in missed

RespInv == RespawnTypeOK /\ Places /\ AtMostOneMore /\ AllAnswered /\ Told

\* Init establishes the invariant.
LEMMA RespInit == ASSUME RespawnInit PROVE RespInv
BY RespawnAssumption DEF RespawnInit, RespInv, RespawnTypeOK, Places,
       AtMostOneMore, AllAnswered, Told

\* The goroutine of a line keeps the invariant.
LEMMA ExecuteKeeps ==
    ASSUME RespInv, NEW l \in Line, Execute(l)
    PROVE  RespInv'
<1> USE DEF RespInv, Places, AtMostOneMore, AllAnswered, Told, LineTo, MainWaits,
            signalVars, mainVars
<1>1. CASE Start(l)
  <2>1. RespawnTypeOK'
    BY <1>1 DEF Start, RespawnTypeOK
  <2>2. Places'
    BY <1>1 DEF Start, RespawnTypeOK
  <2>3. AtMostOneMore'
    BY <1>1 DEF Start, RespawnTypeOK
  <2>4. Told'
    BY <1>1 DEF Start, RespawnTypeOK
  <2> QED
    BY <1>1, <2>1, <2>2, <2>3, <2>4 DEF Start
<1>2. CASE addProcess(l)
  BY <1>2 DEF addProcess, RespawnTypeOK
<1>3. CASE Wait(l)
  BY <1>3 DEF Wait, RespawnTypeOK
<1>4. CASE removeProcess(l)
  BY <1>4 DEF removeProcess, RespawnTypeOK
<1>5. CASE Check(l)
  <2>1. RespawnTypeOK'
    BY <1>5, RespawnAssumption DEF Check, Finish, RespawnTypeOK
  <2>2. Places'
    BY <1>5 DEF Check, Finish, RespawnTypeOK
  <2>3. AtMostOneMore'
    BY <1>5 DEF Check, Finish, RespawnTypeOK
  <2>4. Told'
    BY <1>5 DEF Check, Finish, RespawnTypeOK
  <2> QED
    BY <1>5, <2>1, <2>2, <2>3, <2>4 DEF Check
<1> QED
  BY <1>1, <1>2, <1>3, <1>4, <1>5 DEF Execute

\* An answer that main reads is the last one only when all lines have answered,
\* and then there was no line without a goroutine.
LEMMA ReceiveKeeps ==
    ASSUME RespInv, NEW l \in Line, Receive(l)
    PROVE  RespInv'
<1>1. IsFiniteSet(Line) /\ blank \in Nat
  BY RespawnAssumption DEF RespInv, RespawnTypeOK
<1>2. /\ l \in done /\ received' = received \cup {l}
      /\ main' = IF Cardinality(received') = Cardinality(Line) + blank
                 THEN "returned" ELSE "waiting"
      /\ UNCHANGED <<running, processes, linePc, child, count, lateStarts,
                     sigterm, handler, done, blank, missed>>
  BY DEF Receive, executeVars, signalVars
<1>3. RespawnTypeOK' /\ Places' /\ AtMostOneMore' /\ Told'
  BY <1>2 DEF RespInv, RespawnTypeOK, Places, AtMostOneMore, Told
<1>4. received' \subseteq Line
  BY <1>3 DEF RespawnTypeOK
<1>5. /\ IsFiniteSet(received') /\ Cardinality(received') <= Cardinality(Line)
      /\ Cardinality(received') = Cardinality(Line) => received' = Line
  BY <1>1, <1>4, FS_Subset
<1>6. Cardinality(received') \in Nat /\ Cardinality(Line) \in Nat
  BY <1>1, <1>5, FS_CardinalityType
<1>7. AllAnswered'
  BY <1>1, <1>2, <1>5, <1>6 DEF AllAnswered
<1> QED
  BY <1>3, <1>7 DEF RespInv

\* So do the signal, its handler, the end of a child and the end of main.
LEMMA OthersKeep ==
    ASSUME RespInv,
           \/ \E l \in Line : ChildEnds(l)
           \/ Sigterm \/ Handler \/ Returned
           \/ UNCHANGED respawnVars
    PROVE  RespInv'
<1> USE DEF RespInv, Places, AtMostOneMore, AllAnswered, Told, executeVars,
            signalVars, mainVars, MainWaits
<1>1. ASSUME NEW l \in Line, ChildEnds(l) PROVE RespInv'
  BY <1>1 DEF ChildEnds, RespawnTypeOK
<1>2. CASE Sigterm
  BY <1>2 DEF Sigterm, RespawnTypeOK
<1>3. CASE ClearRunning
  <2>1. running' = FALSE
    BY <1>3 DEF ClearRunning
  <2>2. running' \in BOOLEAN
    BY <2>1, Zenon
  <2>3. RespawnTypeOK'
    BY <1>3, <2>2 DEF ClearRunning, RespawnTypeOK
  <2> QED
    BY <1>3, <2>3 DEF ClearRunning, RespawnTypeOK
<1>4. CASE SignalAll
  BY <1>4 DEF SignalAll, RespawnTypeOK
<1>5. CASE UNCHANGED respawnVars
  BY <1>5 DEF respawnVars, RespawnTypeOK
<1> QED
  BY <1>1, <1>2, <1>3, <1>4, <1>5 DEF Handler, Returned

\* The invariant of Respawn.
THEOREM RespInvariance == RespawnSpec => []RespInv
<1>1. RespawnInit => RespInv
  BY RespInit
<1>2. RespInv /\ [RespawnNext]_respawnVars => RespInv'
  BY ExecuteKeeps, ReceiveKeeps, OthersKeep DEF RespawnNext
<1> QED
  BY <1>1, <1>2, PTL DEF RespawnSpec

\* However SIGTERM falls between the steps of execute, a line starts at most
\* one child after running was cleared (termPids, execute).
THEOREM FewLateStarts == RespawnSpec => []LateStarts
<1>1. RespInv => LateStarts
  BY DEF RespInv, AtMostOneMore, LateStarts
<1> QED
  BY RespInvariance, <1>1, PTL

\* termPids misses a child only between cmd.Start and addProcess, and signals no
\* process but that of a line whose cmd.Wait has not returned long ago.
THEOREM TableIsCurrent == RespawnSpec => []Tracked
<1>1. RespInv => Tracked
  BY DEF RespInv, Places, RespawnTypeOK, Tracked
<1> QED
  BY RespInvariance, <1>1, PTL

\* Clearing running before the children are signalled leaves no child untold but
\* one whose line was between its check of running and addProcess (termPids).
THEOREM OthersAreTold == RespawnSpec => []Reached
<1>1. RespInv => Reached
  BY DEF RespInv, Told, Reached
<1> QED
  BY RespInvariance, <1>1, PTL

\* When run returns, no goroutine and no child is left, and respawn.conf had
\* neither blank lines nor comments: with one, run never returns.
THEOREM ReturnIsClean == RespawnSpec => []CleanReturn
<1>1. RespInv => CleanReturn
  BY DEF RespInv, Places, AllAnswered, RespawnTypeOK, CleanReturn
<1> QED
  BY RespInvariance, <1>1, PTL
=============================================================================
