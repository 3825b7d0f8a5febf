--------------------------- MODULE ServiceRounds ---------------------------
(***************************************************************************)
(* What one call of a project (Up, Create, Stop ...) promises: it goes     *)
(* through rounds, of which every one begins when no service is acting; a  *)
(* service acts once for each time it is loaded, and only when everything  *)
(* it has to come after has acted; a service is put off to the next round  *)
(* only when one asked for a reload; and success is answered only when     *)
(* nobody is at work or left out and nobody has failed.                    *)
(***************************************************************************)
CONSTANT Service

VARIABLES
    state,      \* what the call has done about each service
    error,      \* what the action of each service answered
    needs,      \* whom each service has to come after
    answer      \* of the call

rounds == <<state, error, needs, answer>>

Needs == [Service -> SUBSET Service]
Settled == {"acted", "skipped"}
Quiet == answer = "none" /\ \A s \in Service : state[s] # "acting"

Move(s, from, to) == state[s] = from /\ state' = [state EXCEPT ![s] = to]

RoundsInit ==
    /\ state = [s \in Service |-> "absent"]
    /\ error = [s \in Service |-> "nil"]
    /\ needs = [s \in Service |-> {}]
    /\ answer = "none"

-----------------------------------------------------------------------------
\* A round begins: new services are to act, once more if they have before, and
\* the others keep their error.  The caller may have asked for one that is
\* not there.
Load(new) ==
    /\ Quiet
    /\ state' = [s \in Service |-> IF s \in new THEN "pending" ELSE state[s]]
    /\ error' = [s \in Service |->
                    IF s \in new \/ error[s] = "restart" THEN "nil" ELSE error[s]]
    /\ needs' \in Needs
    /\ answer' \in {"none", "nosuch"}

\* Between two rounds the configuration may change.
Reconfigure ==
    /\ Quiet
    /\ needs' \in Needs
    /\ UNCHANGED <<state, error, answer>>

\* Within a round dependencies are only lost, because an image has arrived or
\* to cut a cycle; the attempt to cut one may end the call.
Relax ==
    /\ needs' \in Needs /\ \A s \in Service : needs'[s] \subseteq needs[s]
    /\ UNCHANGED answer \/ (answer = "none" /\ answer' = "fail")
    /\ UNCHANGED <<state, error>>

\* A service that was not asked for.
Skip(s) ==
    /\ Move(s, "pending", "skipped")
    /\ UNCHANGED <<error, needs, answer>>

Act(s) ==
    /\ Move(s, "pending", "acting")
    /\ \A t \in needs[s] : state[t] \in Settled /\ error[t] # "restart"
    /\ UNCHANGED <<error, needs, answer>>

PutOff(s) ==
    /\ state[s] = "pending"
    /\ \E t \in Service : error[t] = "restart"
    /\ error' = [error EXCEPT ![s] = "restart"]
    /\ UNCHANGED <<state, needs, answer>>

End(s) ==
    /\ Move(s, "acting", "acted")
    /\ \E e \in {"nil", "fail", "restart"} : error' = [error EXCEPT ![s] = e]
    /\ UNCHANGED <<needs, answer>>

Succeed ==
    /\ Quiet
    /\ \A s \in Service : /\ state[s] \in Settled \cup {"absent"}
                          /\ error[s] = "nil"
    /\ answer' = "nil"
    /\ UNCHANGED <<state, error, needs>>

\* A cycle ends the call in the middle of a round, other errors do at its end.
Fail ==
    /\ answer = "none"
    /\ \/ answer' = "cycle"
       \/ /\ Quiet /\ \E s \in Service : error[s] = "fail"
          /\ answer' = "fail"
    /\ UNCHANGED <<state, error, needs>>

RoundsNext ==
    \/ \E new \in SUBSET Service : Load(new)
    \/ Reconfigure \/ Relax \/ Succeed \/ Fail
    \/ \E s \in Service : Skip(s) \/ Act(s) \/ PutOff(s) \/ End(s)

RoundsSpec == RoundsInit /\ [][RoundsNext]_rounds
=============================================================================
