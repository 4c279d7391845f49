---------------------------- MODULE Publication ----------------------------
(***************************************************************************)
(* What the orders side promises the queues: jobs are added for a placed   *)
(* order only, and each kind for itself, whatever becomes of the other.    *)
(* There is no outbox: what a process had not added when it ended is never *)
(* added.  When a process may end (Drop) is not said here.                 *)
(*                                                                         *)
(* OrderTx implements it (OrderTx!PublishesAfterCommit); Fulfilment adds   *)
(* the workers.                                                            *)
(***************************************************************************)
EXTENDS Integers, FiniteSets

CONSTANTS Order, JobKinds

VARIABLES
    placed,       \* the committed orders
    sending,      \* sending[o]: the kinds of jobs being added for o
    jobs          \* the jobs ever added

pubVars == <<placed, sending, jobs>>

Job == [kind : JobKinds, order : Order]

PubInit == placed = {} /\ sending = [o \in Order |-> {}] /\ jobs = {}

\* COMMIT has answered, and publishSideEffects begins ...
Place(o) ==
    /\ o \notin placed
    /\ placed' = placed \cup {o}
    /\ sending' = [sending EXCEPT ![o] = JobKinds]
    /\ UNCHANGED jobs

\* ... or its answer was lost, and nothing is published.
PlaceUnanswered(o) ==
    /\ o \notin placed
    /\ placed' = placed \cup {o}
    /\ UNCHANGED <<sending, jobs>>

\* One Queue.add arrives; the other goes on whatever happens.
Add(o, k) ==
    /\ k \in sending[o]
    /\ jobs' = jobs \cup {[kind |-> k, order |-> o]}
    /\ sending' = [sending EXCEPT ![o] = @ \ {k}]
    /\ UNCHANGED placed

\* [mutant] One after the other: the first that rejects ends the sending of both.
AddFailsBoth(o, k) ==
    /\ k \in sending[o]
    /\ jobs' \in {jobs, jobs \cup {[kind |-> k, order |-> o]}}
    /\ sending' = [sending EXCEPT ![o] = {}]
    /\ UNCHANGED placed

\* It rejects, and may have been added all the same.
AddFails(o, k) ==
    /\ k \in sending[o]
    /\ jobs' \in {jobs, jobs \cup {[kind |-> k, order |-> o]}}
    /\ sending' = [sending EXCEPT ![o] = @ \ {k}]
    /\ UNCHANGED placed

\* The process ends.
Drop(o) ==
    /\ sending[o] # {}
    /\ sending' = [sending EXCEPT ![o] = {}]
    /\ UNCHANGED <<placed, jobs>>

PubNext ==
    \E o \in Order :
        \/ Place(o) \/ PlaceUnanswered(o) \/ Drop(o)
        \/ \E k \in JobKinds : Add(o, k) \/ AddFails(o, k)

PubSpec == PubInit /\ [][PubNext]_pubVars
=============================================================================
