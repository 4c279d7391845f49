----------------------------- MODULE Fulfilment -----------------------------
(***************************************************************************)
(* From a placed order to its confirmation mail and analytics event: the   *)
(* jobs that Publication adds, the worker processes that take them, and    *)
(* the retry policy of queues.ts.  A worker here is one slot of a BullMQ   *)
(* Worker (the code runs five for mails and twenty for events).            *)
(*                                                                         *)
(* BullMQ is external to the repository.  It is modelled by what           *)
(* email.worker.ts relies on: a job is locked by the worker that runs it;  *)
(* a throwing processor is run again until attempts is exhausted; a lock   *)
(* that is not renewed expires, and the job is given to another worker     *)
(* while the first, if it lives, still runs.                               *)
(***************************************************************************)
EXTENDS Publication

CONSTANTS
    Worker, KindOf,   \* KindOf[w]: the queue of worker w
    NoWorker, NoJob,
    MaxAttempts,      \* attempts of the default job options
    MaxStalled,       \* BullMQ's maxStalledCount, left at its default
    MaxStops          \* bound on how often workers stop, for TLC

ASSUME WorkerAssumption ==
    /\ IsFiniteSet(Worker) /\ KindOf \in [Worker -> JobKinds]
    /\ NoWorker \notin Worker /\ NoJob \notin Job
ASSUME AttemptsAssumption ==
    MaxAttempts \in Nat \ {0} /\ MaxStalled \in Nat /\ MaxStops \in Nat

VARIABLES
    excused,      \* jobs not added because their own adding failed or was cut short
    state,        \* state[j]: where job j is in its queue, once added
    holder,       \* holder[j]: the worker whose lock it carries
    tries,        \* tries[j]: attempts that threw
    stalls,       \* stalls[j]: locks that expired
    effects,      \* effects[j]: mails sent, or events tracked
    up,           \* up[w]: "up", "closing" or "down"
    busy,         \* busy[w]: the job that w's processor runs
    did,          \* did[w]: the mail has left
    stops         \* stops of workers so far

jobVars == <<state, holder, tries, stalls, effects>>
workerVars == <<up, busy, did, stops>>
vars == <<pubVars, excused, jobVars, workerVars>>

Init ==
    /\ PubInit
    /\ excused = {}
    /\ state = [j \in Job |-> "waiting"]
    /\ holder = [j \in Job |-> NoWorker]
    /\ tries = [j \in Job |-> 0]
    /\ stalls = [j \in Job |-> 0]
    /\ effects = [j \in Job |-> 0]
    /\ up = [w \in Worker |-> "up"]
    /\ busy = [w \in Worker |-> NoJob]
    /\ did = [w \in Worker |-> FALSE]
    /\ stops = 0

-----------------------------------------------------------------------------
(* The producer *)

Publish(o) ==
    /\ Place(o) \/ \E k \in JobKinds : Add(o, k)
    /\ UNCHANGED <<excused, jobVars, workerVars>>

JobsOf(o, kinds) == {[kind |-> k, order |-> o] : k \in kinds}

\* Nothing is begun, what is under way is cut short, or one add rejects.
PublishFails(o) ==
    /\ \/ PlaceUnanswered(o) /\ excused' = excused \cup JobsOf(o, JobKinds)
       \/ Drop(o) /\ excused' = excused \cup JobsOf(o, sending[o])
       \/ \E k \in JobKinds :
              AddFails(o, k) /\ excused' = excused \cup (JobsOf(o, {k}) \ jobs')
    /\ UNCHANGED <<jobVars, workerVars>>

-----------------------------------------------------------------------------
(* The workers *)

Idle(w) == busy' = [busy EXCEPT ![w] = NoJob] /\ did' = [did EXCEPT ![w] = FALSE]

\* [mutant] worker.ts starts the email worker only.
TakeEmailOnly(w, j) ==
    /\ up[w] = "up" /\ busy[w] = NoJob /\ KindOf[w] = "email"
    /\ j \in jobs /\ j.kind = KindOf[w] /\ state[j] = "waiting"
    /\ state' = [state EXCEPT ![j] = "active"]
    /\ holder' = [holder EXCEPT ![j] = w]
    /\ busy' = [busy EXCEPT ![w] = j]
    /\ UNCHANGED <<pubVars, excused, tries, stalls, effects, up, did, stops>>

\* A free worker locks a waiting job of its queue.
Take(w, j) ==
    /\ up[w] = "up" /\ busy[w] = NoJob
    /\ j \in jobs /\ j.kind = KindOf[w] /\ state[j] = "waiting"
    /\ state' = [state EXCEPT ![j] = "active"]
    /\ holder' = [holder EXCEPT ![j] = w]
    /\ busy' = [busy EXCEPT ![w] = j]
    /\ UNCHANGED <<pubVars, excused, tries, stalls, effects, up, did, stops>>

\* The processor sends the mail, or tracks the event.
Process(w) ==
    /\ busy[w] # NoJob /\ ~did[w]
    /\ effects' = [effects EXCEPT ![busy[w]] = @ + 1]
    /\ did' = [did EXCEPT ![w] = TRUE]
    /\ UNCHANGED <<pubVars, excused, state, holder, tries, stalls, up, busy, stops>>

\* It returns.  The job is completed, unless the lock is another's by now.
Complete(w) ==
    LET j == busy[w]
    IN  /\ busy[w] # NoJob /\ did[w]
        /\ IF holder[j] = w
           THEN /\ state' = [state EXCEPT ![j] = "completed"]
                /\ holder' = [holder EXCEPT ![j] = NoWorker]
           ELSE UNCHANGED <<state, holder>>
        /\ Idle(w)
        /\ UNCHANGED <<pubVars, excused, tries, stalls, effects, up, stops>>

\* [mutant] One attempt too many.
AfterThrowPlusOne(n) == IF n <= MaxAttempts THEN "delayed" ELSE "failed"

\* Where a job goes whose nth attempt has thrown.
AfterThrow(n) == IF n < MaxAttempts THEN "delayed" ELSE "failed"

\* It throws, before the mail has left or, the provider's reply being lost,
\* after.
Throws(w) ==
    LET j == busy[w]
    IN  /\ busy[w] # NoJob
        /\ IF holder[j] = w
           THEN /\ tries' = [tries EXCEPT ![j] = @ + 1]
                /\ state' = [state EXCEPT ![j] = AfterThrow(tries[j] + 1)]
                /\ holder' = [holder EXCEPT ![j] = NoWorker]
           ELSE UNCHANGED <<tries, state, holder>>
        /\ Idle(w)
        /\ UNCHANGED <<pubVars, excused, stalls, effects, up, stops>>

\* The exponential backoff is over.
BackoffEnds(j) ==
    /\ state[j] = "delayed"
    /\ state' = [state EXCEPT ![j] = "waiting"]
    /\ UNCHANGED <<pubVars, excused, holder, tries, stalls, effects, workerVars>>

\* Nobody renews the lock of an active job: its worker is gone ...
LockExpires(j) ==
    /\ state[j] = "active"
    /\ stalls' = [stalls EXCEPT ![j] = @ + 1]
    /\ state' = [state EXCEPT ![j] = IF stalls[j] + 1 > MaxStalled
                                     THEN "failed" ELSE "waiting"]
    /\ holder' = [holder EXCEPT ![j] = NoWorker]
    /\ UNCHANGED <<pubVars, excused, tries, effects, workerVars>>

Recover(j) == busy[holder[j]] # j /\ LockExpires(j)

\* ... or cannot, its event loop being busy.
Stall(j) == busy[holder[j]] = j /\ LockExpires(j)

\* SIGTERM: Worker.close() waits for the processor, and takes no other job ...
Close(w) ==
    /\ up[w] = "up" /\ stops < MaxStops
    /\ up' = [up EXCEPT ![w] = "closing"]
    /\ stops' = stops + 1
    /\ UNCHANGED <<pubVars, excused, jobVars, busy, did>>

\* ... and the process exits.
Exit(w) ==
    /\ up[w] = "closing" /\ busy[w] = NoJob
    /\ up' = [up EXCEPT ![w] = "down"]
    /\ UNCHANGED <<pubVars, excused, jobVars, busy, did, stops>>

\* The process dies, in the middle of a job or not.
Die(w) ==
    /\ up[w] # "down" /\ stops < MaxStops
    /\ up' = [up EXCEPT ![w] = "down"]
    /\ stops' = stops + 1
    /\ Idle(w)
    /\ UNCHANGED <<pubVars, excused, jobVars>>

\* Somebody starts it again: docker-compose.yml has no restart policy.
Start(w) ==
    /\ up[w] = "down"
    /\ up' = [up EXCEPT ![w] = "up"]
    /\ UNCHANGED <<pubVars, excused, jobVars, busy, did, stops>>

Work(w) ==
    \/ \E j \in Job : Take(w, j)
    \/ Process(w) \/ Complete(w) \/ Exit(w)

WorkerFault(w) == Throws(w) \/ Close(w) \/ Die(w) \/ Start(w)

Next ==
    \/ \E o \in Order : Publish(o) \/ PublishFails(o)
    \/ \E w \in Worker : Work(w) \/ WorkerFault(w)
    \/ \E j \in Job : BackoffEnds(j) \/ (state[j] = "active" /\ (Recover(j) \/ Stall(j)))

Spec == Init /\ [][Next]_vars

\* Redis answers, workers work, delays and locks end.  Nobody has to start a
\* worker again.
FairSpec ==
    /\ Spec
    /\ \A o \in Order : WF_vars(sending[o] # {} /\ Publish(o))
    /\ \A w \in Worker : WF_vars(Work(w))
    /\ \A j \in Job : WF_vars(BackoffEnds(j)) /\ WF_vars(state[j] = "active" /\ Recover(j))

-----------------------------------------------------------------------------
(* Properties *)

TypeOK ==
    /\ placed \subseteq Order /\ excused \subseteq Job /\ jobs \subseteq Job
    /\ sending \in [Order -> SUBSET JobKinds]
    /\ state \in [Job -> {"waiting", "active", "delayed", "completed", "failed"}]
    /\ holder \in [Job -> Worker \cup {NoWorker}]
    /\ tries \in [Job -> Nat] /\ stalls \in [Job -> Nat] /\ effects \in [Job -> Nat]
    /\ up \in [Worker -> {"up", "closing", "down"}]
    /\ busy \in [Worker -> Job \cup {NoJob}]
    /\ did \in [Worker -> BOOLEAN]
    /\ stops \in 0..MaxStops

\* A placed order lacks a job only for a cause of that very job: its own add
\* rejected, the process ended while it was under way, or COMMIT was not
\* answered.  One job's failure never keeps the other back (Promise.all
\* cancels nothing).
MissedForCause ==
    \A o \in placed, k \in JobKinds :
        \/ [kind |-> k, order |-> o] \in jobs
        \/ k \in sending[o]
        \/ [kind |-> k, order |-> o] \in excused

\* A customer gets a mail for a placed order only, and a second one only if an
\* attempt threw or a lock expired; attempts that throw are at most those of
\* the retry policy, however stalls and crashes interleave with them.
EffectsPaidFor ==
    \A j \in Job :
        /\ effects[j] > 0 => j.order \in placed
        /\ effects[j] <= tries[j] + stalls[j]
                         + (IF state[j] \in {"active", "completed"} THEN 1 ELSE 0)
        /\ tries[j] <= MaxAttempts /\ stalls[j] <= MaxStalled + 1

\* Every job that was added ends completed or failed: no crash leaves one
\* locked for good, unless all the workers of its queue are down.
JobsSettle ==
    \A j \in Job :
        j \in jobs ~> \/ state[j] \in {"completed", "failed"}
                      \/ \A w \in Worker : KindOf[w] = j.kind => up[w] # "up"

-----------------------------------------------------------------------------
(* The inductive invariant *)

\* The slots that run j and have not had its effect.
Unsent(j) == {w \in Worker : busy[w] = j /\ ~did[w]}

\* Jobs come from placed orders, effects from jobs.
JobsFromOrders ==
    /\ \A o \in Order : sending[o] # {} => o \in placed
    /\ \A j \in jobs : j.order \in placed
    /\ \A w \in Worker : busy[w] # NoJob => busy[w] \in jobs
    /\ \A j \in Job : effects[j] > 0 => j \in jobs

\* The job of a lock is active, and a job that is not finished has attempts left.
LocksAndAttempts ==
    \A j \in Job :
        /\ holder[j] # NoWorker => state[j] = "active"
        /\ state[j] \in {"waiting", "active", "delayed"} =>
               tries[j] < MaxAttempts /\ stalls[j] <= MaxStalled
        /\ tries[j] <= MaxAttempts /\ stalls[j] <= MaxStalled + 1

\* EffectsPaidFor, with the effects that running slots may still have.
SlotsPaidFor ==
    \A j \in Job :
        effects[j] + Cardinality(Unsent(j))
            <= tries[j] + stalls[j] + (IF state[j] \in {"active", "completed"} THEN 1 ELSE 0)

JobInv ==
    /\ TypeOK /\ MissedForCause /\ JobsFromOrders /\ LocksAndAttempts /\ SlotsPaidFor
=============================================================================
