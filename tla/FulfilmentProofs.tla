-------------------------- MODULE FulfilmentProofs --------------------------
(***************************************************************************)
(* From placed orders to mails, for any number of orders and workers, any  *)
(* retry policy and any number of stops.  JobInv is inductive: what keeps  *)
(* effects in bounds is that a slot which still runs a job has been paid   *)
(* for before, by the attempt under way or by the lock that expired        *)
(* (SlotsPaidFor).                                                         *)
(***************************************************************************)
EXTENDS Fulfilment, FiniteSetTheorems, TLAPS

-----------------------------------------------------------------------------
(* Slots that run a job *)

LEMMA UnsentSize ==
    ASSUME NEW j \in Job
    PROVE  /\ IsFiniteSet(Unsent(j)) /\ Cardinality(Unsent(j)) \in Nat
           /\ IsFiniteSet(Unsent(j)') /\ Cardinality(Unsent(j)') \in Nat
<1>1. Unsent(j) \in SUBSET Worker /\ Unsent(j)' \in SUBSET Worker
  BY DEF Unsent
<1>2. IsFiniteSet(Unsent(j)) /\ IsFiniteSet(Unsent(j)')
  BY <1>1, FS_Subset, WorkerAssumption
<1> QED
  BY <1>2, FS_CardinalityType

\* A slot that gives its job up has no effect on it any more.
LEMMA IdleUnsent ==
    ASSUME TypeOK, NEW w \in Worker, Idle(w), NEW j \in Job
    PROVE  Cardinality(Unsent(j)') <= Cardinality(Unsent(j))
<1>1. Unsent(j)' \in SUBSET Unsent(j)
  BY WorkerAssumption DEF Unsent, Idle, TypeOK
<1> QED
  BY <1>1, UnsentSize, FS_Subset

LEMMA KeptUnsent ==
    ASSUME UNCHANGED <<busy, did>>, NEW j \in Job
    PROVE  Cardinality(Unsent(j)') = Cardinality(Unsent(j))
  BY DEF Unsent

\* A slot that takes a job may have its effect once more.
LEMMA TakeUnsent ==
    ASSUME TypeOK, NEW w \in Worker, NEW i \in Job, Take(w, i), NEW j \in Job
    PROVE  Cardinality(Unsent(j)') <= Cardinality(Unsent(j)) + (IF j = i THEN 1 ELSE 0)
<1>1. CASE j = i
  <2>1. Unsent(j)' \in SUBSET (Unsent(j) \cup {w})
    BY <1>1 DEF Unsent, Take, TypeOK
  <2>2. /\ IsFiniteSet(Unsent(j) \cup {w})
        /\ Cardinality(Unsent(j) \cup {w}) \in {Cardinality(Unsent(j)), Cardinality(Unsent(j)) + 1}
    BY UnsentSize, FS_AddElement
  <2>3. Cardinality(Unsent(j)') <= Cardinality(Unsent(j) \cup {w})
    BY <2>1, <2>2, FS_Subset
  <2> QED
    BY <1>1, <2>2, <2>3, UnsentSize
<1>2. CASE j # i
  <2>1. Unsent(j)' \in SUBSET Unsent(j)
    BY <1>2 DEF Unsent, Take, TypeOK
  <2>2. Cardinality(Unsent(j)') <= Cardinality(Unsent(j))
    BY <2>1, UnsentSize, FS_Subset
  <2> QED
    BY <1>2, <2>2, UnsentSize
<1> QED
  BY <1>1, <1>2

\* A slot that has its effect cannot have it again.
LEMMA ProcessUnsent ==
    ASSUME TypeOK, NEW w \in Worker, Process(w), NEW j \in Job
    PROVE  Cardinality(Unsent(j)') <= Cardinality(Unsent(j)) - (IF j = busy[w] THEN 1 ELSE 0)
<1>1. CASE j = busy[w]
  <2>1. Unsent(j)' = Unsent(j) \ {w} /\ w \in Unsent(j)
    BY <1>1 DEF Unsent, Process, TypeOK
  <2>2. Cardinality(Unsent(j)') = Cardinality(Unsent(j)) - 1
    BY <2>1, UnsentSize, FS_RemoveElement
  <2> QED
    BY <1>1, <2>2, UnsentSize
<1>2. CASE j # busy[w]
  <2>1. Unsent(j)' = Unsent(j)
    BY <1>2 DEF Unsent, Process, TypeOK
  <2> QED
    BY <1>2, <2>1, UnsentSize
<1> QED
  BY <1>1, <1>2

-----------------------------------------------------------------------------
(* Types and the producer *)

LEMMA NextTypes ==
    ASSUME TypeOK, LocksAndAttempts, [Next]_vars
    PROVE  TypeOK'
<1> USE AttemptsAssumption, WorkerAssumption
<1>1. CASE UNCHANGED vars
  BY <1>1 DEF vars, pubVars, jobVars, workerVars, TypeOK
<1>2. ASSUME NEW o \in Order, Publish(o) \/ PublishFails(o)
      PROVE  TypeOK'
  <2>0. excused' \subseteq Job
    <3>1. \A kinds \in SUBSET JobKinds : JobsOf(o, kinds) \subseteq Job
      BY DEF JobsOf, Job
    <3>2. sending[o] \subseteq JobKinds /\ \A k \in JobKinds : {k} \subseteq JobKinds
      BY DEF TypeOK
    <3> QED
      BY <1>2, <3>1, <3>2 DEF Publish, PublishFails, TypeOK
  <2>1. CASE Place(o) \/ PlaceUnanswered(o)
    <3>1. placed' \subseteq Order /\ jobs' = jobs /\ sending' \in [Order -> SUBSET JobKinds]
      BY <2>1 DEF Place, PlaceUnanswered, TypeOK
    <3> QED
      BY <1>2, <2>0, <3>1 DEF Publish, PublishFails, TypeOK, jobVars, workerVars
  <2>2. ASSUME NEW k \in JobKinds, Add(o, k) \/ AddFails(o, k)
        PROVE  TypeOK'
    <3>1. [kind |-> k, order |-> o] \in Job
      BY DEF Job
    <3>2. placed' = placed /\ jobs' \subseteq Job /\ sending' \in [Order -> SUBSET JobKinds]
      BY <2>2, <3>1 DEF Add, AddFails, TypeOK
    <3> QED
      BY <1>2, <2>0, <3>2 DEF Publish, PublishFails, TypeOK, jobVars, workerVars
  <2>3. CASE Drop(o)
    <3>1. placed' = placed /\ jobs' = jobs /\ sending' \in [Order -> SUBSET JobKinds]
      BY <2>3 DEF Drop, TypeOK
    <3> QED
      BY <1>2, <2>0, <3>1 DEF Publish, PublishFails, TypeOK, jobVars, workerVars
  <2> QED
    BY <1>2, <2>1, <2>2, <2>3 DEF Publish, PublishFails
<1>3. ASSUME NEW w \in Worker, NEW j \in Job, Take(w, j)
      PROVE  TypeOK'
  BY <1>3 DEF Take, TypeOK, pubVars
<1>4. ASSUME NEW w \in Worker, Process(w)
      PROVE  TypeOK'
  BY <1>4 DEF Process, TypeOK, pubVars
<1>5. ASSUME NEW w \in Worker, Complete(w)
      PROVE  TypeOK'
  BY <1>5 DEF Complete, Idle, TypeOK, pubVars
<1>6. ASSUME NEW w \in Worker, Throws(w)
      PROVE  TypeOK'
  <2>1. /\ busy[w] \in Job
        /\ busy' \in [Worker -> Job \cup {NoJob}] /\ did' \in [Worker -> BOOLEAN]
    BY <1>6 DEF Throws, Idle, TypeOK
  <2>2. CASE holder[busy[w]] = w
    <3>1. AfterThrow(tries[busy[w]] + 1) \in {"delayed", "failed"}
      BY DEF AfterThrow
    <3>2. /\ tries' \in [Job -> Nat] /\ holder' \in [Job -> Worker \cup {NoWorker}]
          /\ state' \in [Job -> {"waiting", "active", "delayed", "completed", "failed"}]
      BY <1>6, <2>1, <2>2, <3>1 DEF Throws, TypeOK
    <3> QED
      BY <1>6, <2>1, <3>2 DEF Throws, TypeOK, pubVars
  <2>3. CASE holder[busy[w]] # w
    BY <1>6, <2>1, <2>3 DEF Throws, TypeOK, pubVars
  <2> QED
    BY <2>2, <2>3
<1>7. ASSUME NEW w \in Worker, Exit(w) \/ Close(w) \/ Die(w) \/ Start(w)
      PROVE  TypeOK'
  <2>1. CASE Exit(w) \/ Start(w)
    BY <2>1 DEF Exit, Start, TypeOK, pubVars, jobVars
  <2>2. CASE Close(w)
    BY <2>2 DEF Close, TypeOK, pubVars, jobVars
  <2>3. CASE Die(w)
    BY <2>3 DEF Die, Idle, TypeOK, pubVars, jobVars
  <2> QED
    BY <1>7, <2>1, <2>2, <2>3
<1>8. ASSUME NEW j \in Job, BackoffEnds(j)
      PROVE  TypeOK'
  BY <1>8 DEF BackoffEnds, TypeOK, pubVars, workerVars
<1>9. ASSUME NEW j \in Job, LockExpires(j)
      PROVE  TypeOK'
  BY <1>9 DEF LockExpires, TypeOK, pubVars, workerVars
<1> QED
  BY <1>1, <1>2, <1>3, <1>4, <1>5, <1>6, <1>7, <1>8, <1>9
  DEF Next, Work, WorkerFault, Recover, Stall

\* Everybody but the producer leaves the orders' side alone.
LEMMA OrdersSide ==
    ASSUME [Next]_vars, \A o \in Order : ~(Publish(o) \/ PublishFails(o))
    PROVE  UNCHANGED <<pubVars, excused>>
  BY DEF Next, vars, Work, WorkerFault, Take, Process, Complete, Exit, Throws, Close, Die,
         Start, BackoffEnds, Recover, Stall, LockExpires, pubVars

\* The producer leaves the queues' side alone.
LEMMA QueueSide ==
    ASSUME NEW o \in Order, Publish(o) \/ PublishFails(o)
    PROVE  UNCHANGED <<jobVars, workerVars>>
  BY DEF Publish, PublishFails

-----------------------------------------------------------------------------
(* The orders' side *)

LEMMA NextMissed ==
    ASSUME TypeOK, MissedForCause, [Next]_vars
    PROVE  MissedForCause'
<1>1. ASSUME NEW o \in Order, Publish(o) \/ PublishFails(o)
      PROVE  MissedForCause'
  <2>1. CASE Place(o) /\ UNCHANGED excused
    BY <2>1 DEF Place, MissedForCause, TypeOK
  <2>2. ASSUME NEW kinds \in SUBSET JobKinds, excused' = excused \cup JobsOf(o, kinds),
               \/ PlaceUnanswered(o) /\ kinds = JobKinds
               \/ Drop(o) /\ kinds = sending[o]
        PROVE  MissedForCause'
    <3>1. \A k \in kinds : [kind |-> k, order |-> o] \in excused'
      BY <2>2 DEF JobsOf
    <3> QED
      BY <2>2, <3>1 DEF PlaceUnanswered, Drop, MissedForCause, TypeOK
  <2>3. ASSUME NEW k \in JobKinds, Add(o, k), UNCHANGED excused
        PROVE  MissedForCause'
    BY <2>3 DEF Add, MissedForCause, TypeOK
  <2>4. ASSUME NEW k \in JobKinds, AddFails(o, k),
               excused' = excused \cup (JobsOf(o, {k}) \ jobs')
        PROVE  MissedForCause'
    <3>1. [kind |-> k, order |-> o] \in excused' \cup jobs'
      BY <2>4 DEF JobsOf
    <3> QED
      BY <2>4, <3>1 DEF AddFails, MissedForCause, TypeOK
  <2>5. sending[o] \in SUBSET JobKinds
    BY DEF TypeOK
  <2> QED
    BY <1>1, <2>1, <2>2, <2>3, <2>4, <2>5 DEF Publish, PublishFails
<1>2. CASE UNCHANGED <<pubVars, excused>>
  BY <1>2 DEF MissedForCause, pubVars
<1> QED
  BY <1>1, <1>2, OrdersSide

LEMMA NextJobsFromOrders ==
    ASSUME TypeOK, JobsFromOrders, [Next]_vars
    PROVE  JobsFromOrders'
<1> USE WorkerAssumption
<1>1. ASSUME NEW o \in Order, Publish(o) \/ PublishFails(o)
      PROVE  JobsFromOrders'
  <2>1. UNCHANGED <<busy, effects>>
    BY <1>1, QueueSide DEF jobVars, workerVars
  <2>2. CASE Place(o) \/ PlaceUnanswered(o) \/ Drop(o)
    BY <2>1, <2>2 DEF Place, PlaceUnanswered, Drop, JobsFromOrders, TypeOK
  <2>3. ASSUME NEW k \in JobKinds, Add(o, k) \/ AddFails(o, k)
        PROVE  JobsFromOrders'
    <3>1. o \in placed /\ placed' = placed
      BY <2>3 DEF Add, AddFails, JobsFromOrders
    <3>2. jobs \subseteq jobs' /\ jobs' \subseteq jobs \cup {[kind |-> k, order |-> o]}
      BY <2>3 DEF Add, AddFails
    <3>3. \A x \in Order : sending'[x] \subseteq sending[x]
      BY <2>3 DEF Add, AddFails, TypeOK
    <3>4. \A j \in jobs' : j.order \in placed'
      BY <3>1, <3>2 DEF JobsFromOrders
    <3>5. \A x \in Order : sending'[x] # {} => x \in placed'
      BY <3>1, <3>3 DEF JobsFromOrders
    <3> QED
      BY <2>1, <3>2, <3>4, <3>5 DEF JobsFromOrders
  <2> QED
    BY <1>1, <2>2, <2>3 DEF Publish, PublishFails
<1>2. ASSUME UNCHANGED <<pubVars, excused>>,
             \A w \in Worker : busy'[w] \in {busy[w], NoJob} \cup jobs,
             \A j \in Job : effects'[j] > 0 => effects[j] > 0 \/ \E w \in Worker : busy[w] = j
      PROVE  JobsFromOrders'
  BY <1>2 DEF JobsFromOrders, pubVars
<1>3. ASSUME NEW w \in Worker, NEW j \in Job, Take(w, j)
      PROVE  JobsFromOrders'
  BY <1>2, <1>3 DEF Take, TypeOK
<1>4. ASSUME NEW w \in Worker, Process(w)
      PROVE  JobsFromOrders'
  BY <1>2, <1>4 DEF Process, TypeOK
<1>5. ASSUME NEW w \in Worker, Complete(w) \/ Throws(w) \/ Exit(w)
                               \/ Close(w) \/ Die(w) \/ Start(w)
      PROVE  JobsFromOrders'
  <2>1. UNCHANGED <<pubVars, excused, effects>>
    BY <1>5 DEF Complete, Throws, Exit, Close, Die, Start, jobVars
  <2>2. UNCHANGED busy \/ Idle(w)
    BY <1>5 DEF Complete, Throws, Exit, Close, Die, Start
  <2> QED
    BY <1>2, <2>1, <2>2 DEF Idle, TypeOK
<1>6. ASSUME NEW j \in Job, BackoffEnds(j) \/ LockExpires(j)
      PROVE  JobsFromOrders'
  BY <1>2, <1>6 DEF BackoffEnds, LockExpires, workerVars
<1>7. CASE UNCHANGED vars
  BY <1>2, <1>7 DEF vars, jobVars, workerVars
<1> QED
  BY <1>1, <1>3, <1>4, <1>5, <1>6, <1>7 DEF Next, Work, WorkerFault, Recover, Stall

-----------------------------------------------------------------------------
(* Locks, attempts and slots *)

\* What the steps of the queues do to one job, whatever the other jobs do.
JobStep(j) ==
    \/ UNCHANGED <<state[j], holder[j], tries[j], stalls[j]>>
    \/ /\ state[j] = "waiting" /\ state'[j] = "active"
       /\ UNCHANGED <<tries[j], stalls[j]>>
    \/ /\ state[j] = "active" /\ state'[j] = "completed" /\ holder'[j] = NoWorker
       /\ UNCHANGED <<tries[j], stalls[j]>>
    \/ /\ state[j] = "active" /\ state'[j] = AfterThrow(tries[j] + 1)
       /\ holder'[j] = NoWorker /\ tries'[j] = tries[j] + 1
       /\ stalls'[j] = stalls[j]
    \/ /\ state[j] = "delayed" /\ state'[j] = "waiting" /\ holder'[j] = holder[j]
       /\ UNCHANGED <<tries[j], stalls[j]>>
    \/ /\ state[j] = "active" /\ holder'[j] = NoWorker /\ tries'[j] = tries[j]
       /\ state'[j] = (IF stalls[j] + 1 > MaxStalled THEN "failed" ELSE "waiting")
       /\ stalls'[j] = stalls[j] + 1

LEMMA NextJobStep ==
    ASSUME TypeOK, LocksAndAttempts, [Next]_vars, NEW j \in Job
    PROVE  JobStep(j)
<1> USE WorkerAssumption
<1>1. CASE UNCHANGED <<state, holder, tries, stalls>>
  BY <1>1 DEF JobStep
<1>2. ASSUME NEW w \in Worker, NEW i \in Job, Take(w, i)
      PROVE  JobStep(j)
  BY <1>2 DEF Take, JobStep, TypeOK
<1>3. ASSUME NEW w \in Worker, Complete(w), holder[busy[w]] = w
      PROVE  JobStep(j)
  <2>1. busy[w] \in Job /\ state[busy[w]] = "active"
    BY <1>3 DEF Complete, TypeOK, LocksAndAttempts
  <2> QED
    BY <1>3, <2>1 DEF Complete, JobStep, TypeOK
<1>4. ASSUME NEW w \in Worker, Throws(w), holder[busy[w]] = w
      PROVE  JobStep(j)
  <2>1. busy[w] \in Job /\ state[busy[w]] = "active"
    BY <1>4 DEF Throws, TypeOK, LocksAndAttempts
  <2>2. CASE j = busy[w]
    BY <1>4, <2>1, <2>2 DEF Throws, JobStep, TypeOK
  <2>3. CASE j # busy[w]
    BY <1>4, <2>1, <2>3 DEF Throws, JobStep, TypeOK
  <2> QED
    BY <2>2, <2>3
<1>5. ASSUME NEW i \in Job, BackoffEnds(i)
      PROVE  JobStep(j)
  BY <1>5 DEF BackoffEnds, JobStep, TypeOK
<1>6. ASSUME NEW i \in Job, LockExpires(i)
      PROVE  JobStep(j)
  <2>1. CASE j = i
    BY <1>6, <2>1 DEF LockExpires, JobStep, TypeOK
  <2>2. CASE j # i
    BY <1>6, <2>2 DEF LockExpires, JobStep, TypeOK
  <2> QED
    BY <2>1, <2>2
<1>7. ASSUME NEW w \in Worker, (Complete(w) \/ Throws(w)) /\ holder[busy[w]] # w
      PROVE  JobStep(j)
  BY <1>1, <1>7 DEF Complete, Throws
<1>8. ASSUME NEW w \in Worker, Process(w) \/ Exit(w) \/ Close(w) \/ Die(w) \/ Start(w)
      PROVE  JobStep(j)
  BY <1>1, <1>8 DEF Process, Exit, Close, Die, Start, jobVars
<1>9. ASSUME NEW o \in Order, Publish(o) \/ PublishFails(o)
      PROVE  JobStep(j)
  BY <1>1, <1>9, QueueSide DEF jobVars
<1>10. CASE UNCHANGED vars
  BY <1>1, <1>10 DEF vars, jobVars
<1> QED
  BY <1>2, <1>3, <1>4, <1>5, <1>6, <1>7, <1>8, <1>9, <1>10
  DEF Next, Work, WorkerFault, Recover, Stall

LEMMA NextLocks ==
    ASSUME TypeOK, LocksAndAttempts, [Next]_vars
    PROVE  LocksAndAttempts'
<1> SUFFICES ASSUME NEW j \in Job
             PROVE  /\ holder'[j] # NoWorker => state'[j] = "active"
                    /\ state'[j] \in {"waiting", "active", "delayed"} =>
                           tries'[j] < MaxAttempts /\ stalls'[j] <= MaxStalled
                    /\ tries'[j] <= MaxAttempts /\ stalls'[j] <= MaxStalled + 1
  BY DEF LocksAndAttempts
<1>1. JobStep(j)
  BY NextJobStep
<1>2. /\ tries[j] \in Nat /\ stalls[j] \in Nat
      /\ holder[j] # NoWorker => state[j] = "active"
      /\ state[j] \in {"waiting", "active", "delayed"} =>
             tries[j] < MaxAttempts /\ stalls[j] <= MaxStalled
      /\ tries[j] <= MaxAttempts /\ stalls[j] <= MaxStalled + 1
  BY DEF TypeOK, LocksAndAttempts
<1> QED
  BY <1>1, <1>2, AttemptsAssumption DEF JobStep, AfterThrow

LEMMA NextSlots ==
    ASSUME TypeOK, LocksAndAttempts, SlotsPaidFor, [Next]_vars
    PROVE  SlotsPaidFor'
<1> DEFINE Paid(j) == tries[j] + stalls[j]
                      + (IF state[j] \in {"active", "completed"} THEN 1 ELSE 0)
<1>1. ASSUME NEW j \in Job
      PROVE  /\ effects[j] \in Nat /\ Paid(j) \in Nat /\ Cardinality(Unsent(j)) \in Nat
             /\ Cardinality(Unsent(j)') \in Nat
             /\ effects[j] + Cardinality(Unsent(j)) <= Paid(j)
  BY UnsentSize DEF TypeOK, SlotsPaidFor
<1>2. ASSUME NEW j \in Job
      PROVE  Paid(j)' \in Nat /\ Paid(j)' >= Paid(j)
  <2>1. tries[j] \in Nat /\ stalls[j] \in Nat
    BY DEF TypeOK
  <2> QED
    BY <2>1, NextJobStep, <1>1 DEF JobStep
<1>3. ASSUME UNCHANGED effects,
             \A j \in Job : Cardinality(Unsent(j)') <= Cardinality(Unsent(j))
      PROVE  SlotsPaidFor'
  <2>1. ASSUME NEW j \in Job
        PROVE  effects'[j] + Cardinality(Unsent(j)') <= Paid(j)'
    BY <1>1, <1>2, <1>3
  <2> QED
    BY <2>1 DEF SlotsPaidFor
<1>4. ASSUME NEW w \in Worker, NEW i \in Job, Take(w, i)
      PROVE  SlotsPaidFor'
  <2>1. ASSUME NEW j \in Job
        PROVE  effects'[j] + Cardinality(Unsent(j)') <= Paid(j)'
    <3>1. Cardinality(Unsent(j)') <= Cardinality(Unsent(j)) + (IF j = i THEN 1 ELSE 0)
      BY <1>4, TakeUnsent
    <3>2. Paid(j)' = Paid(j) + (IF j = i THEN 1 ELSE 0)
      <4>1. tries[j] \in Nat /\ stalls[j] \in Nat
        BY DEF TypeOK
      <4>2. /\ tries'[j] = tries[j] /\ stalls'[j] = stalls[j]
            /\ state'[j] = (IF j = i THEN "active" ELSE state[j]) /\ state[i] = "waiting"
        BY <1>4 DEF Take, TypeOK
      <4> QED
        BY <4>1, <4>2
    <3>3. effects'[j] = effects[j]
      BY <1>4 DEF Take
    <3> QED
      BY <1>1, <1>2, <3>1, <3>2, <3>3
  <2> QED
    BY <2>1 DEF SlotsPaidFor
<1>5. ASSUME NEW w \in Worker, Process(w)
      PROVE  SlotsPaidFor'
  <2>1. ASSUME NEW j \in Job
        PROVE  effects'[j] + Cardinality(Unsent(j)') <= Paid(j)'
    <3>1. Cardinality(Unsent(j)') <= Cardinality(Unsent(j)) - (IF j = busy[w] THEN 1 ELSE 0)
      BY <1>5, ProcessUnsent
    <3>2. effects'[j] = effects[j] + (IF j = busy[w] THEN 1 ELSE 0)
      BY <1>1, <1>5 DEF Process, TypeOK
    <3> QED
      BY <1>1, <1>2, <3>1, <3>2
  <2> QED
    BY <2>1 DEF SlotsPaidFor
<1>6. ASSUME NEW w \in Worker, Complete(w) \/ Throws(w) \/ Die(w)
      PROVE  SlotsPaidFor'
  <2>1. UNCHANGED effects /\ Idle(w)
    BY <1>6 DEF Complete, Throws, Die, jobVars
  <2> QED
    BY <1>3, <2>1, IdleUnsent
<1>7. CASE UNCHANGED <<effects, busy, did>>
  <2>1. ASSUME NEW j \in Job
        PROVE  Cardinality(Unsent(j)') <= Cardinality(Unsent(j))
    BY <1>1, <1>7, KeptUnsent
  <2> QED
    BY <1>3, <1>7, <2>1
<1>8. ASSUME NEW w \in Worker, Exit(w) \/ Close(w) \/ Start(w)
      PROVE  SlotsPaidFor'
  BY <1>7, <1>8 DEF Exit, Close, Start, jobVars
<1>9. ASSUME NEW j \in Job, BackoffEnds(j) \/ LockExpires(j)
      PROVE  SlotsPaidFor'
  BY <1>7, <1>9 DEF BackoffEnds, LockExpires, workerVars
<1>10. ASSUME NEW o \in Order, Publish(o) \/ PublishFails(o)
       PROVE  SlotsPaidFor'
  BY <1>7, <1>10, QueueSide DEF jobVars, workerVars
<1>11. CASE UNCHANGED vars
  BY <1>7, <1>11 DEF vars, jobVars, workerVars
<1> QED
  BY <1>4, <1>5, <1>6, <1>8, <1>9, <1>10, <1>11 DEF Next, Work, WorkerFault, Recover, Stall

-----------------------------------------------------------------------------
(* The theorems *)

LEMMA InitInv ==
    ASSUME Init
    PROVE  JobInv
<1> USE AttemptsAssumption, WorkerAssumption
<1>1. TypeOK
  BY DEF Init, PubInit, TypeOK
<1>2. MissedForCause /\ JobsFromOrders /\ LocksAndAttempts
  BY DEF Init, PubInit, MissedForCause, JobsFromOrders, LocksAndAttempts
<1>3. SlotsPaidFor
  <2>1. ASSUME NEW j \in Job
        PROVE  Unsent(j) = {}
    BY DEF Init, Unsent
  <2>2. Cardinality({}) = 0
    BY FS_EmptySet
  <2> QED
    BY <2>1, <2>2 DEF Init, SlotsPaidFor
<1> QED
  BY <1>1, <1>2, <1>3 DEF JobInv

LEMMA NextInv ==
    ASSUME JobInv, [Next]_vars
    PROVE  JobInv'
  BY NextTypes, NextMissed, NextJobsFromOrders, NextLocks, NextSlots DEF JobInv

\* Publication, retry, stalls and stops keep the invariant, in any number and order.
THEOREM JobInvariant == Spec => []JobInv
  BY InitInv, NextInv, PTL DEF Spec

\* An order without its mail or its event is one whose publication failed or
\* was cut short (PublisherService.orderCreated has no outbox).
THEOREM MissedJobsHaveACause == Spec => []MissedForCause
<1>1. JobInv => MissedForCause
  BY DEF JobInv
<1> QED
  BY <1>1, JobInvariant, PTL

\* No mail without a placed order, and no more mails than attempts that threw
\* and locks that expired account for, within the retry policy of queues.ts.
THEOREM MailsArePaidFor == Spec => []EffectsPaidFor
<1>1. ASSUME JobInv
      PROVE  EffectsPaidFor
  <2>1. ASSUME NEW j \in Job
        PROVE  /\ effects[j] > 0 => j.order \in placed
               /\ tries[j] <= MaxAttempts /\ stalls[j] <= MaxStalled + 1
    BY <1>1 DEF JobInv, JobsFromOrders, LocksAndAttempts
  <2>2. ASSUME NEW j \in Job
        PROVE  effects[j] <= tries[j] + stalls[j]
                             + (IF state[j] \in {"active", "completed"} THEN 1 ELSE 0)
    <3>1. effects[j] \in Nat /\ tries[j] \in Nat /\ stalls[j] \in Nat
      BY <1>1 DEF JobInv, TypeOK
    <3>2. effects[j] + Cardinality(Unsent(j))
            <= tries[j] + stalls[j] + (IF state[j] \in {"active", "completed"} THEN 1 ELSE 0)
      BY <1>1 DEF JobInv, SlotsPaidFor
    <3> QED
      BY <3>1, <3>2, UnsentSize
  <2> QED
    BY <2>1, <2>2 DEF EffectsPaidFor
<1> QED
  BY <1>1, JobInvariant, PTL
=============================================================================
