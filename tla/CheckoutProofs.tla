-------------------------- MODULE CheckoutProofs ---------------------------
(***************************************************************************)
(* Checkout implements OrderTx and Idempotency, so that what is proved of  *)
(* each holds of the two together.                                         *)
(***************************************************************************)
EXTENDS Checkout, OrderTxProofs, FiniteSetTheorems, TLAPS

\* The theorems on Idempotency, about the service inside Checkout.
Guard == INSTANCE IdempotencyProofs
         WITH Attempt <- Txn, NoAttempt <- NoTxn, performed <- Performed

-----------------------------------------------------------------------------
(* The order transaction *)

LEMMA CheckoutStepsAreOrderSteps == [CheckoutNext]_checkoutVars => [Next]_vars
  BY DEF CheckoutNext, checkoutVars, ShellStep, Operate, Work, Return,
         ProcessEnds, Next, Fault

\* The service adds nothing to the transaction: the theorems on OrderTx hold.
THEOREM CheckoutRunsOrderTx == CheckoutSpec => ImplementsOrderTx
  BY CheckoutStepsAreOrderSteps, PTL
     DEF CheckoutSpec, CheckoutInit, ImplementsOrderTx, Spec

LEMMA CheckoutIInv == CheckoutSpec => []IInv
  BY CheckoutRunsOrderTx, BookkeepingExact, PTL DEF ImplementsOrderTx

-----------------------------------------------------------------------------
(* The link between the transaction and the service *)

AtOK == at \in [Txn -> {"idle", "get", "reserve", "done", "operate", "store",
                        "release"}]

Link == AtOK /\ RunsInside

LEMMA InitLink == CheckoutInit => Link
  BY DEF CheckoutInit, Init, Shell!Init, Link, AtOK, RunsInside, InTransaction,
         Placed

LEMMA NextLink == Link /\ IInv /\ [CheckoutNext]_checkoutVars => Link'
  <1> SUFFICES ASSUME Link, IInv, [CheckoutNext]_checkoutVars
               PROVE  Link'
    OBVIOUS
  <1> USE DEF Link, AtOK, RunsInside, InTransaction, Placed
  <1>0. TypeOK
    BY DEF IInv
  <1>1. ASSUME NEW t \in Txn, ShellStep(t)
        PROVE  Link'
    <2>1. UNCHANGED pc
      BY <1>1 DEF ShellStep, vars
    <2> QED
      BY <1>1, <2>1
         DEF ShellStep, Shell!Submit, Shell!Get, Shell!GetFails,
             Shell!Reserve, Shell!LoseRace, Shell!ReserveFails, Shell!Store,
             Shell!StoreFails, Shell!Release, Shell!ReleaseFails,
             Shell!Goto, Shell!Finish
  <1>2. ASSUME NEW t \in Txn, NEW c \in Carts, Operate(t, c)
        PROVE  Link'
    BY <1>0, <1>2 DEF Operate, Begin, shellVars, TypeOK
  <1>3. ASSUME NEW t \in Txn, Work(t)
        PROVE  Link'
    <2>1. UNCHANGED at
      BY <1>3 DEF Work, shellVars
    <2>2. \A u \in Txn :
            /\ pc'[u] \in InTransaction \cup Placed
                  => pc[u] \in InTransaction \cup Placed
            /\ pc[u] = "idle" => pc'[u] = "idle"
      <3> SUFFICES ASSUME NEW u \in Txn
                   PROVE  /\ pc'[u] \in InTransaction \cup Placed
                                => pc[u] \in InTransaction \cup Placed
                          /\ pc[u] = "idle" => pc'[u] = "idle"
        OBVIOUS
      <3>1. CASE Step(t)
        <4>1. CASE DeadlockVictim(t)
          <5>1. pc[t] = "lock"
            BY <4>1 DEF DeadlockVictim, Cycle, WaitsFor
          <5> QED
            BY <1>0, <4>1, <5>1 DEF DeadlockVictim, Throw, TypeOK
        <4>2. ASSUME NEW k \in JobKinds, Enqueue(t, k)
              PROVE  pc' = [pc EXCEPT ![t] = pc'[t]]
                     /\ pc'[t] \in {pc[t], "reload"}
                     /\ (pc'[t] = "reload" /\ pc[t] # "reload"
                            => pc[t] = "publish")
          BY <1>0, <4>2 DEF Enqueue, TypeOK
        <4> QED
          BY <1>0, <3>1, <4>1, <4>2
             DEF Step, LockById, ProductNotFound, InsufficientStock,
                 SaveInTransaction, InsertOrder, TotalOutOfRange, Rollback,
                 Commit, CommitEffects, Reload, Throw, TypeOK
      <3>2. CASE Failure(t)
        <4>1. ASSUME NEW k \in JobKinds, EnqueueFails(t, k)
              PROVE  pc' = [pc EXCEPT ![t] = pc'[t]]
                     /\ pc'[t] \in {pc[t], "reload"}
                     /\ (pc'[t] = "reload" /\ pc[t] # "reload"
                            => pc[t] = "publish")
          BY <1>0, <4>1 DEF EnqueueFails, TypeOK
        <4> QED
          BY <1>0, <3>2, <4>1
             DEF Failure, DbError, CommitAckLost, CommitEffects, ReloadFails,
                 Throw, TypeOK
      <3> QED
        BY <1>3, <3>1, <3>2 DEF Work
    <2> QED
      BY <2>1, <2>2
  <1>4. ASSUME NEW t \in Txn, Return(t)
        PROVE  Link'
    BY <1>4
       DEF Return, vars, Shell!OperationReturns, Shell!OperationFails,
           Shell!Goto, Shell!Finish
  <1>5. ASSUME NEW t \in Txn, ProcessEnds(t)
        PROVE  Link'
    <2>1. \/ pc' = [pc EXCEPT ![t] = "done"]
          \/ pc' = pc /\ pc[t] \in {"idle", "done"}
      BY <1>5 DEF ProcessEnds, Crash, vars
    <2>2. \/ at' = [at EXCEPT ![t] = "done"]
          \/ at' = at /\ at[t] = "done"
      BY <1>5 DEF ProcessEnds, Shell!Crash, Shell!Finish, shellVars
    <2>3. /\ pc'[t] \in {"idle", "done"} /\ at'[t] = "done"
          /\ \A u \in Txn \ {t} : pc'[u] = pc[u] /\ at'[u] = at[u]
      BY <1>0, <2>1, <2>2 DEF TypeOK
    <2>4. AtOK'
      BY <2>2
    <2>5. RunsInside'
      BY <2>3
    <2> QED
      BY <2>4, <2>5
  <1>6. ASSUME NEW k \in Key, Shell!Expire(k), UNCHANGED vars
        PROVE  Link'
    BY <1>6 DEF Shell!Expire, vars
  <1>7. ASSUME NEW r \in Row, Admin(r), UNCHANGED shellVars
        PROVE  Link'
    BY <1>7 DEF Admin, Update, SoftDelete, requestVars, shellVars
  <1>8. CASE UNCHANGED checkoutVars
    BY <1>8 DEF checkoutVars, vars, shellVars
  <1> QED
    BY <1>1, <1>2, <1>3, <1>4, <1>5, <1>6, <1>7, <1>8 DEF CheckoutNext

-----------------------------------------------------------------------------
(* The order transaction is an operation as Idempotency expects it *)

LEMMA InitImplements == CheckoutInit => Shell!Init
  BY DEF CheckoutInit

\* COMMIT, and nothing else, performs the operation; it does so once.
LEMMA WorkImplements ==
    ASSUME Link, IInv, NEW t \in Txn, Work(t)
    PROVE  [Shell!Next]_(Shell!vars)
  <1> USE DEF Performed
  <1>1. UNCHANGED shellVars
    BY DEF Work
  <1>2. CASE orders' = orders
    BY <1>1, <1>2 DEF Shell!vars, shellVars
  <1>3. CASE CommitEffects(t)
    <2>1. at[t] = "operate"
      BY <1>3 DEF Link, RunsInside, CommitEffects, InTransaction
    <2>2. t \notin Performed
      BY <1>3 DEF IInv, OrderKnown, HasOrder, CommitEffects, Placed
    <2>3. Performed' = Performed \cup {t}
      <3>1. orders' = orders \cup {OrderOf(t)} /\ OrderOf(t).id = t
        BY <1>3 DEF CommitEffects, OrderOf
      <3> QED
        BY <3>1
    <2>4. Shell!TakeEffect(t)
      BY <1>1, <2>1, <2>2, <2>3 DEF Shell!TakeEffect, Shell!redisVars, shellVars
    <2> QED
      BY <2>4 DEF Shell!Next, Shell!Step
  <1>4. orders' = orders \/ CommitEffects(t)
    BY DEF Work, Step, Failure, LockById, ProductNotFound, InsufficientStock,
           SaveInTransaction, InsertOrder, TotalOutOfRange, DeadlockVictim,
           Rollback, Commit, Enqueue, Reload, DbError, CommitAckLost,
           EnqueueFails, ReloadFails, Throw
  <1> QED
    BY <1>2, <1>3, <1>4

LEMMA NextImplements ==
    Link /\ IInv /\ [CheckoutNext]_checkoutVars => [Shell!Next]_(Shell!vars)
  <1> SUFFICES ASSUME Link, IInv, [CheckoutNext]_checkoutVars
               PROVE  [Shell!Next]_(Shell!vars)
    OBVIOUS
  <1>0. ASSUME UNCHANGED orders, UNCHANGED shellVars
        PROVE  UNCHANGED Shell!vars
    BY <1>0 DEF Shell!vars, shellVars, Performed
  <1>1. ASSUME NEW t \in Txn, ShellStep(t)
        PROVE  Shell!Next
    BY <1>1 DEF ShellStep, Shell!Next, Shell!Step, Shell!Fault
  <1>2. ASSUME NEW t \in Txn, NEW c \in Carts, Operate(t, c)
        PROVE  UNCHANGED Shell!vars
    BY <1>0, <1>2 DEF Operate, Begin
  <1>3. ASSUME NEW t \in Txn, Return(t)
        PROVE  Shell!Next
    BY <1>3 DEF Return, Shell!Next, Shell!Step, Shell!Fault
  <1>4. ASSUME NEW t \in Txn, ProcessEnds(t)
        PROVE  [Shell!Next]_(Shell!vars)
    <2>1. UNCHANGED orders
      BY <1>4 DEF ProcessEnds, Crash, vars
    <2> QED
      BY <1>0, <1>4, <2>1 DEF ProcessEnds, Shell!Next, Shell!Fault
  <1>5. ASSUME NEW k \in Key, Shell!Expire(k)
        PROVE  Shell!Next
    BY <1>5 DEF Shell!Next
  <1>6. ASSUME NEW r \in Row, Admin(r), UNCHANGED shellVars
        PROVE  UNCHANGED Shell!vars
    BY <1>0, <1>6 DEF Admin, Update, SoftDelete
  <1>7. CASE UNCHANGED checkoutVars
    BY <1>0, <1>7 DEF checkoutVars, vars
  <1> QED
    BY <1>1, <1>2, <1>3, <1>4, <1>5, <1>6, <1>7, WorkImplements
       DEF CheckoutNext

LEMMA CheckoutLink == CheckoutSpec => []Link
  BY InitLink, NextLink, CheckoutIInv, PTL DEF CheckoutSpec

\* The order transaction takes effect at COMMIT, once per submission and inside
\* its reservation: the operation that Idempotency assumes.
THEOREM CheckoutImplementsIdempotency == CheckoutSpec => ImplementsIdempotency
  BY InitImplements, NextImplements, CheckoutIInv, CheckoutLink, PTL
     DEF CheckoutSpec, ImplementsIdempotency, Shell!Spec

-----------------------------------------------------------------------------
(* What follows for orders *)

\* Shell and Guard are one system under two names.
LEMMA SameInit == Shell!Init => Guard!Init
  BY DEF Shell!Init, Guard!Init, Shell!NoAnswer, Guard!NoAnswer

LEMMA SameNext == [Shell!Next]_(Shell!vars) => [Guard!Next]_(Guard!vars)
  BY DEF Shell!Submit, Guard!Submit, Shell!Get, Guard!Get, Shell!GetFails,
           Guard!GetFails, Shell!Reserve, Guard!Reserve, Shell!LoseRace,
           Guard!LoseRace, Shell!ReserveFails, Guard!ReserveFails,
           Shell!TakeEffect, Guard!TakeEffect, Shell!OperationReturns,
           Guard!OperationReturns, Shell!OperationFails,
           Guard!OperationFails, Shell!Store, Guard!Store, Shell!StoreFails,
           Guard!StoreFails, Shell!Release, Guard!Release,
           Shell!ReleaseFails, Guard!ReleaseFails, Shell!Crash, Guard!Crash,
           Shell!Expire, Guard!Expire, Shell!Goto, Guard!Goto, Shell!Finish,
           Guard!Finish, Shell!WriteRecord, Guard!WriteRecord,
           Shell!redisVars, Guard!redisVars, Shell!NoAnswer, Guard!NoAnswer,
           Shell!Conflict, Guard!Conflict, Shell!Failure, Guard!Failure,
           Shell!Success, Guard!Success, Shell!Running, Guard!Running,
           Shell!Step, Guard!Step, Shell!Fault, Guard!Fault, Shell!Next,
           Guard!Next, Shell!vars, Guard!vars

LEMMA SameSystem == Shell!Spec => Guard!Spec
  BY SameInit, SameNext, PTL DEF Shell!Spec, Guard!Spec

LEMMA CheckoutTwice == CheckoutSpec => []Guard!TwiceOnlyAfterFailure
  <1>1. Guard!Spec => []Guard!TwiceOnlyAfterFailure
    BY Guard!DoubleExecutionNeedsFailure, KeyAssumption, NoTxnAssumption
  <1> QED
    BY <1>1, SameSystem, CheckoutImplementsIdempotency, PTL
       DEF ImplementsIdempotency

\* However many submissions share a key, and however they interleave: as long
\* as none of them was answered with an error, they cost one order.
THEOREM DuplicatesShareOneOrder == CheckoutSpec => []DuplicatesCostOneOrder
  <1>1. Guard!TwiceOnlyAfterFailure => DuplicatesCostOneOrder
    <2> SUFFICES ASSUME Guard!TwiceOnlyAfterFailure, NEW k \in Key, ~expired[k],
                        \A t \in {t \in Txn : KeyOf[t] = k} :
                            answer[t].kind # "error"
                 PROVE  Cardinality({t \in Txn : KeyOf[t] = k} \cap Performed) <= 1
      BY DEF DuplicatesCostOneOrder
    <2> DEFINE Both == {t \in Txn : KeyOf[t] = k} \cap Performed
    <2>1. \A s, t \in Both : s = t
      BY KeyAssumption
         DEF Guard!TwiceOnlyAfterFailure, Guard!SameKey, Guard!Failure
    <2>2. CASE Both = {}
      BY <2>2, FS_EmptySet
    <2>3. CASE Both # {}
      <3>1. PICK t \in Both : Both = {t}
        BY <2>1, <2>3
      <3>2. Cardinality({t}) = 1
        BY FS_Singleton
      <3>3. Cardinality(Both) = 1
        BY ONLY <3>1, <3>2
      <3> QED
        BY ONLY <3>3
    <2> QED
      BY <2>2, <2>3
  <1> QED
    BY <1>1, CheckoutTwice, PTL

\* A 201 shows an order that COMMIT has made durable, the submission's own or
\* that of a submission with the same key, for any mix of keys and failures.
THEOREM AnswersShowRealOrders == CheckoutSpec => []AnswersShowOrders
  <1>1. Guard!Spec => []Guard!SuccessIsRemembered
    BY Guard!SuccessLasts, KeyAssumption, NoTxnAssumption
  <1>2. Guard!SuccessIsRemembered => AnswersShowOrders
    BY DEF Guard!SuccessIsRemembered, AnswersShowOrders, Guard!SameKey, Shell!SameKey
  <1> QED
    BY <1>1, <1>2, SameSystem, CheckoutImplementsIdempotency, PTL
       DEF ImplementsIdempotency
=============================================================================
