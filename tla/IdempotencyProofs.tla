------------------------- MODULE IdempotencyProofs -------------------------
(* Proofs about Idempotency, for every set of submissions and keys. *)
EXTENDS Idempotency, TLAPS

\* A submission that carries a key carries one of Key.
LEMMA KeyType ==
    ASSUME NEW a \in Attempt, KeyOf[a] # NoKey
    PROVE  KeyOf[a] \in Key
  BY KeyOfAssumption

LEMMA InitIInv == Init => IInv
  BY NoKeyAssumption, NoAttemptAssumption, KeyType
     DEF Init, IInv, TypeOK, OneAtATime, SuccessIsRemembered, RecordsReal,
         Reserved, Accounted, Answered, Answers, NoAnswer, Running, SameKey,
         Failure, Conflict, Success

LEMMA NextTypeOK == IInv /\ [Next]_vars => TypeOK'
  <1> SUFFICES ASSUME IInv, [Next]_vars
               PROVE  TypeOK'
    OBVIOUS
  <1> USE DEF TypeOK, Running, redisVars
  <1>0. TypeOK
    BY DEF IInv
  <1>1. /\ NoAnswer \in Answers /\ Conflict \in Answers /\ Failure \in Answers
        /\ \A b \in Attempt : Success(b) \in Answers
    BY DEF Answers
  <1>2. ASSUME NEW a \in Attempt, Submit(a)
        PROVE  TypeOK'
    BY <1>0, <1>2 DEF Submit, Goto
  <1>3. ASSUME NEW a \in Attempt, Step(a)
        PROVE  TypeOK'
    <2>1. CASE Get(a)
      <3>1. status[KeyOf[a]] = "completed" => result[KeyOf[a]] \in Attempt
        BY <2>1, KeyType DEF Get, IInv, RecordsReal, Answered
      <3> QED
        BY <1>0, <1>1, <2>1, <3>1 DEF Get, Goto, Finish
    <2>2. CASE Reserve(a)
      BY <1>0, <2>2 DEF Reserve, WriteRecord, Goto
    <2>3. CASE LoseRace(a)
      BY <1>0, <1>1, <2>3 DEF LoseRace, Finish
    <2>4. CASE TakeEffect(a)
      BY <1>0, <2>4 DEF TakeEffect
    <2>5. CASE OperationReturns(a)
      BY <1>0, <1>1, <2>5 DEF OperationReturns, Goto, Finish
    <2>6. CASE Store(a)
      BY <1>0, <1>1, <2>6 DEF Store, WriteRecord, Finish
    <2>7. CASE Release(a)
      BY <1>0, <1>1, <2>7 DEF Release, WriteRecord, Finish
    <2> QED
      BY <1>3, <2>1, <2>2, <2>3, <2>4, <2>5, <2>6, <2>7 DEF Step
  <1>4. ASSUME NEW a \in Attempt, Fault(a)
        PROVE  TypeOK'
    <2>1. CASE GetFails(a)
      BY <1>0, <1>1, <2>1 DEF GetFails, Finish
    <2>2. CASE ReserveFails(a)
      BY <1>0, <1>1, <2>2 DEF ReserveFails, WriteRecord, Finish
    <2>3. CASE OperationFails(a)
      BY <1>0, <1>1, <2>3 DEF OperationFails, Goto, Finish
    <2>4. CASE StoreFails(a)
      BY <1>0, <2>4 DEF StoreFails, WriteRecord, Goto
    <2>5. CASE ReleaseFails(a)
      BY <1>0, <1>1, <2>5 DEF ReleaseFails, Finish
    <2>6. CASE Crash(a)
      BY <1>0, <1>1, <2>6 DEF Crash, Finish
    <2> QED
      BY <1>4, <2>1, <2>2, <2>3, <2>4, <2>5, <2>6 DEF Fault
  <1>5. ASSUME NEW k \in Key, Expire(k)
        PROVE  TypeOK'
    BY <1>0, <1>5 DEF Expire, WriteRecord
  <1>6. CASE UNCHANGED vars
    BY <1>0, <1>6 DEF vars
  <1> QED
    BY <1>2, <1>3, <1>4, <1>5, <1>6 DEF Next

-----------------------------------------------------------------------------
\* The part of IInv that the steps preserve, one step at a time.
Kept ==
    /\ OneAtATime
    /\ SuccessIsRemembered
    /\ RecordsReal
    /\ \A a \in Attempt : Reserved(a) /\ Accounted(a) /\ Answered(a)

LEMMA NextKept == IInv /\ [Next]_vars => Kept'
  <1> SUFFICES ASSUME IInv, [Next]_vars
               PROVE  Kept'
    OBVIOUS
  <1> USE KeyType DEF Kept, OneAtATime, SuccessIsRemembered, RecordsReal,
          Reserved, Accounted, Answered, SameKey, Running, redisVars,
          NoAnswer, Conflict, Failure, Success
  <1>0. TypeOK /\ Kept
    BY DEF IInv
  <1>2. ASSUME NEW a \in Attempt, Submit(a)
        PROVE  Kept'
    BY <1>0, <1>2 DEF Submit, Goto, TypeOK
  <1>3. ASSUME NEW a \in Attempt, Step(a)
        PROVE  Kept'
    <2>1. CASE Get(a)
      BY <1>0, <2>1 DEF Get, Goto, Finish, TypeOK
    <2>2. CASE Reserve(a)
      BY <1>0, <2>2 DEF Reserve, WriteRecord, Goto, TypeOK
    <2>3. CASE LoseRace(a)
      BY <1>0, <2>3 DEF LoseRace, Finish, TypeOK
    <2>4. CASE TakeEffect(a)
      BY <1>0, <2>4 DEF TakeEffect, TypeOK
    <2>5. CASE OperationReturns(a)
      BY <1>0, <2>5 DEF OperationReturns, Goto, Finish, TypeOK
    <2>6. CASE Store(a)
      BY <1>0, <2>6 DEF Store, WriteRecord, Finish, TypeOK
    <2>7. CASE Release(a)
      BY <1>0, <2>7 DEF Release, WriteRecord, Finish, TypeOK
    <2> QED
      BY <1>3, <2>1, <2>2, <2>3, <2>4, <2>5, <2>6, <2>7 DEF Step
  <1>4. ASSUME NEW a \in Attempt, Fault(a)
        PROVE  Kept'
    <2>1. CASE GetFails(a)
      BY <1>0, <2>1 DEF GetFails, Finish, TypeOK
    <2>2. CASE ReserveFails(a)
      BY <1>0, <2>2 DEF ReserveFails, WriteRecord, Finish, TypeOK
    <2>3. CASE OperationFails(a)
      BY <1>0, <2>3 DEF OperationFails, Goto, Finish, TypeOK
    <2>4. CASE StoreFails(a)
      BY <1>0, <2>4 DEF StoreFails, WriteRecord, Goto, TypeOK
    <2>5. CASE ReleaseFails(a)
      BY <1>0, <2>5 DEF ReleaseFails, Finish, TypeOK
    <2>6. CASE Crash(a)
      BY <1>0, <2>6 DEF Crash, Finish, TypeOK
    <2> QED
      BY <1>4, <2>1, <2>2, <2>3, <2>4, <2>5, <2>6 DEF Fault
  <1>5. ASSUME NEW k \in Key, Expire(k)
        PROVE  Kept'
    BY <1>0, <1>5, NoKeyAssumption DEF Expire, WriteRecord, TypeOK
  <1>6. CASE UNCHANGED vars
    BY <1>0, <1>6 DEF vars
  <1> QED
    BY <1>2, <1>3, <1>4, <1>5, <1>6 DEF Next

-----------------------------------------------------------------------------
(* Invariance *)

\* Records, reservations and answers agree in every reachable state.
THEOREM RecordsAndAnswersAgree == Spec => []IInv
  <1>1. IInv /\ [Next]_vars => IInv'
    BY NextTypeOK, NextKept DEF IInv, Kept
  <1> QED
    BY InitIInv, <1>1, PTL DEF Spec

\* Two submissions with one key never execute at the same time, for any
\* number of submissions and any failures.
THEOREM OneExecutionAtATime == Spec => []OneAtATime
  <1>1. IInv => OneAtATime
    BY DEF IInv
  <1> QED
    BY <1>1, RecordsAndAnswersAgree, PTL

\* A submission that was told its own success is what the key replays until
\* it expires.
THEOREM SuccessLasts == Spec => []SuccessIsRemembered
  <1>1. IInv => SuccessIsRemembered
    BY DEF IInv
  <1> QED
    BY <1>1, RecordsAndAnswersAgree, PTL

\* Two performed submissions of a live key: one of them failed, or both run,
\* or both are remembered, or one is and the other holds the reservation; the
\* last three contradict each other.
THEOREM DoubleExecutionNeedsFailure == Spec => []TwiceOnlyAfterFailure
  <1>1. IInv => TwiceOnlyAfterFailure
    <2> SUFFICES ASSUME IInv, NEW a \in performed, NEW b \in performed,
                        SameKey(a, b), a # b, ~expired[KeyOf[a]],
                        answer[a] # Failure, answer[b] # Failure
                 PROVE  FALSE
      BY DEF TwiceOnlyAfterFailure
    <2>0. a \in Attempt /\ b \in Attempt
      BY DEF IInv, TypeOK
    <2>1. /\ Reserved(a) /\ Reserved(b) /\ Accounted(a) /\ Accounted(b)
          /\ OneAtATime
      BY <2>0 DEF IInv
    <2>2. ~ (at[a] \in Running /\ at[b] \in Running)
      BY <2>0, <2>1 DEF OneAtATime
    <2> QED
      BY <2>0, <2>1, <2>2 DEF Reserved, Accounted, SameKey, Running
  <1> QED
    BY <1>1, RecordsAndAnswersAgree, PTL
=============================================================================
