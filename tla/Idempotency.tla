---------------------------- MODULE Idempotency ----------------------------
(***************************************************************************)
(* IdempotencyService.run: one record per Idempotency-Key in Redis, read,  *)
(* reserved with SET NX, completed or deleted around an operation that is  *)
(* opaque here: it takes effect at most once per attempt, and it may fail  *)
(* before OR after that.  (OrderService.create does both: DbError aborts,  *)
(* CommitAckLost and ReloadFails come after COMMIT.)  Checkout puts the    *)
(* real operation, module OrderTx, in its place.                           *)
(*                                                                         *)
(* Every Redis command is atomic, and each may fail: either it never ran,  *)
(* or it ran and the reply is lost.  A record expires on its own.          *)
(***************************************************************************)
EXTENDS Integers

CONSTANTS
    Attempt,     \* submissions of requests, retries and duplicates included
    Key,         \* Idempotency-Key values
    NoKey,       \* the header is absent
    KeyOf,       \* KeyOf[a]: the key that submission a carries
    NoAttempt    \* no submission

ASSUME KeyOfAssumption == KeyOf \in [Attempt -> Key \cup {NoKey}]
ASSUME NoKeyAssumption == NoKey \notin Key
ASSUME NoAttemptAssumption == NoAttempt \notin Attempt

VARIABLES
    at,          \* at[a]: what submission a does next
    status,      \* status[k]: the state of record idem:k
    result,      \* result[k]: the submission whose result it stores, if any
    performed,   \* submissions whose operation has taken effect
    answer,      \* answer[a]: what a was answered
    expired      \* expired[k]: some record of k has reached its TTL

vars == <<at, status, result, performed, answer, expired>>

Running == {"operate", "store", "release"}
NoAnswer == [kind |-> "none", of |-> NoAttempt]
Conflict == [kind |-> "conflict", of |-> NoAttempt]
Failure == [kind |-> "error", of |-> NoAttempt]
\* The result of b's operation: fresh when b = a, a replay otherwise.
Success(b) == [kind |-> "success", of |-> b]
Answers == {NoAnswer, Conflict, Failure} \cup {Success(b) : b \in Attempt}

Init ==
    /\ at = [a \in Attempt |-> "idle"]
    /\ status = [k \in Key |-> "absent"]
    /\ result = [k \in Key |-> NoAttempt]
    /\ performed = {}
    /\ answer = [a \in Attempt |-> NoAnswer]
    /\ expired = [k \in Key |-> FALSE]

-----------------------------------------------------------------------------
Finish(a, ans) ==
    /\ at' = [at EXCEPT ![a] = "done"]
    /\ answer' = [answer EXCEPT ![a] = ans]

Goto(a, next) ==
    /\ at' = [at EXCEPT ![a] = next]
    /\ UNCHANGED answer

WriteRecord(k, s, res) ==
    /\ status' = [status EXCEPT ![k] = s]
    /\ result' = [result EXCEPT ![k] = res]

redisVars == <<status, result, expired>>

\* No header: the operation runs unguarded.
Submit(a) ==
    /\ at[a] = "idle"
    /\ Goto(a, IF KeyOf[a] = NoKey THEN "operate" ELSE "get")
    /\ UNCHANGED <<redisVars, performed>>

\* [mutant] Any record is taken for a completed one.
GetReplaysAll(a) ==
    LET k == KeyOf[a]
    IN  /\ at[a] = "get"
        /\ \/ status[k] = "absent" /\ Goto(a, "reserve")
           \/ status[k] # "absent" /\ Finish(a, Success(result[k]))
        /\ UNCHANGED <<redisVars, performed>>

\* GET: nothing, a result to replay, or a reservation.
Get(a) ==
    LET k == KeyOf[a]
    IN  /\ at[a] = "get"
        /\ \/ status[k] = "absent" /\ Goto(a, "reserve")
           \/ status[k] = "completed" /\ Finish(a, Success(result[k]))
           \/ status[k] = "pending" /\ Finish(a, Conflict)
        /\ UNCHANGED <<redisVars, performed>>

GetFails(a) ==
    /\ at[a] = "get"
    /\ Finish(a, Failure)
    /\ UNCHANGED <<redisVars, performed>>

\* [mutant] SET without NX.
ReserveOver(a) ==
    /\ at[a] = "reserve"
    /\ WriteRecord(KeyOf[a], "pending", NoAttempt)
    /\ Goto(a, "operate")
    /\ UNCHANGED <<expired, performed>>

\* SET NX EX finds no record and makes the reservation.
Reserve(a) ==
    /\ at[a] = "reserve"
    /\ status[KeyOf[a]] = "absent"
    /\ WriteRecord(KeyOf[a], "pending", NoAttempt)
    /\ Goto(a, "operate")
    /\ UNCHANGED <<expired, performed>>

\* [mutant] The reservation stands inside the try, whose catch deletes the key.
LoseRaceInTry(a) ==
    /\ at[a] = "reserve"
    /\ status[KeyOf[a]] # "absent"
    /\ WriteRecord(KeyOf[a], "absent", NoAttempt)
    /\ Finish(a, Conflict)
    /\ UNCHANGED <<expired, performed>>

\* SET NX finds a record: another submission has been faster.
LoseRace(a) ==
    /\ at[a] = "reserve"
    /\ status[KeyOf[a]] # "absent"
    /\ Finish(a, Conflict)
    /\ UNCHANGED <<redisVars, performed>>

\* SET NX fails.  It stands outside the try: a reservation that was made
\* although the reply got lost stays behind.
ReserveFails(a) ==
    /\ at[a] = "reserve"
    /\ Finish(a, Failure)
    /\ \/ UNCHANGED <<status, result>>
       \/ /\ status[KeyOf[a]] = "absent"
          /\ WriteRecord(KeyOf[a], "pending", NoAttempt)
    /\ UNCHANGED <<expired, performed>>

\* The operation becomes durable (for an order: COMMIT).
TakeEffect(a) ==
    /\ at[a] = "operate"
    /\ a \notin performed
    /\ performed' = performed \cup {a}
    /\ UNCHANGED <<at, answer, redisVars>>

\* It returns its result.  Without a key that is the answer.
OperationReturns(a) ==
    /\ at[a] = "operate"
    /\ a \in performed
    /\ IF KeyOf[a] = NoKey THEN Finish(a, Success(a)) ELSE Goto(a, "store")
    /\ UNCHANGED <<redisVars, performed>>

\* It throws, before taking effect or after.
OperationFails(a) ==
    /\ at[a] = "operate"
    /\ IF KeyOf[a] = NoKey THEN Finish(a, Failure) ELSE Goto(a, "release")
    /\ UNCHANGED <<redisVars, performed>>

\* SET completed, unconditional.
Store(a) ==
    /\ at[a] = "store"
    /\ WriteRecord(KeyOf[a], "completed", a)
    /\ Finish(a, Success(a))
    /\ UNCHANGED <<expired, performed>>

\* That SET is inside the try: when it fails the record is deleted too.
StoreFails(a) ==
    /\ at[a] = "store"
    /\ \/ UNCHANGED <<status, result>>
       \/ WriteRecord(KeyOf[a], "completed", a)
    /\ Goto(a, "release")
    /\ UNCHANGED <<expired, performed>>

\* DEL, unconditional; the error is rethrown.
Release(a) ==
    /\ at[a] = "release"
    /\ WriteRecord(KeyOf[a], "absent", NoAttempt)
    /\ Finish(a, Failure)
    /\ UNCHANGED <<expired, performed>>

ReleaseFails(a) ==
    /\ at[a] = "release"
    /\ Finish(a, Failure)
    /\ UNCHANGED <<redisVars, performed>>

\* The process ends under the submission: nothing releases the reservation.
Crash(a) ==
    /\ at[a] \in {"get", "reserve"} \cup Running
    /\ Finish(a, Failure)
    /\ UNCHANGED <<redisVars, performed>>

\* [mutant] The reservation is made without EX.
ExpireCompleted(k) ==
    /\ status[k] = "completed"
    /\ \A a \in Attempt : KeyOf[a] = k => at[a] \notin Running
    /\ WriteRecord(k, "absent", NoAttempt)
    /\ expired' = [expired EXCEPT ![k] = TRUE]
    /\ UNCHANGED <<at, answer, performed>>

\* The record reaches its TTL: 24 hours unless configured otherwise, which no
\* running operation lives to see.
Expire(k) ==
    /\ status[k] # "absent"
    /\ \A a \in Attempt : KeyOf[a] = k => at[a] \notin Running
    /\ WriteRecord(k, "absent", NoAttempt)
    /\ expired' = [expired EXCEPT ![k] = TRUE]
    /\ UNCHANGED <<at, answer, performed>>

-----------------------------------------------------------------------------
Step(a) ==
    \/ Get(a) \/ Reserve(a) \/ LoseRace(a)
    \/ TakeEffect(a) \/ OperationReturns(a)
    \/ Store(a) \/ Release(a)

Fault(a) ==
    \/ GetFails(a) \/ ReserveFails(a) \/ OperationFails(a)
    \/ StoreFails(a) \/ ReleaseFails(a) \/ Crash(a)

Next ==
    \/ \E a \in Attempt : Submit(a) \/ Step(a) \/ Fault(a)
    \/ \E k \in Key : Expire(k)

Spec == Init /\ [][Next]_vars

\* Redis replies, operations end, and records expire.
FairSpec ==
    /\ Spec
    /\ \A a \in Attempt : WF_vars(Step(a) \/ OperationFails(a))
    /\ \A k \in Key : WF_vars(Expire(k))

-----------------------------------------------------------------------------
(* Properties *)

TypeOK ==
    /\ at \in [Attempt -> {"idle", "get", "reserve", "done"} \cup Running]
    /\ status \in [Key -> {"absent", "pending", "completed"}]
    /\ result \in [Key -> Attempt \cup {NoAttempt}]
    /\ performed \subseteq Attempt
    /\ answer \in [Attempt -> Answers]
    /\ expired \in [Key -> BOOLEAN]

SameKey(a, b) == KeyOf[a] = KeyOf[b] /\ KeyOf[a] # NoKey

\* "A concurrent retry still in flight: rejected with 409 so we never
\* double-execute": two submissions with one key never execute, store or
\* release at the same time, so neither can overwrite the other's record.
OneAtATime ==
    \A a, b \in Attempt :
        SameKey(a, b) /\ at[a] \in Running /\ at[b] \in Running => a = b

\* What a successful answer promises lasts: it is the result of a performed
\* operation, its own or that of a submission with the same key.  When it is
\* its own, then until the key expires the record is completed with it, so
\* every later submission replays it.
\* (A REPLAY can be withdrawn: the SET of the original may take effect, be
\* replayed, and be deleted because its own reply was lost.)
SuccessIsRemembered ==
    \A a \in Attempt :
        answer[a].kind = "success" =>
            /\ answer[a].of \in performed
            /\ answer[a].of = a \/ SameKey(a, answer[a].of)
            /\ (KeyOf[a] # NoKey /\ answer[a].of = a /\ ~expired[KeyOf[a]]) =>
                   /\ status[KeyOf[a]] = "completed"
                   /\ result[KeyOf[a]] = a

\* The work is done twice under one key only around a failure: until the key
\* expires, all but one of the submissions that performed it were answered with
\* an error (the doc of the service knows of no such case: see Checkout!OneOrderPerKey).
TwiceOnlyAfterFailure ==
    \A a, b \in performed :
        SameKey(a, b) /\ a # b /\ ~expired[KeyOf[a]] =>
            answer[a] = Failure \/ answer[b] = Failure

\* A key is never unusable for good: a reservation nobody will complete (a
\* crash, a lost reply) gives way, at the latest by its TTL.
ReservationsEnd ==
    \A k \in Key : status[k] = "pending" ~> status[k] # "pending"

-----------------------------------------------------------------------------
(* The inductive invariant behind the safety properties *)

\* The reservation of a running submission is its own, up to the moment when
\* it deletes it.
Reserved(a) ==
    KeyOf[a] # NoKey =>
        /\ at[a] \in {"operate", "store"} => status[KeyOf[a]] = "pending"
        /\ at[a] = "release" => \/ status[KeyOf[a]] = "pending"
                                \/ /\ status[KeyOf[a]] = "completed"
                                   /\ result[KeyOf[a]] = a

\* Where a performed submission can be: still running, failed, or remembered.
Accounted(a) ==
    a \in performed /\ KeyOf[a] # NoKey /\ ~expired[KeyOf[a]] =>
        \/ at[a] \in Running
        \/ answer[a] = Failure
        \/ status[KeyOf[a]] = "completed" /\ result[KeyOf[a]] = a

\* Between Submit and the answer nothing has been answered.
Answered(a) ==
    /\ at[a] # "done" <=> answer[a] = NoAnswer
    /\ at[a] \in {"get", "reserve"} => KeyOf[a] # NoKey
    /\ at[a] = "store" => KeyOf[a] # NoKey /\ a \in performed
    /\ at[a] = "release" => KeyOf[a] # NoKey
    /\ at[a] \in {"idle", "get", "reserve"} => a \notin performed

RecordsReal ==
    \A k \in Key :
        status[k] = "completed" => result[k] \in performed /\ KeyOf[result[k]] = k

IInv ==
    /\ TypeOK
    /\ OneAtATime
    /\ SuccessIsRemembered
    /\ RecordsReal
    /\ \A a \in Attempt : Reserved(a) /\ Accounted(a) /\ Answered(a)
=============================================================================
