----------------------------- MODULE Checkout ------------------------------
(***************************************************************************)
(* POST /orders as a whole: OrderService.create is IdempotencyService.run  *)
(* around the order transaction.  The state is that of OrderTx and that of *)
(* Idempotency, except that "performed" is not stored: a submission has    *)
(* been performed when its order is in the orders table.                   *)
(*                                                                         *)
(* A submission, its request and its transaction share one name.  A crash  *)
(* of the process ends all three at once.                                  *)
(***************************************************************************)
EXTENDS OrderTx

CONSTANTS
    Key,       \* Idempotency-Key values
    NoKey,     \* the header is absent
    KeyOf      \* KeyOf[t]: the key that submission t carries

ASSUME KeyAssumption == KeyOf \in [Txn -> Key \cup {NoKey}] /\ NoKey \notin Key

VARIABLES at, status, result, answer, expired   \* as in Idempotency

shellVars == <<at, status, result, answer, expired>>
checkoutVars == <<vars, shellVars>>

Performed == {o.id : o \in orders}

Shell == INSTANCE Idempotency
         WITH Attempt <- Txn, NoAttempt <- NoTxn, performed <- Performed

CheckoutInit == Init /\ Shell!Init

\* The service talks to Redis; the order does not move.
ShellStep(t) ==
    /\ UNCHANGED vars
    /\ \/ Shell!Submit(t)  \/ Shell!Get(t)       \/ Shell!GetFails(t)
       \/ Shell!Reserve(t) \/ Shell!LoseRace(t)  \/ Shell!ReserveFails(t)
       \/ Shell!Store(t)   \/ Shell!StoreFails(t)
       \/ Shell!Release(t) \/ Shell!ReleaseFails(t)

\* [mutant] The order is started before the key is reserved.
OperateEarly(t, c) ==
    /\ at[t] \in {"get", "reserve", "operate"}
    /\ Begin(t, c)
    /\ UNCHANGED shellVars

\* The callback of run starts ...
Operate(t, c) ==
    /\ at[t] = "operate"
    /\ Begin(t, c)
    /\ UNCHANGED shellVars

\* ... proceeds, its background publication possibly beyond the answer ...
Work(t) ==
    /\ Step(t) \/ Failure(t)
    /\ UNCHANGED shellVars

\* ... and returns the order, or throws.
Return(t) ==
    /\ pc[t] = "done"
    /\ UNCHANGED vars
    /\ \/ outcome[t] = "created" /\ Shell!OperationReturns(t)
       \/ outcome[t] # "created" /\ Shell!OperationFails(t)

\* The process ends: the transaction is rolled back, the Redis record stays.
ProcessEnds(t) ==
    /\ \/ Crash(t)
       \/ pc[t] \in {"idle", "done"} /\ sending[t] = {} /\ UNCHANGED vars
    /\ \/ Shell!Crash(t)
       \/ at[t] = "done" /\ sending[t] # {} /\ UNCHANGED shellVars

CheckoutNext ==
    \/ \E t \in Txn : \/ ShellStep(t)
                      \/ \E c \in Carts : Operate(t, c)
                      \/ Work(t)
                      \/ Return(t)
                      \/ ProcessEnds(t)
    \/ \E k \in Key : UNCHANGED vars /\ Shell!Expire(k)
    \/ \E r \in Row : Admin(r) /\ UNCHANGED shellVars

CheckoutSpec == CheckoutInit /\ [][CheckoutNext]_checkoutVars

-----------------------------------------------------------------------------
(* Properties *)

\* The real operation behaves as the opaque one of Idempotency: it takes
\* effect once per submission, between the reservation and the answer, however
\* its transaction, its publication and its crashes interleave with the Redis
\* commands of every other submission.
ImplementsIdempotency == Shell!Spec

\* Running inside the service adds no behaviour to the order transaction, so
\* whatever holds of OrderTx holds here.
ImplementsOrderTx == Spec

\* A 201 shows an order that is in the database and was placed by a submission
\* with the same key; a replay never shows an order that was rolled back.
AnswersShowOrders ==
    \A t \in Txn :
        answer[t].kind = "success" =>
            /\ answer[t].of \in Performed
            /\ answer[t].of = t \/ Shell!SameKey(t, answer[t].of)

\* Duplicate submissions cost one order, as long as none of them failed.
DuplicatesCostOneOrder ==
    \A k \in Key :
        LET same == {t \in Txn : KeyOf[t] = k}
        IN  ~expired[k] /\ (\A t \in same : answer[t].kind # "error")
            => Cardinality(same \cap Performed) <= 1

\* "retried/duplicated submissions never create a second order or
\* double-decrement stock" (src/README.md:442-443), until the key expires.
OneOrderPerKey ==
    \A s, t \in Performed :
        Shell!SameKey(s, t) /\ ~expired[KeyOf[s]] => s = t

-----------------------------------------------------------------------------
\* The link between the two halves: from BEGIN until it is done, a request runs
\* inside the operate step of its submission, and not before it.
RunsInside ==
    \A t \in Txn :
        /\ pc[t] \in InTransaction \cup Placed => at[t] = "operate"
        /\ at[t] \in {"idle", "get", "reserve"} => pc[t] = "idle"
=============================================================================
