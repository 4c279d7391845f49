------------------------------ MODULE OrderTx ------------------------------
(***************************************************************************)
(* OrderService.create and the PostgreSQL transaction it runs: concurrent  *)
(* order requests lock product rows (SELECT ... FOR UPDATE), check and     *)
(* decrement stock, insert the order, commit, and publish two background   *)
(* jobs, while administrators update and soft-delete the same products.    *)
(*                                                                         *)
(* One element of Txn is one request, and the transaction that serves it.  *)
(* Product ids are SPELLINGS: the validator accepts any case of a UUID     *)
(* (src/src/modules/orders/validators/order.validator.ts:9), the service   *)
(* merges and sorts the strings, and only PostgreSQL folds them together.  *)
(* RowOf names the row a spelling denotes, Rank is the order in which      *)
(* Array.prototype.sort puts the spellings.                                *)
(*                                                                         *)
(* PostgreSQL at READ COMMITTED is external to the repository.  It is      *)
(* modelled by what the service relies on: one owner per row lock, the     *)
(* latest committed version (or the transaction's own) read under it,      *)
(* nothing visible before COMMIT, everything dropped by ROLLBACK, and a    *)
(* detector that aborts a transaction of a wait cycle.  Money is in cents. *)
(***************************************************************************)
EXTENDS Integers, FiniteSets, Functions

CONSTANTS
    Txn,          \* order requests
    NoTxn,        \* the owner of an unlocked row
    Row,          \* rows of the products table
    Id,           \* spellings of product ids that requests use
    RowOf,        \* RowOf[i]: the row that spelling i denotes
    Rank,         \* Rank[i]: place of i in the string order of the spellings
    Carts,        \* merged carts a request may carry: spelling -> quantity
    Prices,       \* unit prices (in cents) products may have
    MaxInt,       \* largest value of products.stock (an int column)
    MaxMoney,     \* largest value of orders.total (a numeric(12,2) column)
    MaxAdminOps   \* bound on the administrators' operations

ASSUME NoTxnAssumption == NoTxn \notin Txn
ASSUME RowOfAssumption == RowOf \in [Id -> Row]
\* A table has finitely many rows.
ASSUME RowAssumption == IsFiniteSet(Row)
\* Distinct strings never compare equal.
ASSUME RankAssumption ==
    /\ Rank \in [Id -> Nat]
    /\ \A i, j \in Id : Rank[i] = Rank[j] => i = j
\* The validator wants at least one line, and positive integer quantities.
ASSUME CartsAssumption ==
    \A c \in Carts :
        /\ DOMAIN c \in (SUBSET Id) \ {{}} /\ IsFiniteSet(DOMAIN c)
        /\ c \in [DOMAIN c -> Nat \ {0}]
ASSUME BoundsAssumption ==
    /\ Prices \subseteq Nat
    /\ MaxInt \in Nat
    /\ MaxMoney \in Nat
    /\ MaxAdminOps \in Nat

VARIABLES
    \* --- the request, in the API process
    pc,           \* pc[t]: what request t does next
    cart,         \* cart[t]: its merged lines; none before it arrives
    todo,         \* todo[t]: spellings its loop has still to process
    seen,         \* seen[t]: stock and price of the row it has just locked
    items,        \* items[t][r]: units of row r pushed to the order's items
    unit,         \* unit[t][r]: the unit price pushed with them
    total,        \* total[t]: the running total
    outcome,      \* outcome[t]: how the request went
    sending,      \* sending[t]: jobs whose enqueueing is under way
    \* --- PostgreSQL
    owner,        \* owner[r]: the transaction that holds r's row lock
    dirty,        \* dirty[t]: rows t has updated and not committed
    written,      \* written[t][r]: the stock it wrote to such a row
    stock, price, listed,   \* the committed columns of products
    orders,       \* the committed orders
    \* --- Redis
    jobs,         \* jobs ever added to the email and analytics queues
    \* --- for the properties and the bounds only
    supplied,     \* supplied[r]: units of r administrators ever put on sale
    adminOps      \* administrators' operations so far

requestVars == <<pc, cart, todo, seen, items, unit, total, outcome, sending>>
lockVars == <<owner, dirty, written>>
productVars == <<stock, price, listed, supplied, adminOps>>
loopVars == <<todo, seen, items, unit, total>>
vars == <<pc, cart, todo, seen, items, unit, total, outcome, sending,
          owner, dirty, written, stock, price, listed, orders, jobs,
          supplied, adminOps>>

JobKinds == {"email", "analytics"}
InTransaction == {"lock", "save", "insert", "commit", "rollback"}
Placed == {"publish", "reload"}
Stock == 0..MaxInt
NoCart == [i \in {} |-> 0]
NoItems == [r \in Row |-> 0]
NoSight == [stock |-> 0, price |-> 0]

Init ==
    /\ pc = [t \in Txn |-> "idle"]
    /\ cart = [t \in Txn |-> NoCart]
    /\ todo = [t \in Txn |-> {}]
    /\ seen = [t \in Txn |-> NoSight]
    /\ items = [t \in Txn |-> NoItems]
    /\ unit = [t \in Txn |-> NoItems]
    /\ total = [t \in Txn |-> 0]
    /\ outcome = [t \in Txn |-> "none"]
    /\ sending = [t \in Txn |-> {}]
    /\ owner = [r \in Row |-> NoTxn]
    /\ dirty = [t \in Txn |-> {}]
    /\ written = [t \in Txn |-> NoItems]
    /\ stock \in [Row -> Stock]
    /\ price \in [Row -> Prices]
    /\ listed \in [Row -> BOOLEAN]
    /\ orders = {}
    /\ jobs = {}
    /\ supplied = stock
    /\ adminOps = 0

-----------------------------------------------------------------------------
(* Helpers *)

\* i is the spelling the loop of t processes now: the ids are sorted.
IsNext(t, i) ==
    /\ i \in todo[t]
    /\ \A j \in todo[t] : Rank[i] <= Rank[j]

\* [mutant] A row met again is read as if t had not updated it.
VisibleCommitted(t, r) == stock[r]

\* What t reads in row r: its own update, or the committed version.
Visible(t, r) == IF r \in dirty[t] THEN written[t][r] ELSE stock[r]

\* [mutant] The connection goes back to the pool with its locks.
EndTransactionLocked(t) ==
    /\ todo' = [todo EXCEPT ![t] = {}]
    /\ seen' = [seen EXCEPT ![t] = NoSight]
    /\ items' = [items EXCEPT ![t] = NoItems]
    /\ unit' = [unit EXCEPT ![t] = NoItems]
    /\ total' = [total EXCEPT ![t] = 0]
    /\ owner' = owner
    /\ dirty' = [dirty EXCEPT ![t] = {}]
    /\ written' = [written EXCEPT ![t] = NoItems]

\* The end of t's transaction: its locks go, its workspace, and the variables
\* of the callback.
EndTransaction(t) ==
    /\ todo' = [todo EXCEPT ![t] = {}]
    /\ seen' = [seen EXCEPT ![t] = NoSight]
    /\ items' = [items EXCEPT ![t] = NoItems]
    /\ unit' = [unit EXCEPT ![t] = NoItems]
    /\ total' = [total EXCEPT ![t] = 0]
    /\ owner' = [r \in Row |-> IF owner[r] = t THEN NoTxn ELSE owner[r]]
    /\ dirty' = [dirty EXCEPT ![t] = {}]
    /\ written' = [written EXCEPT ![t] = NoItems]

\* [mutant] The callback swallows the exception, so TypeORM commits.
ThrowSwallowed(t, why) ==
    /\ pc' = [pc EXCEPT ![t] = "commit"]
    /\ outcome' = [outcome EXCEPT ![t] = why]
    /\ UNCHANGED <<cart, loopVars, sending, lockVars, productVars, orders, jobs>>

\* t throws inside the transaction callback; TypeORM then rolls back.
Throw(t, why) ==
    /\ pc' = [pc EXCEPT ![t] = "rollback"]
    /\ outcome' = [outcome EXCEPT ![t] = why]
    /\ UNCHANGED <<cart, loopVars, sending, lockVars, productVars, orders, jobs>>

\* The order t inserts.  Its id is fresh; the request's name stands for it.
OrderOf(t) == [id |-> t, qty |-> items[t], unitPrice |-> unit[t],
               total |-> total[t]]

\* t waits for the row lock that u holds.
WaitsFor(t, u) ==
    /\ pc[t] = "lock"
    /\ u # t
    /\ \E i \in Id : IsNext(t, i) /\ owner[RowOf[i]] = u

\* Every member of S waits for another one, and some other waits for it.
Cycle(S) ==
    /\ S # {}
    /\ \A t \in S : /\ \E u \in S : WaitsFor(t, u)
                    /\ \E u \in S : WaitsFor(u, t)

-----------------------------------------------------------------------------
(* The request *)

\* Lines merged per spelling, spellings sorted, BEGIN.
Begin(t, c) ==
    /\ pc[t] = "idle"
    /\ pc' = [pc EXCEPT ![t] = "lock"]
    /\ cart' = [cart EXCEPT ![t] = c]
    /\ todo' = [todo EXCEPT ![t] = DOMAIN c]
    /\ UNCHANGED <<seen, items, unit, total, outcome, sending, lockVars,
                   productVars, orders, jobs>>

\* [mutant] A plain SELECT: no waiting for the lock of another transaction.
LockByIdUnlocked(t, i) ==
    /\ pc[t] = "lock"
    /\ IsNext(t, i)
    /\ listed[RowOf[i]]
    /\ owner' = [owner EXCEPT ![RowOf[i]] = t]
    /\ seen' = [seen EXCEPT ![t] = [stock |-> Visible(t, RowOf[i]),
                                    price |-> price[RowOf[i]]]]
    /\ pc' = [pc EXCEPT ![t] = "save"]
    /\ UNCHANGED <<cart, todo, items, unit, total, outcome, sending, dirty,
                   written, productVars, orders, jobs>>

\* SELECT ... FOR UPDATE returns the row: t holds its lock from here on.
LockById(t, i) ==
    /\ pc[t] = "lock"
    /\ IsNext(t, i)
    /\ owner[RowOf[i]] \in {NoTxn, t}
    /\ listed[RowOf[i]]
    /\ owner' = [owner EXCEPT ![RowOf[i]] = t]
    /\ seen' = [seen EXCEPT ![t] = [stock |-> Visible(t, RowOf[i]),
                                    price |-> price[RowOf[i]]]]
    /\ pc' = [pc EXCEPT ![t] = "save"]
    /\ UNCHANGED <<cart, todo, items, unit, total, outcome, sending, dirty,
                   written, productVars, orders, jobs>>

\* The query returns nothing: the product is absent or soft-deleted.
ProductNotFound(t, i) ==
    /\ pc[t] = "lock"
    /\ IsNext(t, i)
    /\ ~listed[RowOf[i]]
    /\ Throw(t, "notFound")

\* [mutants] The comparison is off by one, one way or the other.
EnoughStockPlusOne(t, i) == cart[t][i] <= seen[t].stock + 1
EnoughStockStrict(t, i) == cart[t][i] < seen[t].stock

\* The check of the quantity against the stock read under the lock.
EnoughStock(t, i) == cart[t][i] <= seen[t].stock

InsufficientStock(t, i) ==
    /\ pc[t] = "save"
    /\ IsNext(t, i)
    /\ ~EnoughStock(t, i)
    /\ Throw(t, "insufficient")

\* [mutant] A second line of the row replaces the first.
PushLineOver(t, r, n) ==
    /\ items' = [items EXCEPT ![t][r] = n]
    /\ unit' = [unit EXCEPT ![t][r] = seen[t].price]
    /\ total' = [total EXCEPT ![t] = @ + seen[t].price * n]

\* n units of row r, at the price just read, join the order's items and total.
PushLine(t, r, n) ==
    /\ items' = [items EXCEPT ![t][r] = @ + n]
    /\ unit' = [unit EXCEPT ![t][r] = seen[t].price]
    /\ total' = [total EXCEPT ![t] = @ + seen[t].price * n]

\* The entity read under the lock is decremented and written back; the line
\* joins the order; the loop goes on, or ends.
SaveInTransaction(t, i) ==
    LET r == RowOf[i]
    IN  /\ pc[t] = "save"
        /\ IsNext(t, i)
        /\ EnoughStock(t, i)
        /\ dirty' = [dirty EXCEPT ![t] = @ \cup {r}]
        /\ written' = [written EXCEPT ![t][r] = seen[t].stock - cart[t][i]]
        /\ PushLine(t, r, cart[t][i])
        /\ todo' = [todo EXCEPT ![t] = @ \ {i}]
        /\ seen' = [seen EXCEPT ![t] = NoSight]
        /\ pc' = [pc EXCEPT ![t] = IF todo[t] = {i} THEN "insert" ELSE "lock"]
        /\ UNCHANGED <<cart, outcome, sending, owner, productVars, orders, jobs>>

\* [mutant] The jobs are published inside the transaction.
InsertOrderAndPublish(t) ==
    /\ pc[t] = "insert"
    /\ total[t] <= MaxMoney
    /\ pc' = [pc EXCEPT ![t] = "commit"]
    /\ sending' = [sending EXCEPT ![t] = JobKinds]
    /\ UNCHANGED <<cart, loopVars, outcome, lockVars, productVars, orders, jobs>>

\* The order and its items are inserted; nobody else sees them yet.
InsertOrder(t) ==
    /\ pc[t] = "insert"
    /\ total[t] <= MaxMoney
    /\ pc' = [pc EXCEPT ![t] = "commit"]
    /\ UNCHANGED <<cart, loopVars, outcome, sending, lockVars, productVars,
                   orders, jobs>>

\* orders.total overflows: PostgreSQL refuses the INSERT.
TotalOutOfRange(t) ==
    /\ pc[t] = "insert"
    /\ total[t] > MaxMoney
    /\ Throw(t, "error")

\* Any statement of the transaction, COMMIT included, may fail.
DbError(t) ==
    /\ pc[t] \in InTransaction \ {"rollback"}
    /\ Throw(t, "error")

\* PostgreSQL breaks a wait cycle by failing a member's statement.
DeadlockVictim(t) ==
    /\ \E S \in SUBSET Txn : t \in S /\ Cycle(S)
    /\ Throw(t, "error")

Rollback(t) ==
    /\ pc[t] = "rollback"
    /\ EndTransaction(t)
    /\ pc' = [pc EXCEPT ![t] = "done"]
    /\ UNCHANGED <<cart, outcome, sending, productVars, orders, jobs>>

\* COMMIT takes effect: stock and order become visible, the locks go.
CommitEffects(t) ==
    /\ pc[t] = "commit"
    /\ stock' = [r \in Row |-> Visible(t, r)]
    /\ orders' = orders \cup {OrderOf(t)}
    /\ EndTransaction(t)
    /\ UNCHANGED <<cart, price, listed, supplied, adminOps, jobs>>

\* publishSideEffects starts once COMMIT has answered.
Commit(t) ==
    /\ CommitEffects(t)
    /\ pc' = [pc EXCEPT ![t] = "publish"]
    /\ sending' = [sending EXCEPT ![t] = JobKinds]
    /\ UNCHANGED outcome

\* COMMIT took effect but its answer is lost with the connection: the request
\* fails although the order is placed.
CommitAckLost(t) ==
    /\ CommitEffects(t)
    /\ pc' = [pc EXCEPT ![t] = "done"]
    /\ outcome' = [outcome EXCEPT ![t] = "error"]
    /\ UNCHANGED sending

\* Promise.all over two Queue.add calls.  One of them arrives ...
Enqueue(t, k) ==
    /\ k \in sending[t]
    /\ jobs' = jobs \cup {[kind |-> k, order |-> t]}
    /\ sending' = [sending EXCEPT ![t] = @ \ {k}]
    /\ pc' = [pc EXCEPT ![t] = IF @ = "publish" /\ sending[t] = {k}
                               THEN "reload" ELSE @]
    /\ UNCHANGED <<cart, loopVars, outcome, lockVars, productVars, orders>>

\* ... or rejects, added or not: that is logged, and ends the wait for both.
EnqueueFails(t, k) ==
    /\ k \in sending[t]
    /\ jobs' \in {jobs, jobs \cup {[kind |-> k, order |-> t]}}
    /\ sending' = [sending EXCEPT ![t] = @ \ {k}]
    /\ pc' = [pc EXCEPT ![t] = IF @ = "publish" THEN "reload" ELSE @]
    /\ UNCHANGED <<cart, loopVars, outcome, lockVars, productVars, orders>>

\* findById re-reads the order, and the answer is 201 ...
Reload(t) ==
    /\ pc[t] = "reload"
    /\ pc' = [pc EXCEPT ![t] = "done"]
    /\ outcome' = [outcome EXCEPT ![t] = "created"]
    /\ UNCHANGED <<cart, loopVars, sending, lockVars, productVars, orders, jobs>>

\* ... or that query fails and the request answers 500, the order being placed.
ReloadFails(t) ==
    /\ pc[t] = "reload"
    /\ pc' = [pc EXCEPT ![t] = "done"]
    /\ outcome' = [outcome EXCEPT ![t] = "error"]
    /\ UNCHANGED <<cart, loopVars, sending, lockVars, productVars, orders, jobs>>

\* The process ends under the request: shutdown awaits no request in flight.
Crash(t) ==
    /\ pc[t] \in InTransaction \cup Placed \/ sending[t] # {}
    /\ pc' = [pc EXCEPT ![t] = "done"]
    /\ outcome' = [outcome EXCEPT ![t] = IF @ = "created" THEN @ ELSE "error"]
    /\ sending' = [sending EXCEPT ![t] = {}]
    /\ EndTransaction(t)
    /\ UNCHANGED <<cart, productVars, orders, jobs>>

-----------------------------------------------------------------------------
(* The administrators: single statements, each its own transaction *)

\* UPDATE products SET stock, price WHERE id: absolute values, any row.
Update(r, s, p) ==
    /\ adminOps < MaxAdminOps
    /\ owner[r] = NoTxn
    /\ adminOps' = adminOps + 1
    /\ stock' = [stock EXCEPT ![r] = s]
    /\ price' = [price EXCEPT ![r] = p]
    /\ supplied' = [supplied EXCEPT ![r] = @ + s - stock[r]]
    /\ UNCHANGED <<requestVars, lockVars, listed, orders, jobs>>

\* UPDATE products SET deletedAt WHERE id.
SoftDelete(r) ==
    /\ adminOps < MaxAdminOps
    /\ owner[r] = NoTxn
    /\ adminOps' = adminOps + 1
    /\ listed' = [listed EXCEPT ![r] = FALSE]
    /\ UNCHANGED <<requestVars, lockVars, stock, price, supplied, orders, jobs>>

-----------------------------------------------------------------------------
Step(t) ==
    \/ \E i \in Id : \/ LockById(t, i)
                     \/ ProductNotFound(t, i)
                     \/ InsufficientStock(t, i)
                     \/ SaveInTransaction(t, i)
    \/ InsertOrder(t)
    \/ TotalOutOfRange(t)
    \/ DeadlockVictim(t)
    \/ Rollback(t)
    \/ Commit(t)
    \/ \E k \in JobKinds : Enqueue(t, k)
    \/ Reload(t)

Failure(t) ==
    \/ DbError(t)
    \/ CommitAckLost(t)
    \/ \E k \in JobKinds : EnqueueFails(t, k)
    \/ ReloadFails(t)

Fault(t) == Failure(t) \/ Crash(t)

Admin(r) ==
    \/ \E s \in Stock, p \in Prices : Update(r, s, p)
    \/ SoftDelete(r)

Next ==
    \/ \E t \in Txn : \/ \E c \in Carts : Begin(t, c)
                      \/ Step(t)
                      \/ Fault(t)
    \/ \E r \in Row : Admin(r)

Spec == Init /\ [][Next]_vars

\* Statements PostgreSQL can execute return, and Redis answers; a wait cycle
\* is detected.  No request has to arrive, and nothing has to fail.
FairSpec == Spec /\ \A t \in Txn : WF_vars(Step(t))

-----------------------------------------------------------------------------
(* Properties *)

Order == [id : Txn, qty : [Row -> Nat], unitPrice : [Row -> Nat],
          total : 0..MaxMoney]

\* Every variable stays in its range.  In particular no uncommitted and no
\* committed stock is ever negative or wider than the column (the migration
\* puts no CHECK on products.stock, so only the service guarantees it), and no
\* order total exceeds numeric(12,2).
TypeOK ==
    /\ pc \in [Txn -> {"idle", "done"} \cup InTransaction \cup Placed]
    /\ cart \in [Txn -> Carts \cup {NoCart}]
    /\ todo \in [Txn -> SUBSET Id]
    /\ \A t \in Txn : todo[t] \subseteq DOMAIN cart[t]
    /\ seen \in [Txn -> [stock : Stock, price : Nat]]
    /\ items \in [Txn -> [Row -> Nat]]
    /\ unit \in [Txn -> [Row -> Nat]]
    /\ total \in [Txn -> Nat]
    /\ outcome \in [Txn -> {"none", "created", "notFound", "insufficient",
                            "error"}]
    /\ sending \in [Txn -> SUBSET JobKinds]
    /\ owner \in [Row -> Txn \cup {NoTxn}]
    /\ dirty \in [Txn -> SUBSET Row]
    /\ written \in [Txn -> [Row -> Stock]]
    /\ stock \in [Row -> Stock]
    /\ price \in [Row -> Prices]
    /\ listed \in [Row -> BOOLEAN]
    /\ orders \in SUBSET Order
    /\ jobs \in SUBSET [kind : JobKinds, order : Txn]
    /\ supplied \in [Row -> Int]
    /\ adminOps \in 0..MaxAdminOps

\* No overselling: the units on the shelf and the units in placed orders make
\* up exactly the units administrators put on sale, product by product.  No
\* interleaving of orders, updates, rollbacks and crashes creates a unit or
\* loses one (the claim of create's comment, points 1 and 2).
StockConserved ==
    \A r \in Row :
        stock[r] + SumFunction([o \in orders |-> o.qty[r]]) = supplied[r]

\* Units of row r that request t asks for, under whatever spellings.
Wanted(t, r) ==
    SumFunctionOnSet(cart[t], {i \in DOMAIN cart[t] : RowOf[i] = r})

\* A placed order is the whole cart of its request, no line more or less
\* although the transaction takes many steps and a row may be met under two
\* spellings, and its total is that of its lines at the unit prices it shows.
OrdersMatchCarts ==
    \A o \in orders :
        /\ \A r \in Row : o.qty[r] = Wanted(o.id, r)
        /\ o.total = SumFunction([r \in Row |-> o.qty[r] * o.unitPrice[r]])

\* Background jobs are published for committed orders only, in every
\* interleaving with failures and crashes (order.service.ts:100-101).
NoJobWithoutOrder == \A j \in jobs : \E o \in orders : o.id = j.order

\* No set of transactions waits for each other ("can never deadlock",
\* order.service.ts:47-49).
NoDeadlock == \A S \in SUBSET Txn : ~Cycle(S)

\* The answer tells the truth about the order: 201 means it is placed, 404 and
\* 409 INSUFFICIENT_STOCK mean that it is not and never will be.  (A 500 says
\* nothing: see CommitAckLost and ReloadFails.)
TruthfulAnswer ==
    \A t \in Txn :
        /\ outcome[t] = "created" => \E o \in orders : o.id = t
        /\ outcome[t] \in {"notFound", "insufficient"} =>
               \A o \in orders : o.id # t

\* A request is refused for lack of stock only if, at that moment, the
\* committed stock of some product is below what its cart wants of it: another
\* transaction's uncommitted decrement never refuses anybody.
RefusedForCause ==
    [][\A t \in Txn :
           outcome[t] = "none" /\ outcome'[t] = "insufficient"
           => \E r \in Row : stock[r] < Wanted(t, r)]_vars

\* Orders as the abstract specification knows them.
PlacedOrders == {[id |-> o.id, qty |-> o.qty, unitPrice |-> o.unitPrice] :
                 o \in orders}

Abstract == INSTANCE Inventory WITH Request <- Txn, orders <- PlacedOrders

\* The whole machinery of locks, workspaces and aborts is indistinguishable,
\* in the products and orders tables, from placing each order in one step.
PlacesOrdersAtomically == Abstract!Spec

PlacedIds == {o.id : o \in orders}

Jobs == INSTANCE Publication WITH Order <- Txn, placed <- PlacedIds

\* Jobs are published for committed orders only, in every interleaving of
\* failures and crashes ("we must never email/track an order that ultimately
\* rolled back", order.service.ts:100-101): each step is one that Publication
\* lets the workers expect.  What keeps a job back is told by MissedForCause.
PublishesAfterCommit == Jobs!PubSpec

\* Every request that arrives is answered: no lock is left behind by a
\* refusal, a failure or a crash for the next request to wait on, and a wait
\* cycle, where one can form, is broken.
EveryRequestAnswered ==
    \A t \in Txn : pc[t] = "lock" ~> pc[t] = "done"

-----------------------------------------------------------------------------
(* The inductive invariant behind the safety properties *)

\* Updated rows are locked, and only a running transaction holds locks.
HoldsLocks(t) ==
    /\ \A r \in dirty[t] : owner[r] = t
    /\ \A r \in Row : owner[r] = t => pc[t] \in InTransaction

\* The workspace accounts for the lines pushed so far, against the COMMITTED
\* stock and price, which the locks keep as they were.
Workspace(t) ==
    \A r \in Row :
        IF r \in dirty[t]
        THEN /\ written[t][r] + items[t][r] = stock[r]
             /\ unit[t][r] = price[r]
             /\ items[t][r] > 0
             /\ listed[r]
        ELSE items[t][r] = 0 /\ unit[t][r] = 0

\* What the service read under the lock is still what it would read.
FreshSight(t) ==
    pc[t] = "save" =>
        \A i \in Id : IsNext(t, i) =>
            /\ owner[RowOf[i]] = t
            /\ listed[RowOf[i]]
            /\ seen[t] = [stock |-> Visible(t, RowOf[i]),
                          price |-> price[RowOf[i]]]

LoopProgress(t) ==
    /\ pc[t] \in {"lock", "save"} => todo[t] # {}
    /\ pc[t] \in {"insert", "commit"} => todo[t] = {} /\ dirty[t] # {}
    /\ pc[t] = "commit" => total[t] <= MaxMoney

HasOrder(t) == \E o \in orders : o.id = t

\* An order exists from COMMIT on, and answers and jobs follow it.
OrderKnown(t) ==
    /\ HasOrder(t) => pc[t] \in Placed \cup {"done"}
    /\ pc[t] \in Placed \/ sending[t] # {} => HasOrder(t)
    /\ outcome[t] = "created" => HasOrder(t)
    /\ outcome[t] \in {"notFound", "insufficient"} =>
           ~HasOrder(t) /\ pc[t] \in {"rollback", "done"}

IInv ==
    /\ TypeOK
    /\ NoJobWithoutOrder
    /\ \A t \in Txn : /\ HoldsLocks(t)
                      /\ Workspace(t)
                      /\ FreshSight(t)
                      /\ LoopProgress(t)
                      /\ OrderKnown(t)

\* What the loop has pushed so far is the part of the cart it has passed, and
\* the running total is that of its lines.
LinesPushed(t) ==
    /\ pc[t] = "idle" => total[t] = 0
    /\ pc[t] \in InTransaction \ {"rollback"} =>
        /\ \A r \in Row :
               items[t][r] = SumFunctionOnSet(cart[t],
                                 {i \in DOMAIN cart[t] \ todo[t] : RowOf[i] = r})
        /\ total[t] = SumFunction([r \in Row |-> items[t][r] * unit[t][r]])

\* The sums of the properties, with what makes them inductive.
SumInv ==
    /\ IsFiniteSet(orders) /\ StockConserved /\ OrdersMatchCarts
    /\ \A t \in Txn : LinesPushed(t)

\* Requests spell each id in one way only.
OneSpelling == \A i, j \in Id : RowOf[i] = RowOf[j] => i = j

=============================================================================
