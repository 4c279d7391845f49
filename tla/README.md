# A verification project for backend-pattern-demo

TLA+ models of the e-commerce backend in `src/` (an Express API, PostgreSQL
through TypeORM, Redis, BullMQ workers), TLC runs that check them on small
instances, and TLAPS proofs of what matters most for instances of any size.
Paths below are relative to the repository; line numbers are in `PROJECT.json`,
whose `map` ties every definition to the lines it stands for.

## 1. The system

| component | state | operations | interacts with |
|---|---|---|---|
| Orders (`modules/orders`) | tables `orders`, `order_items`; columns `stock` of `products` | `create`; reads | Idempotency (wraps `create`), Products (row locks), the queues (after commit) |
| Idempotency (`shared/utils/idempotency.service.ts`) | one Redis record per `Idempotency-Key`: absent, pending, completed with a result; TTL | `run` = GET, SET NX, operation, SET or DEL | Orders |
| Products (`modules/products`) | table `products` (price, stock, soft deletion) | `list`, `getById`, `create`, `update`, `remove`; `lockById` and `saveInTransaction` for orders | Cache, Categories, Orders |
| Product cache (`shared/cache`) | Redis keys `products:detail:<id>`, `products:list:<query>`; TTLs | `get`, `set`, `del`, `delByPattern` (SCAN, then DEL) | Products |
| Queues and workers (`shared/queue`, `worker.ts`) | BullMQ queues `email`, `analytics` | `add`; workers, three attempts | Orders |
| Auth (`modules/auth`) | table `refresh_tokens` | `register`, `login`, `refresh` (rotation, reuse detection), `logout` | Users |
| Users, Categories | tables with a unique column each, soft deletion | create, update, remove: check, then write | Auth; Products |
| Rate limiter (`shared/middlewares`) | one Redis sorted set per IP | MULTI of four commands, then compare | every request |
| Gateway: `createApp`, routers, guards, controllers, error handler | none | from a request to a handler, from a result or an error to an answer | every request |
| Seed (`shared/database/seed.ts`) | rows of users, categories, products | find, insert, at each container start | Users, Categories |
| Pagination, order arithmetic | none | pure functions | every request |
| Bootstrap, configuration, logging, Swagger, Bull Board | none of their own | start, shutdown | all |

What is hard here is concurrency and failure. Node runs one event loop, but every
`await` is a place where other requests, other API processes, the workers and
administrators move, and every `await` of PostgreSQL or Redis can fail, before or
after its effect. `main.ts` ends the process on SIGTERM without awaiting
requests in flight. `PROJECT.json` lists the hazards line by line, with the
properties that cover each.

What makes each part correct:

* **Orders**: no unit is sold twice or lost; an order is all of its cart or
  nothing; prices are those of one moment; jobs are published for placed orders
  only; the answer tells the truth; no deadlock; every request is answered.
* **Idempotency**: one execution at a time per key; a success is replayed; work is
  done twice only around a failure; a reservation does not stay for ever.
* **Product cache**: what is cached and out of date is about to be deleted, or has one
  of a few known causes; nothing stale outlives its TTL.
* **Refresh tokens**: an exchanged token is revoked; a revoked one is of no use any more;
  a user's sessions end together only after real reuse.
* **Users, categories**: a name belongs to one row, removed rows included; answers stay
  true; no update undoes another; a removed row stays removed; nobody is refused
  without a cause.
* **Rate limiter**: at most `max` requests pass in any window, and only the excess is
  refused.
* **Gateway**: handlers run for whom the API documents and refuse nobody else; users see
  their own orders only; an error gets its intended status; every request is answered.
  The first two hold with one exception each (see "Two claims with an exception" below).
* **Queues**: a mail for placed orders only, a second one only after a failure; a job
  that was added is settled as long as a worker of its queue is up.

## 2. The modules

| module | what it is |
|---|---|
| `Inventory` | abstract: an order is placed in one atomic step |
| `OrderTx` | `OrderService.create` and its PostgreSQL transaction, statement by statement, against administrators |
| `Idempotency` | `IdempotencyService.run` around an opaque operation |
| `Checkout` | the composition: `POST /orders` is `Idempotency` around `OrderTx` |
| `ProductCache` | `ProductService` over `CacheService`: cached reads, writes that invalidate, writes that do not |
| `Sessions` | `login`, `refresh` and `logout` over the table `refresh_tokens` |
| `Publication` | abstract: what the orders side promises the queues |
| `Fulfilment` | `Publication` and the BullMQ workers with `queues.ts`'s retry policy |
| `RateLimit` | `rateLimit` over its sorted set, with clocks that disagree |
| `Gateway` | the HTTP application around `RateLimit`: routers, guards, controllers, `errorHandler` |
| `Directory` | users, categories and the seed: check, then write, under a unique index and soft deletion |
| `MC...` | instances of each for TLC |
| `...Proofs` | theorems about each |

`OrderTx` implements `Inventory` (property `PlacesOrdersAtomically`) and `Publication`
(`PublishesAfterCommit`), on which `Fulfilment` builds; `Checkout` implements both
`Idempotency` (`ImplementsIdempotency`) and `OrderTx`.

### OrderTx

One element of `Txn` is one request together with the transaction that serves it.
`pc[t]` is the statement it is about to run:

| `pc` | code | actions out of it |
|---|---|---|
| `idle` | the request has not arrived | `Begin` (merge lines, sort ids, BEGIN) |
| `lock` | `products.lockById` | `LockById`, `ProductNotFound`, `DeadlockVictim`; waits while another transaction owns the row |
| `save` | the stock check, `saveInTransaction`, `items.push` | `InsufficientStock`, `SaveInTransaction`; then `lock` again or `insert` |
| `insert` | `orders.createInTransaction` | `InsertOrder`, `TotalOutOfRange` |
| `commit` | COMMIT | `Commit`, `CommitAckLost` |
| `rollback` | an exception is on its way out of the callback | `Rollback` |
| `publish` | `publishSideEffects` | `Enqueue`, `EnqueueFails`, one per queue, in any order; the first failure ends the wait, the other call goes on in the background |
| `reload` | `orders.findById` | `Reload`, `ReloadFails` |
| `done` | answered | an enqueueing still under way may finish |

`DbError` fails any statement of the transaction, `Crash` ends the process under the
request. `Update` and `SoftDelete` are the administrators' statements
(`ProductService.update` and `remove`: single UPDATEs that wait for the row lock).
The existence check before `update` is not repeated by the UPDATE, so `Update` takes
any row, soft-deleted ones included. The helper variables `supplied` and `adminOps`
exist for the conservation property and for the bound only.

Abstractions. Money is in integer cents, which makes `round2` exact and keeps only
the range of `numeric(12,2)`. A cart is what `create`'s `Map` merges, so `Carts` holds
merged carts: functions from id spellings to positive quantities. An order's id is the
name of its request. A row that a transaction meets twice under two spellings has two
order items in the database and one summed entry here. What an exception says
is kept as the answer's class (`notFound`, `insufficient`, `error`).

PostgreSQL is not in the repository. It is modelled by what the service uses of READ
COMMITTED: a row lock has one owner, its holder reads the latest committed version or
its own, nothing is visible before COMMIT, and one member of a wait cycle is
aborted. These definitions are marked external in the map.

### Idempotency

One element of `Attempt` is one submission of a request; duplicates and retries are
attempts with the same key. Each Redis command is one action, with a failing
twin: a failing command has run or has not (`ReserveFails`, `StoreFails`;
`ReleaseFails` without effect is the case that matters, since with effect it is
`Release`). SET NX stands outside the code's `try`, the final SET inside it, and the
model has it so. `Expire` removes a record at its TTL; its guard is the one assumption of
the module: no operation is still running when a 24-hour TTL ends (the record
carries no owner, so without it a late writer would overwrite a successor's
record). The body of a request does not enter the key in the code, so it does
not enter the model.

### Checkout

Extends `OrderTx` and instantiates `Idempotency` with `performed` defined as
the submissions whose order is in the table. `Return` is where the callback's
promise settles; `ProcessEnds` ends guard, request and transaction together.

### ProductCache

A `Reader` is a GET request that has missed: `want[r]` is its key, `got[r]` what its
query returned, and `Miss`, `QueryRows`, `Fill` are the awaits of `list` and `getById`.
A hit changes nothing and is no action. A `Writer` is an administrator's request:

| `at` | code | actions out of it |
|---|---|---|
| `idle` | no request | `Create` (INSERT), `SoftDelete` (UPDATE), `BeginUpdate` (the existence check) |
| `write` | `repo.update` | `UpdateRow` |
| `reread` | `findById` after the UPDATE | `Reread`; on a removed row `update` answers 404 and invalidates nothing |
| `invalidate` | `Promise.all([del, invalidateLists])` | `DelDetail`; `Scan`, one key at a time, then `DelLists`; each half may fail alone (`InvalidationFails`) |

`WriterStops` is a failing query or the end of the process anywhere in it.
`OrderCommits` and `CategoryChanges` are the writes by other services that change what
a product's response shows and delete no key. `Expire` is a TTL.

Abstractions. A row's columns are two counters, `edit` (what administrators write) and
`silent` (stock and category name as others write them): a response is out of date
exactly when a counter it was computed from has moved. A page is taken to depend on
every row, whatever its search, sorting and page number, and to be read at one
moment (TypeORM issues a page and a count; a page mixed from two moments is no
more than another stale fill). SCAN guarantees to return a key that is there during all
of the iteration, so each key has a moment at which it is met or not. The id
in a detail key is spelled as in the request, while PostgreSQL compares UUIDs: `Id` and
`RowOf` keep the difference. The bounds are `MaxEdits` and `MaxSilent`. `strays` is a
helper variable: it collects the entries that are stale for a known reason
(filled from a row read before a write, another spelling, a failed invalidation), and
no guard reads it.

### Sessions

A `Request` is one call of `login`, `refresh` or `logout`; clients present any token they
have received, also one they have presented before.

| `pc` | code | actions out of it |
|---|---|---|
| `idle` | no request | `Login` (user and password are right), `Refresh` (the signature is good and not expired), `Logout` |
| `find` | `findActiveByHash` and the check of `expiresAt` | `FindActiveByHash` |
| `user` | `users.findById` | `FindUser` |
| `revoke`, `logout` | `revokeByHash` | `RevokeByHash`; its reply may be lost, and then `refresh` ends |
| `create` | `issueTokens` | `IssueTokens`; the reply or the answer may be lost, and then no client has the token |
| `revokeAll` | `revokeAllForUser` | `RevokeAllForUser` |
| `done` | answered | |

`Fails` is a failing statement or the end of the process. There is no transaction around
the statements of `refresh`, and the model has none. A token is its hash, its row and its
`jti` in one (`IssueTokens` takes one that is new); its user is in its name. `issuer` and
`swept` are helper variables that no guard reads.

### Publication and Fulfilment

`Publication` has the committed orders, the jobs being added and the jobs ever added.
`Place` is COMMIT and its answer, `PlaceUnanswered` a COMMIT whose answer is lost, `Add`
and `AddFails` one `Queue.add` each (a failing one may have arrived), `Drop` the end of the
process. `OrderTx` maps to it with its committed orders, `pending` jobs and `jobs`.
`Fulfilment` adds the workers. A `Worker` is one slot of a BullMQ `Worker`:

| action | code |
|---|---|
| `Take` | `createEmailWorker`, `createAnalyticsWorker`: a free slot locks a job |
| `Process`, `Complete`, `Throws` | the processor has its effect; it returns; it throws, before or after the effect |
| `AfterThrow`, `BackoffEnds` | `attempts` and `backoff` of `defaultJobOptions` |
| `LockExpires` (`Recover`, `Stall`) | BullMQ: the lock of a dead or a blocked worker expires; another slot may take the job while the first still runs |
| `Close`, `Exit` | `shutdown` of `worker.ts` |
| `Die`, `Start` | a kill, and a start by hand: `docker-compose.yml` has no restart policy |

In the repository the processors log where a provider would be called; an effect is that
log line. `excused` is a helper variable: the jobs that are not there because their own
adding failed or was cut short, or was never begun since COMMIT's reply was lost. A
failure excuses its own job only, as `Promise.all` in `publishSideEffects` cancels nothing.
`Drop` may happen at any time, so `PublishesAfterCommit` is about what is added and when;
what may be missing is the matter of `MissedForCause`.

### RateLimit

`Hit` is one MULTI and its verdict, `HitFails` a rejected EXEC or a lost reply. `time` is
Redis's clock, which also drops keys; the score is `Date.now()` of an API process, read
before and on its own clock, so it is any value within `Lag` of `time`. Times are in the
unit of the window; the commands of a MULTI are one step, as Redis runs them. Refused
requests are recorded too.

### Gateway

Extends `RateLimit`. A route is the sequence of its guards and the statuses its
`@swagger` block documents; `App` is all that `createApp` mounts.

| `pc` | code | actions out of it |
|---|---|---|
| `idle` | not received | `Receive`: `helmet`, `cors`, `express.json`, which may throw before the limiter |
| `limit` | `tx.exec()` of `rateLimit` | `Admit` |
| `route` | routers and guards, synchronously | `Dispatch`, by `Chain` |
| `handle` | the controller's await | `Handle`, `CreateOrder`, `ListOrders`, `GetOrder`, `HandlerFails` |
| `done` | answered | |

`Shutdown` and `Exit` are `main.ts`: new connections are refused, then the process drops
what is in flight. A bearer is what it verifies to, a schema is whether it accepts, a
service is what it throws on purpose; the effects of services are the other modules'.
`authGuard` verifies the signature and no more, so a token signed with the same secret but
without a role, as refresh tokens are, is among the bearers. A call has an
`Idempotency-Key`; `StoredUnder` says which order's DTO is completed under it in Redis,
and it may be anybody's, since the record names no user. `CreateOrder` answers 201 with an
order of the caller's own or with that one.

`AccessExplained`, `RefusalsExplained` and `OrdersShownForCause` compare the routers, guards and
controllers with the documentation: the endpoint table of `src/README.md:296-319`, line 330
on what an access token carries, and the comments of `auth.middleware.ts` and
`order.controller.ts`.

### Directory

| `pc` | code | actions out of it |
|---|---|---|
| `idle` | no request | `Start` |
| `find`, `insert` | `register`, `create`: `findByEmail` or `findByName`, (bcrypt,) INSERT | `Find`, `Insert` |
| `get`, `check`, `update`, `reread` | `update`: existence, the name of a category, UPDATE, `findById` | `GetById`, `CheckName`, `UpdateRow`, `Reread` |
| `delete` | `softDelete` | `SoftDelete` |
| `done` | answered | |

`SeedFinds` and `SeedInserts` are the `ensure...` functions of `seed.ts`, `SeedFails` its
`catch` for any other error. `Fails` is a failing statement. Queries see live rows; the
index and UPDATE see all. An id that a request spells in another case than PostgreSQL
prints it is `exact = FALSE`: `category.service.ts:46` compares ids as strings, so such a
request is told that the category's own name is taken. A column's content is a member of
`Value`; `by` in a row and `took` are helper variables. `register` is `create` on the
users.

## 3. What TLC checks

| run | instance | properties | result |
|---|---|---|---|
| `orders` | 2 requests, 2 products, one also under an upper-case id, carts of up to 2 units and 2 lines, one administrator operation, all failures, fairness | `TypeOK`, `StockConserved`, `OrdersMatchCarts`, `TruthfulAnswer`, `RefusedForCause`, `PlacesOrdersAtomically`, `PublishesAfterCommit`, `EveryRequestAnswered` | holds, 337,381 states |
| `fulfilment` | 1 order, 2 jobs, 2 email slots, 1 analytics slot, 2 stops, fairness | `MissedForCause`, `EffectsPaidFor`, `JobsSettle` | holds, 279,070 states |
| `orders_deadlock` | as `orders`, all carts of single units, no administrator | `NoDeadlock` | **violated** |
| `idempotency` | 3 submissions with one key, 1 without, fairness | `IInv`, `OneAtATime`, `SuccessIsRemembered`, `TwiceOnlyAfterFailure`, `ReservationsEnd` | holds, 17,208 states |
| `checkout` | 3 submissions, one key, one product | `AnswersShowOrders`, `DuplicatesCostOneOrder`, `ImplementsIdempotency` | holds, 311,561 states |
| `checkout_twice` | 2 submissions, one key | `OneOrderPerKey` | **violated** |
| `cache` | 1 reader, 2 administrators, 1 product under 2 spellings, 1 page, all failures, TTLs | `IInv`, `StaleEntriesExplained`, `EventuallyFresh` | holds, 578,220 states |
| `cache_race` | 1 reader, 1 administrator, 1 spelling, no failures | `NeverStale` | **violated** |
| `sessions` | 3 requests, 2 users, 3 tokens of one and 1 of the other, failures, expiry, removal | `IInv`, `ExchangedIsRevoked`, `SweptForReuse`, `RevokedForGood`, `RemovedForGood` | holds, 746,132 states |
| `gateway` | 2 callers, one with any target, bearer and validity, one with any order call, and the end of the process; or 3 requests of one client with limit 2, window 4, clocks off by 1 and time up to 6; fairness | `AtMostLimitPerWindow`, `LimitedForCause`, `AccessExplained`, `RefusalsExplained`, `OrdersShownForCause`, `AnswersAsIntended`, `EveryCallAnswered` | holds, 119,426 states |
| `directory` | 2 requests of any kind, 3 uuids, 2 names, a seed of 3 rows, any tables before, failures | `OneHolder`, `AnswersHold`, `NoLostUpdate`, `RefusedForCause`, `DeletedForGood`, `SeedStopsForCause` | holds, about 3,360,000 states |
| `directory_seed` | empty tables, seed, one request, seed; no failures | `SafeToRunRepeatedly` | **violated** |

Why the bounds are enough. Two transactions make every lock conflict, two products
every order of locks, partial failure and a cart of several lines. `MCOrderTx` starts with
one or two units of the first product, a full column (`MaxInt = 2`) of the second, and all
on sale at one price, which an administrator's operation (`MaxAdminOps = 1`) changes while
orders run; carts are `SomeCarts`: a line of two units, two products, one row twice, and
the pair that locks in the opposite order. That makes exact fit, shortage and a remainder;
`MaxMoney = 3` lets totals both fit and overflow. A third request would queue for a lock,
and is covered by the theorems, which hold for any number. Three
submissions with one key give a first, a duplicate and a retry. For the cache one
product is enough for every order of fill, write, SCAN and DEL, as keys of different
products meet only in pages, and a page depends on a product as a detail does; two
administrators overlap a removal with an update of the same row, or one invalidation
with another. Two updates of one row at a time are beyond `MaxEdits = 1`, and covered by
the theorem. In `sessions`, three tokens of one user are a token and the two it can be
exchanged for at once, and three requests are two that overlap and one that comes
after them; the second user shows that a sweep stays within a family. Whatever was
issued before the run is in its initial states.

In `fulfilment` two slots of one queue let a job run twice at once, the third
shows that the other queue is not held up; two attempts (`MaxAttempts`, three in the
code) give one retry and one exhaustion; `MaxStops = 2` stops both email slots.

In `gateway`, `MCNext` plays one of two scenes. The callers meet every route with every bearer
and key, interleaved, under the end of the process; they are within the limit. The crowd
is one request more than the limit of two, over `MaxTime = 6`, a window and a half: the
first member can leave the window while the second has kept the key alive, so it is the
trimming, and not the key's TTL, that lets the third pass. Sent a window after the first, it
passes or not, as the clocks go; `Window + 2 * Lag` after it, it passes. The
crowd's requests come one after the other, which loses nothing, as a MULTI is one step
and the rest of a request does not touch the limiter. The scenes restrict when requests arrive and
clocks tick; a request that can be served always can be.

In `directory` three uuids hold one row of a past, one inserted
by a request and one by the seed; `Patches` sets a user's note or role, or a category's name with
or without its description, which gives overlapping and disjoint patches and both names; existing rows
have all columns at 0, as any earlier content is alike, and are no products, which no
request writes. The seed's names are the requests' names. The proofs below lift most of
this to any size. Every system stops once its finitely many requests are
answered, so runs do not check for TLC's deadlock; a database deadlock is
`NoDeadlock`'s matter, and a request that stays unanswered that of
`EveryRequestAnswered` and `EveryCallAnswered`.

Symmetry is used over requests (or submissions with one key, or tokens of one user),
which no definition distinguishes, and never in a run with a liveness property.

Fairness. `FairSpec` of `OrderTx` asks weak fairness of each request's own steps: the
event loop and PostgreSQL go on, Redis replies, a wait cycle is detected.
A request blocked on a row needs no more, because each request is a single
transaction, requests are finitely many, and so are the administrators' operations; the
lock queue of PostgreSQL gives the same without that bound. No fault is fair, and no
request has to arrive. `FairSpec` of `Idempotency` adds that an operation ends, with
a result or not, and that TTLs pass. `FairSpec` of `ProductCache` asks for one thing
only, that Redis expires entries: readers and writers may stop anywhere, and
`EventuallyFresh` holds all the same. `FairSpec` of `Fulfilment` asks that each order's
jobs that are being added arrive or fail, that workers that are up take, process and
complete jobs, that backoff ends and that locks of workers that are gone expire. No worker
has to be started again, which is why `JobsSettle` excepts a queue without workers.
`GatewayFairSpec`, and `MCSpec` of `MCGateway` like it, asks for each request's own steps:
every await ends, with a result or an error. `RateLimit` and `Directory` state safety only.

### The four violations

* `orders_deadlock`: the comment of `create` (and the README) says that sorted ids
  cannot deadlock. The ids are sorted as strings while rows are locked by UUID, and
  the validator admits both cases of a hexadecimal digit. Two orders that spell one id
  differently lock in opposite orders. PostgreSQL resolves it and one order answers
  500. With one spelling per row the claim is a theorem.
* `checkout_twice`: the doc of `IdempotencyService` says that work is never done
  twice. Its `catch` deletes the key for every failure, and three of them come after
  COMMIT: a lost acknowledgement of COMMIT, a failing `findById`, a failing
  SET of the result. The retry then places a second order. `TwiceOnlyAfterFailure` and
  `DuplicatesCostOneOrder` are what remains true.

* `cache_race`: the docs of `CacheService` and `ProductService` say that stale data is
  never served. A reader queries the list, a create commits and its invalidation runs
  to its end, and then the reader's unconditional SET caches the old page.
  `StaleEntriesExplained` is what remains true: without failures and with one
  spelling, only a read that overlaps a write leaves a stale entry, and
  `EventuallyFresh` says that the TTL ends it. Stale stock and category names need no
  race at all, since orders and category writes invalidate nothing.

* `directory_seed`: `seed.ts` calls itself idempotent and safe to run repeatedly, and
  `docker-compose.yml:55-57` runs it with `&&` before the API at each start. It looks for
  live rows only, while the unique indexes cover removed ones: when an administrator has
  removed a seeded user or category, the next seed ends with a duplicate key and exit code 1,
  and the API does not start. `SeedStopsForCause` is what remains true: a seed
  stops at a duplicate only if the row was removed, or if someone else has inserted or
  renamed it. The property takes any time since the start of the behaviour; `SeedLooked` of
  the proof says that for a live row it was between the seed's look and its INSERT.

### Two claims with an exception

Two statements of the documentation are wider than the code. Properties of `gateway` say
how wide the code is, and theorems under which premise the statement holds as it stands:

* *The order routes are for USER and ADMIN* (`src/README.md:311-313`; access tokens carry
  `sub` and `role`, line 330; `authGuard` verifies "the Bearer access token",
  `auth.middleware.ts:14`). Refresh tokens are signed with the same secret
  (`auth.service.ts:129-139`), and `authGuard` looks at the signature and the expiry only. A
  refresh token is thus signed in, without a role: the order routes, which ask for none,
  serve it as its user, and the ADMIN routes refuse it with 403. `AccessExplained` and
  `RefusalsExplained` have this as their one exception (`Roleless`); `AccessIsAsDocumented`
  proves `AccessAsDocumented` where every bearer that verifies is an access token.
* *A USER only ever sees their own orders* (`order.controller.ts:10-11`, and
  `src/README.md:338-340`). `POST /orders` answers with what is completed under its
  `Idempotency-Key`, and the record is found by the key alone
  (`idempotency.service.ts:33-38`): who sends a key that somebody else has used is shown
  that order. `OrdersShownForCause` has this as its one exception (`Replays`);
  `OnlyOwnOrdersShown` proves `OwnOrdersOnly` where nobody sends such a key.

## 4. What is proved

All theorems hold for every value of the constants that satisfies the modules'
assumptions: any number of requests, products, spellings, quantities, keys.

**OrderTx** (`OrderTxProofs`). The inductive invariant `IInv` says, for each
transaction: updated rows are locked and only running transactions own locks
(`HoldsLocks`); what it wrote plus what it pushed to the order equals the
*committed* stock, at the committed price (`Workspace`); what it read under the lock
is still what it would read (`FreshSight`); the loop's position agrees with
its workspace (`LoopProgress`); and orders, answers and jobs are in step
(`OrderKnown`). None of the safety properties is inductive without it:
that COMMIT writes a stock in range, for example, rests on the written value
having stayed tied to the committed one while others moved. From it:

* `BookkeepingExact`: `[]IInv`; `TypeCorrect`: `[]TypeOK`;
  `JobsOnlyForOrders`: `[]NoJobWithoutOrder`; `AnswersAreTruthful`: `[]TruthfulAnswer`.
* `PublicationFollowsCommit`: `Spec => PublishesAfterCommit`. A commit maps to `Place`, a
  commit whose answer is lost to `PlaceUnanswered`, `Enqueue` and `EnqueueFails` to `Add`
  and `AddFails`, a crash to `Drop` or a stutter.
* `OrdersAreAtomic`: `Spec => PlacesOrdersAtomically`. A commit maps to
  `PlaceOrder` with the items pushed; an administrator's statement maps to itself;
  every other step stutters.
* `SumsExact`: `[]SumInv`. `SumInv` says how far each loop has come: what it has
  pushed is the part of its cart it has passed, and the running total is that of
  its lines (`LinesPushed`). At COMMIT that part is the whole cart, and what a row loses is
  what the order records of it (`Workspace`), so `StockIsConserved`
  (`[]StockConserved`) and `OrdersAreWholeCarts` (`[]OrdersMatchCarts`) follow.
* `RefusalsHaveACause`: `Spec => RefusedForCause`. The stock read under the lock is the
  committed one less what earlier lines of the same row took (`FreshSight`, `Workspace`),
  so a line that does not fit makes the cart's whole demand exceed the committed stock.
* `NoDeadlockWithOneSpelling`: in a wait cycle take the member whose awaited id has the
  least rank. Another member waits for a row it has locked, and what a transaction has
  locked ranks below what it awaits, which contradicts leastness. The proof
  rests on the least element of a set of naturals, and needs that locked rows lie below the
  loop's position, which is where the hypothesis of one spelling enters.

The sums are folds of the community modules, and what they compute needs
induction over finite sets. The library's induction theorems take a predicate as a
parameter, which the provers cannot instantiate. The section "Sums over finite sets" does
without: if some set had no sum, a smallest one would (`SmallestSet`, from the
least element of a set of naturals), and taking one element out of it leads to a
contradiction (`SumExists`, `SumsAgree`). From there on `SumAdd`, `SumRemove`,
`SumSame` and `SumMonotonic` are all that the proofs use of a sum.

**Idempotency** (`IdempotencyProofs`). `RecordsAndAnswersAgree`: `[]IInv`, where
`IInv` ties a record to the submission that owns it and locates every performed
submission (running, failed, or remembered). Its corollaries `OneExecutionAtATime`,
`SuccessLasts` and `DoubleExecutionNeedsFailure` are the runs' properties.

**Checkout** (`CheckoutProofs`). `CheckoutRunsOrderTx` and
`CheckoutImplementsIdempotency` are the two refinements; the second
carries the theorems of `Idempotency` over. `DuplicatesShareOneOrder` follows, and so does
`AnswersShowRealOrders`: a record of a key holds the result of a submission with that key
(`RecordsReal`), so a replay shows an order of that key.

**ProductCache** (`ProductCacheProofs`). `CacheInvariant`: `[]IInv`, where `IInv` adds to
`StaleEntriesExplained` the ranges and that a writer has invalidations under way at its
last step only (`Tidy`), without which the obligation an updater has between its UPDATE
and its re-read would not pass to its DELs. `StaleEntriesHaveACause`:
`[]StaleEntriesExplained`. The proof follows an entry's obligation: a write
outdates only entries that its writer then owes or that become strays
(`CreateExplained`, `UpdateExplained`, `SoftDeleteExplained`); a writer's other steps
keep what it owes, delete it, or let it go astray (`InvalidationExplained`); other
writers' obligations are untouched (`OthersOwe`), except that the removal of a row takes
the obligations of its updaters over.

**Sessions** (`SessionsProofs`). `SessionsInvariant`: `[]IInv`. `IInv` says where each
request stands relative to its token (`Position`), who has revoked each
revoked token (`Blame`: a request that presented it and is past its UPDATE, or a sweep)
and what a request that found no active row can rely on (`Suspicion`: another request
presented the same token, or a sweep came first). `SweptForReuse` is not inductive without
the last two: the sweep happens one step after its cause was seen. `RotationRevokes`
and `SweepsNeedReuse` are its corollaries; the action properties `RevocationLasts` and
`RemovalLasts` follow from it step by step. The second part of `RevokedForGood` is about a
whole family: once all tokens of a user are revoked and no request of theirs is between its
check and its INSERT (`SignedOut`), it stays so until they log in (`SignedOutStays`). What a
sweep leaves alive is therefore issued by a request that was past its check, and by no other.

`refresh` does not lock the row it finds, so two refreshes of one token that both find it
active each issue a successor, and the session goes on twice. `RotationIsSingle` proves
that nothing else splits one: `Spec /\ []NoOverlap => []ExchangedOnce`, where `NoOverlap`
says that no two refreshes are between the check and the end with the same token.
Failures, lost replies, retries one after the other, logouts, sweeps and expiry are all
allowed. `Rotation` is what `NoOverlap` makes inductive on top of `IInv`: a token about
to be exchanged has no child. The hypothesis is needed: without it TLC finds two refreshes
that exchange one token in ten steps.

**RateLimit and Gateway** (`GatewayProofs`). `LimitInvariant`: `[]LimitInv`. What passed
within the last `Window - 2 * Lag` is still a member of its client's key (`PassedCounted`),
scores are within `Lag` of the times (`ScoresClose`), members were sent by that client. A
request that passes is counted together with all that passed lately, and that count is at
most `Limit`: `SlidingWindow`. A request that is refused is counted with members that were
all sent in the last `Window + 2 * Lag`: `OnlyExcessIsLimited`. `LimiterBehindApp` carries
both over to the application.

`GatewayInvariant`: `[]GatewayInv`, which adds to `LimitInv` that a request in routing has
passed the limiter and one in a handler has a call that nothing in its chain threw at
(`Served`). The rest is about the routes, whatever the bearers, orders and requests are.
`ChainIsWrong` computes once for each kind of route what its chain of guards
throws, as the first thing that is wrong with the call (`Wrong`);
`PassedIsEntitled` and `ThrownIsDocumented` compare that with the endpoint table, target by
target, and `HandlerAnswers` compares what handlers answer and throw with the documented
statuses. `AccessIsExplained`, `RefusalsAreExplained`, `OrdersAreShownForCause` and
`AnswersAreIntended` follow. Two theorems give the documentation's own words under a premise
that nothing in the code establishes: `AccessIsAsDocumented` where all bearers that verify are access
tokens (`AccessTokensOnly`), `OnlyOwnOrdersShown` where a key is only sent with calls that may see the
order stored under it (`KeysArePersonal`). `CallsOf`, a bound for TLC, is any function into sets of
calls there.

**Directory** (`DirectoryProofs`). `DirInvariant`: `[]DirInv`. `DirInv` adds to the
properties where each request stands and what it has found (`CallsMatch`), that inserters
are answered (`InsertersAnswered`), and `UpdatesKept`, which is `NoLostUpdate` from the
moment of the UPDATE rather than of the answer. Every statement that
writes is an INSERT, a patch or a removal, with one lemma for each: none gives a
name a second row, none brings a row back, and a patch changes its columns only.
`OneRowPerName`, `AnswersLast`, `UpdatesAreNotLost`, `DeletionLasts` and
`RenamesAreRefusedForCause` follow. `SeedsStopForCause` needs one more part, `SeedLooked`:
between a seed's look and its INSERT, a live row can get the name it looked for only by
another's INSERT or by a rename.

**Fulfilment** (`FulfilmentProofs`). `JobInvariant`: `[]JobInv`. `EffectsPaidFor` is not
inductive: a worker that has lost its lock may still send its mail. `SlotsPaidFor` counts
the slots that still run a job as effects to come; the attempt under way pays for one of
them, each expired lock for another. `LocksAndAttempts` says that a locked job is active and
that an unfinished one has attempts left, which bounds attempts and stalls;
`JobsFromOrders` traces jobs to orders. `MissedJobsHaveACause` and `MailsArePaidFor` follow.
The number of slots is finite, otherwise unbounded, and stops are unlimited (`MaxStops` is
any number).

Every safety property that a passing run checks is thus stated by a theorem. Only
model-checked are the five liveness properties (`EveryRequestAnswered`, `ReservationsEnd`,
`EventuallyFresh`, `JobsSettle`, `EveryCallAnswered`): they rest on fairness and ENABLED,
which are out of the prover's reach. The four properties that runs refute
(`NoDeadlock`, `OneOrderPerKey`, `NeverStale`, `SafeToRunRepeatedly`) have theorems on what
remains true in their place.

## 5. What is not modelled

Pagination (two lines of arithmetic on validated numbers) and the rounding of money
(amounts are integer cents); configuration, logging, connecting and migrating, Swagger
pages: pure I/O without protocol state. Bull Board is modelled to its Basic auth; its retry
and clean actions are a library's, and so are BullMQ's retention limits
(`removeOnComplete`, `removeOnFail`). A role that an access token still carries after it was changed is
the documented price of stateless tokens and is not followed. Operations that outlive the 24-hour TTL
of an idempotency record are excluded by assumption. Job loss after a commit is
modelled and explained (`MissedForCause`) but not forbidden, because the code promises no delivery.

## 6. Plan

Done: `Inventory`, `OrderTx`, `Idempotency`, `Checkout`, `ProductCache`, `Sessions`,
`Publication`, `Fulfilment`, `RateLimit`, `Gateway`, `Directory`, and proofs about all of
them. Then, in order:

1. An abstract specification of token families, with `Sessions` shown to implement it for
   clients that do not overlap their refreshes.
2. `Fulfilment` against an abstract queue that delivers each job at least once as long as
   nothing fails.
