# Order saga: specification and proofs

TLA+ modules, TLC runs and TLAPS proofs for the order service in `src/`: a
FastAPI application that runs every `POST /orders` as a saga over PostgreSQL and
Redis, and a Celery worker that relays the saga's events from the outbox table.

Paths below are relative to the repository (`src/src/...` is the Python package).

## The system

| Component | State | Operations | Talks to |
|---|---|---|---|
| Saga orchestrator (`application/saga/orchestrator.py`, `steps.py`) | locals of one coroutine per request: completed steps, position in `order.items`, the stock item last read | `execute`: idempotency check, create order, reserve stock, payment, confirm, publish, store result; handler with reverse compensation | all repositories, Redis, DLQ |
| Aggregates (`domain/aggregates.py`) | `Order` (status, version, unpublished events), `StockItem` (available, reserved, version) | status transitions, reserve, release | called by the orchestrator |
| Production wiring (`api/main.py`, `api/routers/orders.py`) | one database session per request, one DLQ per process | commit on success, rollback on any exception, mapping of exceptions to 400/409/500 | the client |
| PostgreSQL repositories (`infrastructure/*/pg_*.py`) | `orders`, `stock_items`, `outbox_events`, `saga_logs` | insert, update, versioned update, append, mark | row locks shared by all requests and workers |
| Redis idempotency (`redis_idempotency.py`) | key -> processing / completed + order id, for 24 hours | `SET NX`, `SET`, `GET` | shared by all requests |
| Dead letter queue (`infrastructure/dlq/__init__.py`) | a list in the process | `enqueue` | orchestrator |
| Outbox relay (`workers/__init__.py`) | the batch of each run | beat starts a run every 10 s; read pending, publish, mark, commit | `outbox_events` |
| In-memory wiring (`api/__init__.py`, in-memory repositories) | dictionaries and lists, objects by reference | the same interfaces without transactions | `create_app`, tests |
| Reconciliation, DLQ retry, other tasks, GET endpoints | none changed | reads or logs only | |

Hard behaviours, and what makes each part correct:

* Requests interleave at every `await`. Stock is read, reserved in memory and
  written back under a version check: no update may be lost, doubled or leaked,
  and no product oversold. Row locks are taken in the order of the order's
  lines, so transactions deadlock and PostgreSQL kills one in mid-saga.
* A request fails at any await, in any of four stores, and the process may die.
  Redis is outside the database transaction. A failed request must leave no
  order, no event and no reservation; one key must place one order while it
  lives. It expires whoever works under it.
* The reply, the commit and the cached result happen at three moments, and the
  FastAPI version decides the order of the first two.
* Relay runs overlap (beat does not wait), die and repeat. Nothing may be
  recorded as sent that was not published; runs must not deadlock; every event
  must be settled.
* The worker reads `outbox_events` while sagas append, fail and roll back. A row
  has its `created_at` long before it is committed, so rows become visible in
  another order than they were created. Only what confirmed orders did may go
  out, and in the order in which they did it.
* In memory there is no transaction to undo a failed call, and the stores hand
  out the stored objects: the compensation of one call acts on objects that
  another call confirmed.

## Modules

* `Aggregates`: `Order` and `StockItem` as pure operators. A method that raises
  is a guard `CanX` and an effect `X`.
* `OrderSaga`: the concurrent saga in the production wiring. Extends `Aggregates`.
* `AtomicOrders`: what the service promises: an order is placed in one step that
  takes all its stock, at most one per key until the key is forgotten. `OrderSaga`
  instantiates it as `Atomic`, an order existing from its commit on.
* `MCOrderSaga`: orders, keys and stocks for TLC.
* `OutboxRelay`, `MCOutboxRelay`: the relay and its TLC instance.
* `OrderSystem`, `MCOrderSystem`: API and worker together. Extends `OrderSaga` and
  instantiates `OutboxRelay` as `Relay` over the table the sagas fill.
* `MemorySaga`, `MCMemorySaga`: `execute` over the in-memory stores. Extends
  `Aggregates`.
* `OrderSaga_proofs`, `OrderOutcome_proofs`, `OrderRefinement_proofs`,
  `OrderProgress_proofs`, `OutboxRelay_proofs`, `OrderSystem_proofs`,
  `MemorySaga_proofs`: the theorems. `Sums_proofs`: lemmas about finite sums and
  finite sets that they cite.

Definitions marked `Mutant` belong to no specification. Each is a plausible bug
of the definition it follows, used to see that a property can fail.

### OrderSaga and the code

A request is a process; its order id is a fresh `uuid4()`, so request `r` also
stands for its order. One action is one awaited call on a store other requests
share, with the local code up to the next such call. Statements on the request's
own rows (order, outbox, saga log) are invisible to others until the commit and
join the neighbouring step.

| Variable | Code |
|---|---|
| `pc`, `steps`, `idx`, `stock`, `order` | locals of `execute`: next call, `len(completed_steps)`, place in `order.items`, last read `StockItem`, the aggregate |
| `tx[r]` | uncommitted order row, outbox rows and log rows of `r`'s session |
| `row`, `dirty`, `lock` | stock rows: last commit, newest version, owner of the row lock |
| `saved[r]` | committed rows of `r`'s order |
| `key` | Redis |
| `dlq`, `crashes` | the process's DLQ; how often the process died |
| `reply`, `result` | what the client was answered, and the order id named |
| `placed`, `overdue` | history: requests committed under a key since it was last forgotten; requests that were at work under their key when it expired |

| Actions | Code |
|---|---|
| `CheckAndStore`, `StartUnkeyed`, `GetCompleted`, `GetInProgress`, `FetchCached` | `execute` 67-80; an empty header switches the check off |
| `CreateOrder` | `_create_order` |
| `ReadStock`, `UpdateStock`, `RereadStock`, `ReupdateStock`, `MarkStockReserved` | `_reserve_stock`: read, versioned update, the one retry, the tail |
| `PayOrder`, `ConfirmOrder`, `PublishEvents`, `StoreResult` | the remaining steps of `execute`; `_publish_events` appends one event a step |
| `LogFailure`, `RefundPayment`, `CancelOrder`, `Rollback` | the handler of `execute`, `_compensate`, the session's rollback |
| `ReleaseStock`, `UpdateReleased` | one line of `_release_stock`: read and local release, then the versioned update, whose result nobody looks at |
| `Commit`, `Respond` | `get_db_session`, the router's return; `RespondFirst` swaps them |
| `CheckError`, `GetError`, `StoreError` | Redis fails, before or after it applied the command |
| `DbError`, `CompensationError`, `CancelError`, `CommitError` | a statement, a compensation, the cancellation, the COMMIT fails; COMMIT may fail after it took effect |
| `DeadlockAbort` | PostgreSQL aborts a member of a circle of waiting transactions |
| `ApiCrash`, `ExpireKey` | the process dies and restarts; the 24 hours are over, whoever works under the key |

Assumptions taken from the environment:

* READ COMMITTED: a statement sees the transaction's own writes, else the last
  commit; an UPDATE waits for the row lock and re-evaluates its WHERE on the
  newest committed row. After an error a transaction accepts no statement, so
  the handler's own `log_step` raises and no compensation runs.
* SQLAlchemy's identity map does not hide a newer row: the repositories keep no
  reference to the model object between reads.
* The payment is the mock of the code: it never refuses.

Nothing bounds how long a request takes, so a key may expire between its request's
`SET NX` and its commit, or between a duplicate's `SET NX` and its `GET`. Then a new
request with the same key is let in beside the old one, and the old one's
`store_result` later overwrites what the new one stored. Two orders under one key
are what the code does in that case; `overdue` remembers the requests that may still
commit one. What the service promises is about the others: in one lifetime of a
key one order at most is placed by requests that do not outlive it
(`OneOrderPerKey`; `late` in `AtomicOrders`), whatever an overdue request does to the
key in the meantime.

`StockReservationFailed` is an event class, not an exception: raising it makes
Python raise a `TypeError` in its place, which `execute` catches all the same. The
control flow is that of the model; the client's message is not what was meant.

### OutboxRelay and the code

An event is the rank of its `created_at`, which is set before the saga commits:
events become visible order by order (`PlaceOrder`), not by rank. Which ranks the
rows of an order get is open: any member of `RowSets` that is still free. `owner`
maps the committed rows to their orders. Each worker process runs one task at a
time.

| Actions | Code |
|---|---|
| `PlaceOrder` | commit of a saga that appended the events |
| `Start` | a run begins and `get_pending` reads the oldest pending events |
| `Publish`, `MarkSent` | the loop body: publish (a log line in the code), `mark_sent` |
| `PublishFails`, `MarkFailed` | an exception that leaves the transaction usable, `mark_failed` |
| `Commit` | commit at the end |
| `RunDies` | hard time limit, kill, a failed statement |

`Work` and `Fail` join what a run does and what happens to it. The relay is modelled as `register_tasks` registers it. `workers/main.py` imports
a `Database` class that `connection.py` does not have, so the container of this
commit would not get that far. Each run is assumed to get a usable connection
although `asyncio.run` gives every task an event loop of its own.

### OrderSystem and the code

Sagas and worker share `outbox_events` and nothing else. `PgOutboxRepository.append`
flushes each event, and the flush sets the Python-side default of `created_at`:
`stamps[r]` are the times of the rows of `r`, `clock` counts the rows ever
appended, rolled back ones included. `Stamp` follows every step of a saga: a
new row gets the next time, committed rows keep theirs, rolled back rows are gone,
and `owner` becomes the committed rows. A step appends one row at most. Two rows are assumed to differ in
`created_at`, which has microseconds.

| Actions | Code |
|---|---|
| `Api(r, step)`, `ServeRequest` | a step of `OrderSaga`, with `append`'s times |
| `ApiEvent` | crash of the API process, expiry of a key |
| `StartRun`, `WorkRun`, `FailRun` | the relay's `Start`, `Work`, `Fail`, over `owner` |

`PlaceOrder` of the relay is no action here: `ImplementsRelay` says that a saga's
commit is one.

### MemorySaga and the code

Nothing in the in-memory stores suspends: a call of `execute` runs to its end
before another starts and is one action, one for each way it can end.

| Actions | Code |
|---|---|
| `ReturnCached`, `RefuseKey` | `execute` 67-80 with a key that is taken |
| `RefuseDuplicate` | `DuplicateOrderError` of `save`, and the handler, which cancels the stored object |
| `Place` | every line reserved, all steps, the result stored |
| `FailToReserve` | line `i` cannot be reserved; the handler and `_compensate` |

`order`, `stored`, `stock`, `key`, `outbox`, `log` are the stores; `answered` is
history. The repositories hand out the stored objects, so `reserve` changes the
stock at once and the version check compares an object with itself: it cannot
fail, and the retry is not reachable. After a reservation nothing raises, so
`_release_stock`, `_refund_payment` and the DLQ are not reachable either, and the
lines before a failing one stay reserved (`MemoryLeak`). A repeated order leaves
"FAILED" as the last entry of its log although it stays confirmed, so the log tells
the outcome not by its last entry but by whether `confirm_order` was started;
`EventsTellOutcome` says so, and says which events go with it. `StockAfter` is the effect
of the loop up to a line, with `Wanted` the prefix sums of the quantities.

## Runs

| Run | Question | Instance |
|---|---|---|
| `Contention` | `TypeOK`, `TxLedger`, `StockLedger`, `NoOversell`, `VersionBumps`, `PlacesAtomically`: are updates of stock rows lost, doubled, leaked, oversold; is an order placed atomically? `SomeoneGoesOn`, `NoStepInVain`, `EveryRequestEnds`: does every request end, and why? | 3 orders, two crosswise over 2 products, stock for two; keys of their own or none |
| `Oddities` | `OutcomeInv`, `IndInv`, `RejectedLeavesNothing`, `OutboxMatchesOrder`: does a failing saga leave anything; do events and order go together? `EveryRequestEnds`: do duplicates and compensated sagas end? | repeated product, unknown product, too many units, two requests under one key, 1 request that outlives it, 1 crash, reply before commit |
| `Retries` | `OutcomeInv`, `OneOrderPerKey`, `AcceptedIsDurable`, `PlacesAtomically`: what do duplicates and retries do? | 3 requests with one key, expiry at any moment, 1 request that outlives the key, 1 crash |
| `Relay` | `TypeOK`, `SentWasPublished`, `RelayInv`, `NoLockCycle`, `SettledFromOldest`, `OrderedPublication`: does what is recorded agree with what went out, in which order, after which deaths? `RunsGetShorter`, `EveryEventSettled`: is every event dealt with? | 2 runs, 2 orders of 2 events in every pairing of 4 ranks, batches of 2, 1 caught exception, 1 death |
| `System` | `TableInv`, `OnlyConfirmedPublished`, `SagaOrderKept`, `ImplementsRelay`, `AcceptedIsAnnounced`: does the relay's view of the sagas hold; what gets out, and does it? | 2 requests, one with a key, 1 product; 1 run at a time, batches of 5, 1 death |
| `Memory` | `MemoryInv`, `TypeOK`, `NoOversell`, `ConfirmedHaveStock`, `EventsTellOutcome`, `OneAnswerPerKey`, `ConfirmedStays`: what do failed and repeated calls do to the orders of others? | 6 calls with 4 orders, 2 keys or none; 3 products, one not seeded |

The bounds. Three requests give a pair that conflicts and a third that moves the
version between the first conflict and the retry, so `ReupdateStock` can fail
too; two products give crossed locks; stock 3 with 1 reserved by an older order
makes the last unit contended and starts at a version other than 0. One crash is
one abrupt end of everything in flight; a second finds nothing new, since crashed
requests are over and keys keep what they had. In `Relay`, batches of 2 below a
backlog of 4 make events wait for a later run, and an order committed late can
own the oldest event; two runs are the least that overlap. In `System` two orders
are the least whose rows interleave in time and whose commits can come in either
order; batches of 5 cut an order's 7 rows in two. Its sagas fail at every await,
but there is stock for both, so no compensation appends an event there; that case
is in `Oddities`, and the theorems cover it for the system. One run at a time is
enough there because overlapping runs are `Relay`'s question, and caught
exceptions are left to `Relay` too. In `Memory`, six calls reach every pair of
outcomes of every order under a key and repeat it; the bound on the calls stops
the system, so this run does not look for deadlocks. `MaxCrashes`, `MaxOverdue`,
`MaxFailures`, `MaxErrors` and `MaxCalls` are the only bounds inside the modules.
`MaxOverdue` is how many requests may outlive their key: one in `Oddities` and
`Retries`, where with one key the three requests are the overdue one, the one let
in beside it, and a duplicate of that one; none in the other runs, where a key still
expires when nobody can commit under it any more. `Retries` asks for safety only,
its requests differ in nothing but their names, and it uses their symmetry; that
duplicates end too is asked in `Oddities`, two of whose requests have one key. In
the other runs the orders differ and symmetry is not used.

Fairness. `FairSpec` of `OrderSaga` is weak fairness of each request's own steps
once it has arrived: the event loop runs every ready coroutine, PostgreSQL
answers a statement or detects the deadlock. Arrival, faults, crashes and expiry
are never owed. A request is received once and ends once, so `EveryRequestEnds` says
that in the end none is under way. `FairSpec` of `OutboxRelay` lets some run start again and again
(beat) and lets a run that has started go on; orders, failures and deaths are
never owed. `FairSystem` is both together. Row locks need no strong fairness in
any of them: a lock is released for good when its transaction ends, and requests
take finitely many steps.

### Runs that find a disagreement

Each checks one statement of the repository that the code does not keep.

| Run | Statement | What the code does |
|---|---|---|
| `StuckKey` | README: the client may retry | a failed request leaves "processing" for 24 hours; the retry is refused |
| `DanglingResult` | README, test_idempotency: a second call returns the cached result | the result is stored before the commit; a rollback leaves a key that names no order, and the retry gets a 500 |
| `ReplyBeforeCommit` | test_api: a retry after a 202 returns the same payload | with FastAPI 0.118 or later, which `pyproject.toml` admits and the image installs, the 202 leaves before the commit |
| `LostAudit` | pg_saga_log: every step transition is stored | the FAILED entry is rolled back with the session |
| `LostEvent` | README: at-least-once delivery | one exception sets an event aside for good |
| `MemoryLeak` | orchestrator: if any step fails, compensating transactions run in reverse | a reservation that fails half way has no compensation; over the in-memory stores the earlier lines stay reserved |

`RespondFirst = FALSE` models FastAPI up to 0.117 (`requirements.txt` pins
0.115.0), `TRUE` later versions: `Oddities` and `ReplyBeforeCommit` take it, the
other runs take `FALSE`.

## Proofs

TLAPS proves the following for every set of requests, keys, products, orders and
stock that satisfies the modules' assumptions, and for any number of runs and
faults. Where nothing else is said, `RespondFirst` may have either value.

| Module | Theorems |
|---|---|
| `OrderSaga_proofs` | `IndInvariant`, and from it `TypeCorrect`, `NeverOversold`, `LedgerBalances`; `VersionsGrow` |
| `OrderOutcome_proofs` | `OutcomeInvariant`, and from it `KeyPlacesOnce`, `OutboxIsTransactional`, `RejectionIsClean`, `AcceptanceIsDurable` (assumes `RespondFirst = FALSE`; `ReplyBeforeCommit` refutes the other case) |
| `OrderRefinement_proofs` | `SagaIsAtomic`: `Spec => PlacesAtomically`, the refinement of `AtomicOrders`; `StockIsAccountedFor`: `Spec => []StockLedger` |
| `OrderProgress_proofs` | `StepsCount`: `Spec => NoStepInVain`; `WaitsAreBroken`: `Spec => []SomeoneGoesOn` |
| `OutboxRelay_proofs` | `RelayInvariant`, and from it `RelayTypeCorrect`, `SentIsPublished`, `RunsNeverDeadlock`; `PublishedInOrder`, `NoGapIsSettled`; `RunsEnd`: `Spec => RunsGetShorter` |
| `OrderSystem_proofs` | `SagasRunAsAlone`: `SystemSpec => Spec`; `SystemPlacesAtomically`; `TableInvariant`; `SagasArePlaceOrder`: `SystemSpec => ImplementsRelay`; `ConfirmedIsPublished`; `SystemRelays`: the system implements the relay's `Spec`; `DeliveryKeepsOrder`: `SystemSpec => SagaOrderKept`; `WorkerNeverDeadlocks`, `WorkerLeavesNoGap` |
| `MemorySaga_proofs` | `MemoryInvariant`, and from it `MemoryTypeCorrect`, `MemoryNeverOversold`, `RecordsTellOutcome`, `KeyAnswersOnce`; `ConfirmedAreBacked`, `ConfirmationIsFinal` |
| `Sums_proofs` | lemmas only: `SumIsNat`, `SumOfOneMore`, `MinimalException` |

**The stock.** `NoOversell` is not inductive. A request writes a stock row from a
copy it read earlier, so what it writes is sound only if the copy still is.
`IndInv` adds:

* `LockAt`: an unlocked row is as committed; a locked one is a newer version
  written by an open transaction;
* `SnapshotAt`: the copy's version never exceeds that of the visible row, and if they are
  equal the copy is that row plus this line's quantity;
* `ControlAt`, `StockedAt`: where the loop, the completed steps and the
  transaction stand at each point of the control flow, and that the rows of the
  lines passed are locked by the request, so that what it releases is the row as it
  still is;
* `TxLedger`: the visible row is the committed one plus what the transaction
  holds (`Held`), which ties the row to the place in the loop.

The argument splits a step of a request by whom it concerns. `FourWays`: it does
nothing to the stock rows, rolls back, commits, or makes one versioned write; the
write is good (`UpdateIsGood`, `ReleaseIsGood`), so the rows stay sound
(`RowsInv`). `SeenByOthers`: another request sees only commits, and they raise
the version, so its snapshot becomes stale and never wrong (`OthersInv`).
The `...Self` lemmas follow the acting request through its control flow; `ActInv`,
`CrashInv`, `IdleInv` join them. The assumptions used are the types of the
constants, orders being nonempty with positive quantities (`schemas.py`), the
initial stock not oversold, and `WantedAssumption`, which defines the prefix sums
of quantities that `Held` refers to.

**The outcomes.** What a client is told, what is committed and what a key says
come about at different moments, so none of the outcome properties is inductive.
`OutcomeInv` says how they hang together on the way:

* `HistoryAt`: at each point of the control flow, the order's status, the row the
  session holds and the kinds of event it has appended;
* `SavedAt`: a session about to end holds all of its order or nothing, nothing is
  committed before, and a refusal is the end;
* `ToldAt`: what a client is or will be told is committed or about to be;
* `OwnerAt`: of the requests that do not outlive a key, one at most may yet commit
  under it, and none once one of them has placed an order, since the key is held
  from `SET NX` to its expiry. Overdue requests are exempt: they commit under a key
  that others may hold;
* `AvailableAt`: sagas reserve units and do not change how many there are.

`OutboxIsTransactional` is about the kinds of event, which are committed with an
order all or not at all; how often each is there it does not say. Without an order
nothing is committed, log entries included. `SagaIsAtomic` maps a commit to `Place`,
the expiry of a key to `Forget`, which makes the requests at work under it late
(`ExpiryForgets`), and every other step to a stutter. That the stock of a commit is
that of one atomic order is `TxLedger` at the end of the loop; that the key is free
for whoever is not late is `OwnerAt`.

**The ledger of all orders.** `StockLedger` is about the committed rows, so it is
proved where they change, in `AtomicOrders`: `Place` adds one order and its demand
(`PlaceBalances`), `Forget` nothing, so the atomic service keeps its books
(`AtomicKeepsBooks`), and `SagaIsAtomic` carries that over to the saga. The sum
runs over a set of orders of any size. What `SumFunctionOnSet` computes needs
induction on that set, and the prover cannot instantiate a theorem that takes a
predicate; `Sums_proofs` goes another way. The library says that strict inclusion
between finite sets is well founded and that a well-founded relation has minimal
elements, which are theorems about sets: the set of subsets for which a claim is
wrong has a minimal member (`MinimalException`), and removing one element of that
member contradicts it. That the fold's recursive function exists (`SumsExist`),
is unique (`SumsAgree`), and that any element may be taken out first
(`AnyElementFirst`) are each proved so; `SumOfOneMore` is what the ledgers cite.
That finitely many orders are committed or asked for at any time is part of their
invariants.

**The end of every request.** `EveryRequestEnds` needs fairness and stays with TLC.
What it rests on is safety, and that is proved. `Remaining` counts the awaited calls
a request has left at most, as `StepsLeft` of its place, its lines and its events:
four for every line still to be reserved, since a line is read, updated, read again
and updated again once at most, two for every line still to be released, one for
every event to be published, one or two for every other step. `NoStepInVain` says that each
step of a request lowers its count and raises nobody's; only a crash, which is
bounded, and the expiry of a key, which moves no request, need not lower one. The
`...Counts` lemmas go through the control flow with `ControlAt`. A request can then
only fail to end by waiting for a row. `SomeoneGoesOn` says that whoever holds a
row is under way, and that if all requests under way wait, some are in a circle,
of which PostgreSQL aborts one. The holder is under way by `LockAt` and `ControlAt`;
for the circle take a least set of waiting requests of which each waits for a
member (`MinimalException`, as finitely many have arrived): its members that are
waited for are such a set too, hence all of them (`WaitersMeet`).

**The relay.** `RelayInv` says that a run's marks are published and older than
everything it has still to mark. Of the runs waiting in a circle the one waiting
for the newest event waits for a run that has marked that event, hence works on a
newer one: a contradiction (`NewestWaitsForNobody`, with `LeastNat` and
`GreatestNat` from well-foundedness; `HasNewest`: only finitely many rows are
committed at any time). `PublishedInOrder` adds `OrderInv`: a batch never starts
in the middle of an order, because an order's rows become visible together and a
batch is closed under older rows (`OldestIsClosed`), and what it lacks of an order
was dealt with before. `NoGapIsSettled` is the same about what commits leave behind:
`CoverInv` says that a run is to settle, has marked or finds settled whatever is
older than an event of its own in the same order, which a commit turns into
`SettledFromOldest`. `RunsEnd` counts the steps of a run as `StepsCount` those of a
request, with the size of the batch, finite by `HasNewest`; with `RunsNeverDeadlock`
it is the safety half of `EveryEventSettled`.

**The system.** Every step of the system is a step of `OrderSaga` or leaves the
sagas alone, so every theorem about `OrderSaga` holds beside the worker.
`TableInv` says that no time is given twice, that later rows of an order have
later times, and that the table holds exactly the rows of committed orders.
`Stamped`, `TableStays` and `TableGrows` show that a step of a saga keeps it, and
that seen from the relay the step is `PlaceOrder` if it commits and nothing
otherwise. With `OutcomeInv`, whatever is published belongs to a confirmed order.
The module instantiates the relay's proofs with any finite sets of
times as `RowSets`; `OutboxRelay`'s assumptions are proved of them
(`TimesAreEvents`) and `WorkerAssumption`, and `DeliveryKeepsOrder` brings
`PublishedInOrder` back to the events of a saga.

**In memory.** `NoOversell` would follow from each line's guard alone if a call had
one line. `PassingFits` shows it for all the lines together: the first line after
which the stock would be oversold cannot have passed. `UnsavedAt` and `KeyAt` tie
orders and keys to the calls that have ended; a call that repeats an order
finds it stored and tries to cancel it, which `cancel` refuses for a confirmed order
and which only releases a cancelled one once more (`DuplicateKeeps`); only the run
that confirms an order starts `confirm_order` (`ConfirmStarted`). `ConfirmedAreBacked` sums over
the confirmed orders: a call that confirms one more reserves its demand, and no
other call lowers what is reserved (`FailureKeeps`, `DuplicateKeeps`).

Only model-checked is liveness: `EveryRequestEnds`, `EveryEventSettled` and
`AcceptedIsAnnounced`. Fairness and ENABLED are beyond the prover. Every other
property of a passing run is proved. The runs that find a disagreement refute
theirs.

## Not modelled

* Reconciliation: `reconcile` returns an empty report without reading, and the task
  passes its constructor an argument it does not take. `retry_dlq` counts messages
  nobody produces. The event-handling tasks log.
* Reading endpoints, health, lifespan: they change no state. `GET /orders/{id}`
  reads `order.id` and `order.total_amount`, which `Order` does not have, so it fails
  for every order there is.
* `create_app` is used by the tests and not by `main.py`; its `POST` is modelled
  through `execute` (`MemorySaga`), its `GET` only reads.
* `PgDLQ`, `IdempotencyKeyModel`, the second `RedisIdempotency` in
  `infrastructure/idempotency/__init__.py`, `Order.mark_failed`,
  `StockItem.confirm_reservation`, `get_pending` and the marks of
  `InMemoryOutbox`: nothing outside the tests calls them.
* Money, addresses, serialization, seeds, migrations, configuration: data the
  control flow never branches on.
* The connection pool: a session holds one connection and never asks for a
  second, so the pool delays arrivals and nothing else. Integer overflow of
  versions (2^31 updates of a row).

## Plan

Done: all modules, runs and proofs above. What is left, in the order of its use:

1. The variants of the idempotency store behind one abstract store, once the
   second Redis client has a caller.
2. The DLQ table with a producer and a retry that publishes, as the specification
   of what the repository's README promises.
3. A compensation inside `System`, with a third request, if the state space can be
   cut down enough for its liveness property.
