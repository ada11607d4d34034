------------------------------ MODULE OrderSaga ------------------------------
(***************************************************************************)
(* OrderSagaOrchestrator.execute as the production application runs it:    *)
(* several POST /orders requests in one API process, each inside its own   *)
(* READ COMMITTED PostgreSQL transaction (api/main.py), all of them        *)
(* sharing the stock rows and the Redis idempotency store.                 *)
(*                                                                         *)
(* A request is a process.  One action is one awaited call on a shared     *)
(* store together with the local code up to the next such call: calls that *)
(* touch only the request's own uncommitted rows (order, outbox, saga log) *)
(* are invisible to the others and join the neighbouring step.             *)
(*                                                                         *)
(* The order id is uuid4() per request, so request r stands for its order. *)
(***************************************************************************)
EXTENDS Aggregates, FiniteSetsExt

CONSTANTS
  Requests,      \* POST /orders calls, each carrying a new order
  Keys,          \* values of the X-Idempotency-Key header
  KeyOf,         \* KeyOf[r]: the key request r carries, None if it is empty
  Stocked,       \* products that have a row in stock_items
  Products,      \* products a client can name
  InitialStock,  \* InitialStock[p]: the committed row at the start
  Items,         \* Items[r]: the order's lines, a sequence of [product, qty]
  Wanted,        \* Wanted[r][i][p]: quantity of p in the first i lines of r
  RespondFirst,  \* the reply leaves before the commit (FastAPI 0.118 on)
  MaxCrashes,    \* bound: how often the API process may die
  MaxOverdue,    \* bound: how many requests may outlive their key
  None           \* no order, no key

ASSUME NoneAssumption == None \notin Requests \cup Keys
ASSUME KeyAssumption == KeyOf \in [Requests -> Keys \cup {None}]
OrderItem == [product : Products, qty : Nat \ {0}]
ASSUME ItemsAssumption ==
  /\ Items \in [Requests -> Seq(OrderItem)]
  /\ \A r \in Requests : Items[r] # <<>>
ASSUME StockAssumption ==
  /\ Stocked \subseteq Products
  /\ InitialStock \in [Stocked -> StockItem]
  /\ \A p \in Stocked : InitialStock[p].reserved <= InitialStock[p].available
ASSUME WantedAssumption ==
  \A r \in Requests :
    /\ Wanted[r] \in [0 .. Len(Items[r]) -> [Stocked -> Nat]]
    /\ \A p \in Stocked : Wanted[r][0][p] = 0
    /\ \A i \in 1 .. Len(Items[r]), p \in Stocked :
         Wanted[r][i][p] = Wanted[r][i - 1][p]
             + (IF Items[r][i].product = p THEN Items[r][i].qty ELSE 0)
ASSUME SwitchAssumption ==
  RespondFirst \in BOOLEAN /\ MaxCrashes \in Nat /\ MaxOverdue \in Nat

VARIABLES
  \* locals of the coroutine serving each request
  pc,         \* the next awaited call
  steps,      \* len(completed_steps)
  idx,        \* position in order.items of the loop being run
  stock,      \* the StockItem last read (and reserved locally)
  order,      \* the Order aggregate in memory
  tx,         \* its uncommitted rows: order, outbox events, saga log
  \* PostgreSQL
  row,        \* row[p]: committed stock_items row
  dirty,      \* dirty[p]: latest version of the row, committed or not
  lock,       \* lock[p]: the request whose transaction holds the row lock
  saved,      \* saved[r]: committed rows of r's order, like tx
  \* Redis
  key,        \* key[k]: the value under "idempotency:k"
  \* API process and client
  dlq,        \* orders in the in-memory DeadLetterQueue
  crashes,    \* how often the process has died
  reply,      \* what the client of r has received
  result,     \* the order id in that reply
  \* history
  placed,     \* placed[k]: requests committed in key k's current lifetime
  overdue     \* requests that were at work when their key expired

locals == <<steps, idx, stock, order>>
database == <<row, dirty, lock, saved>>
client == <<reply, result>>
history == <<placed, overdue>>
vars == <<pc, locals, tx, database, key, dlq, crashes, client, history>>

-----------------------------------------------------------------------------
PC == {"check", "get", "fetch", "create", "read", "update", "reread",
       "reupdate", "mark", "pay", "confirm", "publish", "store", "fail",
       "refund", "release", "putback", "cancel", "rollback", "commit",
       "respond", "done"}

Steps == {"start", "create_order", "reserve_stock", "process_payment",
          "confirm_order"}
StepName(n) == CASE n = 0 -> "start" [] n = 1 -> "create_order"
                 [] n = 2 -> "reserve_stock" [] n = 3 -> "process_payment"
                 [] n = 4 -> "confirm_order"

SavedOrder == [status : OrderStatus, version : Nat]
ASSUME NoOrderAssumption == None \notin SavedOrder
LogEntry == [step : Steps, state : {"STARTED", "FAILED"}]
OwnRows == [order : SavedOrder \cup {None}, outbox : Seq(EventType),
            log : Seq(LogEntry)]
NoRows == [order |-> None, outbox |-> <<>>, log |-> <<>>]

KeyValue == [status : {"absent", "processing", "completed"},
             order : Requests \cup {None}]
Absent == [status |-> "absent", order |-> None]
Processing == [status |-> "processing", order |-> None]
Completed(r) == [status |-> "completed", order |-> r]

Reply == {"none", "accepted", "rejected", "critical", "error", "lost"}

\* Outside these a request holds neither rows nor locks.
Active(r) == pc[r] \notin {"check", "done"}

\* r works under the key it carries: it may yet commit an order.
Owns(r) == pc[r] = "create" \/ tx[r].order # None

TypeOK ==
  /\ pc \in [Requests -> PC]
  /\ steps \in [Requests -> 0 .. 4]
  /\ idx \in [Requests -> Nat \ {0}]
  /\ stock \in [Requests -> StockItem]
  /\ order \in [Requests -> Order]
  /\ tx \in [Requests -> OwnRows]
  /\ row \in [Stocked -> StockItem]
  /\ dirty \in [Stocked -> StockItem]
  /\ lock \in [Stocked -> Requests \cup {None}]
  /\ saved \in [Requests -> OwnRows]
  /\ key \in [Keys -> KeyValue]
  /\ dlq \subseteq Requests
  /\ crashes \in 0 .. MaxCrashes
  /\ reply \in [Requests -> Reply]
  /\ result \in [Requests -> Requests \cup {None}]
  /\ placed \in [Keys -> SUBSET Requests]
  /\ overdue \subseteq Requests

Init ==
  /\ pc = [r \in Requests |-> "check"]
  /\ steps = [r \in Requests |-> 0]
  /\ idx = [r \in Requests |-> 1]
  /\ stock = [r \in Requests |->
                [available |-> 0, reserved |-> 0, version |-> 0]]
  /\ order = [r \in Requests |-> NewOrder]
  /\ tx = [r \in Requests |-> NoRows]
  /\ row = InitialStock
  /\ dirty = InitialStock
  /\ lock = [p \in Stocked |-> None]
  /\ saved = [r \in Requests |-> NoRows]
  /\ key = [k \in Keys |-> Absent]
  /\ dlq = {}
  /\ crashes = 0
  /\ reply = [r \in Requests |-> "none"]
  /\ result = [r \in Requests |-> None]
  /\ placed = [k \in Keys |-> {}]
  /\ overdue = {}

-----------------------------------------------------------------------------
\* Helpers: control flow, own rows, stock rows, end of the transaction.

Goto(r, label) == pc' = [pc EXCEPT ![r] = label]

Item(r) == Items[r][idx[r]]

\* Mutant: off by one, the loop runs past the last line.
NextItemPastEnd(r, again, after) == IF idx[r] <= Len(Items[r]) THEN again ELSE after

NextItem(r, again, after) == IF idx[r] < Len(Items[r]) THEN again ELSE after

\* One flush of the session: the order row is now o, events and log grow.
Write(r, o, events, entries) ==
  tx' = [tx EXCEPT ![r] = [order |-> o, outbox |-> @.outbox \o events,
                           log |-> @.log \o entries]]

Row(o) == [status |-> o.status, version |-> o.version]
LogStart(n) == <<[step |-> StepName(n), state |-> "STARTED"]>>

\* READ COMMITTED: a transaction sees its own write, else the last commit.
Visible(r, p) == IF lock[p] = r THEN dirty[p] ELSE row[p]

\* Mutant: UPDATE without the version in its WHERE clause.
BlindUpdate(r) == Visible(r, Item(r).product).version >= 0

VersionMatches(r) == Visible(r, Item(r).product).version = stock[r].version

\* Mutant: the row is written at the version it was read at.
WriteStockUnversioned(r, p, item) ==
  /\ lock[p] \in {None, r}
  /\ lock' = [lock EXCEPT ![p] = r]
  /\ dirty' = [dirty EXCEPT ![p] = item]

\* update_with_version, once WHERE version = expected holds: it waits for the
\* row lock, writes the item's quantities and the expected version plus one.
WriteStock(r, p, item) ==
  /\ lock[p] \in {None, r}
  /\ lock' = [lock EXCEPT ![p] = r]
  /\ dirty' = [dirty EXCEPT ![p] = [item EXCEPT !.version = @ + 1]]

\* Mutant: stock updates are committed one by one and outlive the rollback.
AbortKeepingStock(r) ==
  /\ row' = [p \in Stocked |-> IF lock[p] = r THEN dirty[p] ELSE row[p]]
  /\ lock' = [p \in Stocked |-> IF lock[p] = r THEN None ELSE lock[p]]
  /\ tx' = [tx EXCEPT ![r] = NoRows]
  /\ UNCHANGED <<dirty, saved>>

\* Mutant: the session is given up without a rollback, its transaction open.
AbortKeepingLocks(r) ==
  /\ dirty' = [p \in Stocked |-> IF lock[p] = r THEN row[p] ELSE dirty[p]]
  /\ tx' = [tx EXCEPT ![r] = NoRows]
  /\ UNCHANGED <<row, lock, saved>>

\* PostgreSQL ends r's transaction undoing it.
Abort(r) ==
  /\ lock' = [p \in Stocked |-> IF lock[p] = r THEN None ELSE lock[p]]
  /\ dirty' = [p \in Stocked |-> IF lock[p] = r THEN row[p] ELSE dirty[p]]
  /\ tx' = [tx EXCEPT ![r] = NoRows]
  /\ UNCHANGED <<row, saved>>

\* Mutant: the outbox has a session of its own, which nobody commits.
CommitWithoutOutbox(r) ==
  /\ row' = [p \in Stocked |-> IF lock[p] = r THEN dirty[p] ELSE row[p]]
  /\ lock' = [p \in Stocked |-> IF lock[p] = r THEN None ELSE lock[p]]
  /\ saved' = [saved EXCEPT ![r] = [tx[r] EXCEPT !.outbox = <<>>]]
  /\ tx' = [tx EXCEPT ![r] = NoRows]
  /\ placed' = [k \in Keys |-> IF KeyOf[r] = k /\ tx[r].order # None
                               THEN placed[k] \cup {r} ELSE placed[k]]
  /\ UNCHANGED <<dirty, overdue>>

\* PostgreSQL ends r's transaction keeping it.
CommitRows(r) ==
  /\ row' = [p \in Stocked |-> IF lock[p] = r THEN dirty[p] ELSE row[p]]
  /\ lock' = [p \in Stocked |-> IF lock[p] = r THEN None ELSE lock[p]]
  /\ saved' = [saved EXCEPT ![r] = tx[r]]
  /\ tx' = [tx EXCEPT ![r] = NoRows]
  /\ placed' = [k \in Keys |-> IF KeyOf[r] = k /\ tx[r].order # None
                               THEN placed[k] \cup {r} ELSE placed[k]]
  /\ UNCHANGED <<dirty, overdue>>

\* The client gets an answer, unless it already has one.
Answer(r, a) ==
  reply' = [reply EXCEPT ![r] = IF @ = "none" THEN a ELSE @]

\* An exception leaves execute: the router maps it to a status, the session
\* dependency rolls back.
RaiseOut(r, a) == Goto(r, "done") /\ Abort(r) /\ Answer(r, a)

\* DeadLetterQueue.enqueue: a list in the process.
Enqueue(r) == dlq' = dlq \cup {r}

-----------------------------------------------------------------------------
\* The idempotency check.

\* Mutant: any key without a result is taken over.
CheckOnlyCompleted(r) ==
  /\ pc[r] = "check" /\ KeyOf[r] # None
  /\ IF key[KeyOf[r]].status # "completed"
       THEN key' = [key EXCEPT ![KeyOf[r]] = Processing] /\ Goto(r, "create")
       ELSE Goto(r, "get") /\ UNCHANGED key
  /\ UNCHANGED <<locals, tx, database, dlq, crashes, client, history>>

CheckAndStore(r) ==
  /\ pc[r] = "check" /\ KeyOf[r] # None
  /\ IF key[KeyOf[r]].status = "absent"
       THEN key' = [key EXCEPT ![KeyOf[r]] = Processing] /\ Goto(r, "create")
       ELSE Goto(r, "get") /\ UNCHANGED key
  /\ UNCHANGED <<locals, tx, database, dlq, crashes, client, history>>

\* Without a key nothing is checked.
StartUnkeyed(r) ==
  /\ pc[r] = "check" /\ KeyOf[r] = None
  /\ Goto(r, "create")
  /\ UNCHANGED <<locals, tx, database, key, dlq, crashes, client, history>>

\* Redis fails before or after it applied SET NX; the answer is a 500.
CheckError(r) ==
  /\ pc[r] = "check" /\ KeyOf[r] # None
  /\ RaiseOut(r, "error")
  /\ \/ UNCHANGED key
     \/ /\ key[KeyOf[r]].status = "absent"
        /\ key' = [key EXCEPT ![KeyOf[r]] = Processing]
  /\ UNCHANGED <<locals, dlq, crashes, result, history>>

GetCompleted(r) ==
  /\ pc[r] = "get"
  /\ key[KeyOf[r]].status = "completed"
  /\ result' = [result EXCEPT ![r] = key[KeyOf[r]].order]
  /\ Goto(r, "fetch")
  /\ UNCHANGED <<locals, tx, database, key, dlq, crashes, reply, history>>

\* Mutant: the duplicate polls until there is a result.
PollForResult(r) ==
  /\ pc[r] = "get"
  /\ key[KeyOf[r]].status # "completed"
  /\ UNCHANGED vars

\* "already in progress".
GetInProgress(r) ==
  /\ pc[r] = "get"
  /\ key[KeyOf[r]].status # "completed"
  /\ RaiseOut(r, "rejected")
  /\ UNCHANGED <<locals, key, dlq, crashes, result, history>>

GetError(r) ==
  /\ pc[r] = "get"
  /\ RaiseOut(r, "error")
  /\ UNCHANGED <<locals, key, dlq, crashes, result, history>>

\* execute returns: get_db_session commits and the reply is sent.
Return(r) == Goto(r, IF RespondFirst THEN "respond" ELSE "commit")

\* Mutant: the cached answer is given without looking for the order.
AnswerFromCache(r) ==
  /\ pc[r] = "fetch"
  /\ Return(r)
  /\ UNCHANGED <<locals, tx, database, key, dlq, crashes, client, history>>

\* get_by_id of the cached order; None makes the router fail on .order_id.
FetchCached(r) ==
  /\ pc[r] = "fetch"
  /\ IF saved[result[r]].order # None
       THEN Return(r) /\ UNCHANGED <<tx, database, reply>>
       ELSE RaiseOut(r, "error")
  /\ UNCHANGED <<locals, key, dlq, crashes, result, history>>

-----------------------------------------------------------------------------
\* The saga's steps.

\* Mutant: save commits the session it is given.
CreateOrderCommitted(r) ==
  /\ pc[r] = "create"
  /\ Write(r, Row(order[r]), <<"OrderCreated">>, LogStart(1))
  /\ saved' = [saved EXCEPT ![r] = tx'[r]]
  /\ steps' = [steps EXCEPT ![r] = 1]
  /\ Goto(r, "read")
  /\ UNCHANGED <<idx, stock, order, row, dirty, lock, key, dlq, crashes, client,
                 history>>

\* The order id is fresh, so the DuplicateOrderError branch is not reachable.
CreateOrder(r) ==
  /\ pc[r] = "create"
  /\ Write(r, Row(order[r]), <<"OrderCreated">>, LogStart(1))
  /\ steps' = [steps EXCEPT ![r] = 1]
  /\ Goto(r, "read")
  /\ UNCHANGED <<idx, stock, order, database, key, dlq, crashes, client, history>>

\* get_by_product and the local reserve; "fail" is where execute's handler
\* catches what an unknown product or too little stock raises.
ReadStock(r) ==
  LET p == Item(r).product
      q == Item(r).qty
  IN /\ pc[r] = "read"
     /\ Write(r, tx[r].order, <<>>, IF idx[r] = 1 THEN LogStart(2) ELSE <<>>)
     /\ IF p \in Stocked /\ CanReserve(Visible(r, p), q)
          THEN /\ stock' = [stock EXCEPT ![r] = Reserve(Visible(r, p), q)]
               /\ Goto(r, "update")
          ELSE Goto(r, "fail") /\ UNCHANGED stock
     /\ UNCHANGED <<steps, idx, order, database, key, dlq, crashes, client, history>>

\* update_with_version; on a mismatch control goes to `otherwise'.
TryUpdate(r, otherwise) ==
  /\ IF VersionMatches(r)
       THEN /\ WriteStock(r, Item(r).product, stock[r])
            /\ idx' = [idx EXCEPT ![r] = @ + 1]
            /\ Goto(r, NextItem(r, "read", "mark"))
       ELSE Goto(r, otherwise) /\ UNCHANGED <<idx, lock, dirty>>
  /\ UNCHANGED <<steps, stock, order, tx, row, saved, key, dlq, crashes,
                 client, history>>

UpdateStock(r) == pc[r] = "update" /\ TryUpdate(r, "reread")

\* The one retry: fresh row, fresh expected version.
RereadStock(r) ==
  LET p == Item(r).product
      q == Item(r).qty
  IN /\ pc[r] = "reread"
     /\ IF EffectiveStock(Visible(r, p)) >= q
          THEN /\ stock' = [stock EXCEPT ![r] = Reserve(Visible(r, p), q)]
               /\ Goto(r, "reupdate")
          ELSE Goto(r, "fail") /\ UNCHANGED stock
     /\ UNCHANGED <<steps, idx, order, tx, database, key, dlq, crashes,
                    client, history>>

\* Mutant: the retry is repeated until the version is right.
RetryUntilRight(r) == pc[r] = "reupdate" /\ TryUpdate(r, "reread")

ReupdateStock(r) == pc[r] = "reupdate" /\ TryUpdate(r, "fail")

\* The tail of a step that moves the order: its guard, the update of the
\* order row, the event; a failed guard raises InvalidStateTransition.
CompleteStep(r, allowed, next, entries, label) ==
  /\ IF allowed
       THEN /\ order' = [order EXCEPT ![r] = next]
            /\ Write(r, Row(next), <<next.events[Len(next.events)]>>, entries)
            /\ steps' = [steps EXCEPT ![r] = @ + 1]
            /\ Goto(r, label)
       ELSE /\ Write(r, tx[r].order, <<>>, entries)
            /\ Goto(r, "fail")
            /\ UNCHANGED <<order, steps>>
  /\ UNCHANGED <<idx, stock, database, key, dlq, crashes, client, history>>

MarkStockReserved(r) ==
  /\ pc[r] = "mark"
  /\ CompleteStep(r, CanReserveStock(order[r]), ReserveStock(order[r]),
                  <<>>, "pay")

PayOrder(r) ==
  /\ pc[r] = "pay"
  /\ CompleteStep(r, CanProcessPayment(order[r]), ProcessPayment(order[r]),
                  LogStart(3), "confirm")

ConfirmOrder(r) ==
  /\ pc[r] = "confirm"
  /\ CompleteStep(r, CanConfirm(order[r]), Confirm(order[r]),
                  LogStart(4), "publish")

\* All events are published.  Without a key no result is stored.
Published(r) ==
  IF KeyOf[r] = None
    THEN Return(r) /\ result' = [result EXCEPT ![r] = r]
    ELSE Goto(r, "store") /\ UNCHANGED result

\* One append of _publish_events: an event of the aggregate joins the outbox,
\* which already holds the ones the steps appended.  The events still to come
\* stand for the position of the loop; clear_events ends it.
PublishEvents(r) ==
  /\ pc[r] = "publish"
  /\ Write(r, tx[r].order, <<Head(order[r].events)>>, <<>>)
  /\ order' = [order EXCEPT ![r].events = Tail(@)]
  /\ IF Len(order[r].events) > 1 THEN UNCHANGED <<pc, result>> ELSE Published(r)
  /\ UNCHANGED <<steps, idx, stock, database, key, dlq, crashes, reply, history>>

StoreResult(r) ==
  /\ pc[r] = "store"
  /\ key' = [key EXCEPT ![KeyOf[r]] = Completed(r)]
  /\ result' = [result EXCEPT ![r] = r]
  /\ Return(r)
  /\ UNCHANGED <<locals, tx, database, dlq, crashes, reply, history>>

\* Redis fails before or after it applied SET; execute's handler runs.
StoreError(r) ==
  /\ pc[r] = "store"
  /\ Goto(r, "fail")
  /\ \/ UNCHANGED key
     \/ key' = [key EXCEPT ![KeyOf[r]] = Completed(r)]
  /\ UNCHANGED <<locals, tx, database, dlq, crashes, client, history>>

-----------------------------------------------------------------------------
\* The exception handler of execute and _compensate.

\* The completed steps are undone last to first; only two of them have a
\* compensation.
LogFailure(r) ==
  /\ pc[r] = "fail"
  /\ Write(r, tx[r].order, <<>>,
           <<[step |-> StepName(steps[r]), state |-> "FAILED"]>>)
  /\ Goto(r, IF steps[r] >= 3 THEN "refund"
             ELSE IF steps[r] = 2 THEN "release" ELSE "cancel")
  /\ idx' = [idx EXCEPT ![r] = IF steps[r] >= 2 THEN 1 ELSE @]
  /\ UNCHANGED <<steps, stock, order, database, key, dlq, crashes, client, history>>

RefundPayment(r) ==
  /\ pc[r] = "refund"
  /\ Write(r, tx[r].order, <<"PaymentRefunded">>, <<>>)
  /\ Goto(r, "release")
  /\ UNCHANGED <<locals, database, key, dlq, crashes, client, history>>

\* get_by_product and the local release for one line of _release_stock.
ReleaseStock(r) ==
  LET p == Item(r).product
      q == Item(r).qty
  IN /\ pc[r] = "release"
     /\ IF CanRelease(Visible(r, p), q)
          THEN /\ stock' = [stock EXCEPT ![r] = Release(Visible(r, p), q)]
               /\ Goto(r, "putback")
               /\ UNCHANGED <<tx, database, reply, dlq>>
          ELSE RaiseOut(r, "critical") /\ Enqueue(r) /\ UNCHANGED stock
     /\ UNCHANGED <<steps, idx, order, key, crashes, result, history>>

\* update_with_version for that line; nobody looks at what it returns.
UpdateReleased(r) ==
  /\ pc[r] = "putback"
  /\ IF VersionMatches(r) THEN WriteStock(r, Item(r).product, stock[r])
                           ELSE UNCHANGED <<lock, dirty>>
  /\ idx' = [idx EXCEPT ![r] = @ + 1]
  /\ Write(r, tx[r].order, NextItem(r, <<>>, <<"StockReleased">>), <<>>)
  /\ Goto(r, NextItem(r, "release", "cancel"))
  /\ UNCHANGED <<steps, stock, order, row, saved, key, dlq, crashes, client,
                 history>>

\* A confirmed order refuses to be cancelled; _compensate swallows that.
CancelOrder(r) ==
  /\ pc[r] = "cancel"
  /\ IF CanCancel(order[r])
       THEN /\ order' = [order EXCEPT ![r] = Cancel(@)]
            /\ Write(r, Row(Cancel(order[r])), <<"StockReleased">>, <<>>)
       ELSE UNCHANGED <<order, tx>>
  /\ Goto(r, "rollback")
  /\ UNCHANGED <<steps, idx, stock, database, key, dlq, crashes, client, history>>

\* Mutant: the error becomes a reply inside the session, which then commits.
CommitCompensated(r) ==
  /\ pc[r] = "rollback"
  /\ CommitRows(r)
  /\ Goto(r, "done")
  /\ Answer(r, "rejected")
  /\ UNCHANGED <<locals, key, dlq, crashes, result>>

\* SagaExecutionError reaches the router and the session dependency.
Rollback(r) ==
  /\ pc[r] = "rollback"
  /\ RaiseOut(r, "rejected")
  /\ UNCHANGED <<locals, key, dlq, crashes, result, history>>

-----------------------------------------------------------------------------
\* The end of a request that succeeded.

Commit(r) ==
  /\ pc[r] = "commit"
  /\ CommitRows(r)
  /\ Goto(r, IF RespondFirst THEN "done" ELSE "respond")
  /\ UNCHANGED <<locals, key, dlq, crashes, client>>

\* COMMIT raises: nothing was kept, or everything was and the answer is lost.
CommitError(r) ==
  /\ pc[r] = "commit"
  /\ \/ RaiseOut(r, "error") /\ UNCHANGED history
     \/ CommitRows(r) /\ Goto(r, "done") /\ Answer(r, "error")
  /\ UNCHANGED <<locals, key, dlq, crashes, result>>

Respond(r) ==
  /\ pc[r] = "respond"
  /\ Answer(r, "accepted")
  /\ Goto(r, IF RespondFirst THEN "commit" ELSE "done")
  /\ UNCHANGED <<locals, tx, database, key, dlq, crashes, result, history>>

-----------------------------------------------------------------------------
\* Faults.

\* A statement fails and PostgreSQL refuses every later one: the handler's
\* own log_step raises, and the request ends without compensating.
DbError(r) ==
  /\ pc[r] \in {"fetch", "create", "read", "update", "reread", "reupdate",
                "mark", "pay", "confirm", "publish", "fail"}
  /\ RaiseOut(r, "error")
  /\ UNCHANGED <<locals, key, dlq, crashes, result, history>>

\* A compensation fails: enqueued for manual intervention, then a 400.
CompensationError(r) ==
  /\ pc[r] \in {"refund", "release", "putback"}
  /\ RaiseOut(r, "critical")
  /\ Enqueue(r)
  /\ UNCHANGED <<locals, key, crashes, result, history>>

\* The cancellation fails: logged and swallowed.
CancelError(r) ==
  /\ pc[r] = "cancel"
  /\ CanCancel(order[r])
  /\ RaiseOut(r, "rejected")
  /\ UNCHANGED <<locals, key, dlq, crashes, result, history>>

\* r's UPDATE waits for the row lock of s.
WaitsFor(r, s) ==
  /\ r # s
  /\ pc[r] \in {"update", "reupdate", "putback"}
  /\ VersionMatches(r)
  /\ lock[Item(r).product] = s

InDeadlock(r) ==
  \E S \in SUBSET Requests :
    /\ r \in S
    /\ \A a \in S : (\E b \in S : WaitsFor(a, b)) /\ (\E b \in S : WaitsFor(b, a))

\* Mutant: the victim sends its UPDATE again, in the same transaction.
RetryInDeadlock(r) == InDeadlock(r) /\ UNCHANGED vars

\* PostgreSQL picks r as the victim of a cycle of waiting transactions.
DeadlockAbort(r) ==
  /\ InDeadlock(r)
  /\ RaiseOut(r, "error")
  /\ UNCHANGED <<locals, key, dlq, crashes, result, history>>

\* The process dies: its coroutines and its DLQ are gone, its connections
\* drop, and the container is restarted with nothing to resume.
ApiCrash ==
  /\ crashes < MaxCrashes
  /\ crashes' = crashes + 1
  /\ pc' = [r \in Requests |-> IF Active(r) THEN "done" ELSE pc[r]]
  /\ reply' = [r \in Requests |->
                 IF Active(r) /\ reply[r] = "none" THEN "lost" ELSE reply[r]]
  /\ tx' = [r \in Requests |-> NoRows]
  /\ lock' = [p \in Stocked |-> None]
  /\ dirty' = row
  /\ dlq' = {}
  /\ UNCHANGED <<locals, row, saved, key, result, history>>

\* The key's 24 hours are over, whoever works under it.
ExpireKey(k) ==
  /\ key[k].status # "absent"
  /\ key' = [key EXCEPT ![k] = Absent]
  /\ placed' = [placed EXCEPT ![k] = {}]
  /\ overdue' = overdue \cup {r \in Requests : KeyOf[r] = k /\ Owns(r)}
  /\ Cardinality(overdue') <= MaxOverdue
  /\ UNCHANGED <<pc, locals, tx, database, dlq, crashes, client>>

-----------------------------------------------------------------------------
Arrive(r) == CheckAndStore(r) \/ StartUnkeyed(r)

\* What a request does on its own once it has been received.
Serve(r) ==
  \/ GetCompleted(r) \/ GetInProgress(r) \/ FetchCached(r)
  \/ CreateOrder(r) \/ ReadStock(r) \/ UpdateStock(r) \/ RereadStock(r)
  \/ ReupdateStock(r) \/ MarkStockReserved(r) \/ PayOrder(r)
  \/ ConfirmOrder(r) \/ PublishEvents(r) \/ StoreResult(r)
  \/ LogFailure(r) \/ RefundPayment(r) \/ ReleaseStock(r)
  \/ UpdateReleased(r) \/ CancelOrder(r) \/ Rollback(r) \/ Commit(r)
  \/ Respond(r) \/ DeadlockAbort(r)

Fault(r) ==
  \/ CheckError(r) \/ GetError(r) \/ StoreError(r) \/ CommitError(r)
  \/ DbError(r) \/ CompensationError(r) \/ CancelError(r)

\* All requests have ended: the only state in which nothing need happen.
Terminating == (\A r \in Requests : pc[r] = "done") /\ UNCHANGED vars

Next ==
  \/ \E r \in Requests : Arrive(r) \/ Serve(r) \/ Fault(r)
  \/ ApiCrash
  \/ \E k \in Keys : ExpireKey(k)
  \/ Terminating

Spec == Init /\ [][Next]_vars

\* A request once received is run by the event loop and its statements are
\* answered, a deadlock included; arrivals and faults are never owed.
FairSpec == Spec /\ \A r \in Requests : WF_vars(Serve(r))

-----------------------------------------------------------------------------
\* The abstract order service this one implements: an order exists from the
\* commit of its request on.
Atomic == INSTANCE AtomicOrders WITH
  Available <- [p \in Stocked |-> InitialStock[p].available],
  Taken <- [p \in Stocked |-> InitialStock[p].reserved],
  Demand <- [r \in Requests |-> Wanted[r][Len(Items[r])]],
  Feasible <- {r \in Requests :
                 \A i \in DOMAIN Items[r] : Items[r][i].product \in Stocked},
  reserved <- [p \in Stocked |-> row[p].reserved],
  late <- overdue,
  orders <- {r \in Requests : saved[r].order # None}

\* Seen through its committed rows, the whole concurrent, crashing saga is
\* the atomic placement of one order per key and lifetime of the key, of those
\* requests that do not outlive it (execute, get_db_session).
PlacesAtomically == Atomic!Spec

-----------------------------------------------------------------------------
\* Properties.

\* What r's open transaction has added to the reserved quantity of p.
Held(r, p) ==
  LET n == Len(Items[r])
  IN CASE pc[r] \in {"refund", "release", "putback"} ->
              Wanted[r][n][p] - Wanted[r][idx[r] - 1][p]
       [] pc[r] \in {"cancel", "rollback"} /\ steps[r] >= 2 -> 0
       [] OTHER -> Wanted[r][idx[r] - 1][p]

LedgerAt(r, p) ==
  tx[r].order # None => Visible(r, p).reserved = row[p].reserved + Held(r, p)

\* Inside a transaction no reservation is lost or counted twice, whatever
\* concurrent requests do to the row between the read and the versioned
\* update, and the compensation gives back exactly what was taken
\* (_reserve_stock, _release_stock, update_with_version).
TxLedger == \A r \in Requests, p \in Stocked : LedgerAt(r, p)

\* The committed reserved quantity of a product is what it was at the start
\* plus what the committed orders ask for: no lost update, no leak from a
\* failed, crashed or aborted saga.
StockLedger ==
  \A p \in Stocked :
    row[p].reserved = InitialStock[p].reserved
        + SumFunctionOnSet([r \in Requests |-> Wanted[r][Len(Items[r])][p]],
                           {r \in Requests : saved[r].order # None})

\* Never more reserved than available, neither committed nor in flight
\* (StockItem.reserve checks a copy that other requests can make stale).
NoOversell ==
  \A p \in Stocked : /\ row[p].reserved <= row[p].available
                     /\ dirty[p].reserved <= dirty[p].available

\* Within the lifetime of an idempotency key at most one order is committed
\* by requests that do not outlive it: retries, concurrent duplicates and
\* failures notwithstanding, and whatever a request that was at work when the
\* key expired does to the key afterwards (check_and_store, store_result).
OneOrderPerKey ==
  \A k \in Keys : \A r, s \in placed[k] \ overdue : r = s

\* A client that was answered 202 finds the order it was told of committed
\* and confirmed, under the key it sent (execute, get_db_session, get_result).
AcceptedIsDurable ==
  \A r \in Requests : reply[r] = "accepted" =>
    /\ saved[result[r]].order # None
    /\ saved[result[r]].order.status = "CONFIRMED"
    /\ KeyOf[result[r]] = KeyOf[r]

\* A client that was answered 400 has left no order, event or stock change
\* of its own behind (_compensate and the rollback of get_db_session).
RejectedLeavesNothing ==
  \A r \in Requests : reply[r] \in {"rejected", "critical"} =>
    /\ saved[r] = NoRows
    /\ \A p \in Stocked : lock[p] # r

\* The transactional outbox: with an order every kind of event of a confirmed
\* saga is committed and none of a compensation, and without an order nothing
\* is, neither an event nor an entry of the saga log (the rows of outbox_events
\* and saga_logs share the session of the business rows).
OutboxMatchesOrder ==
  \A r \in Requests :
    IF saved[r].order = None
      THEN saved[r] = NoRows
      ELSE /\ saved[r].order.status = "CONFIRMED"
           /\ {saved[r].outbox[i] : i \in DOMAIN saved[r].outbox} =
                {"OrderCreated", "StockReserved", "PaymentProcessed",
                 "OrderConfirmed"}

\* A key that says "completed" while nobody works under it names a committed
\* order: a retry is answered with it (store_result, get_result).
CompletedKeyHasOrder ==
  \A k \in Keys :
    /\ key[k].status = "completed"
    /\ \A r \in Requests : KeyOf[r] = k => ~Active(r)
    => saved[key[k].order].order # None

\* A key that says "processing" has a request working under it: once that
\* one has failed, the client can retry (check_and_store, get_result).
ProcessingKeyHasOwner ==
  \A k \in Keys : key[k].status = "processing" =>
    \E r \in Requests : KeyOf[r] = k /\ Active(r)

\* The failure of a saga that was compensated is in the committed saga log
\* (log_step in the handler of execute).
FailedSagaIsAudited ==
  \A r \in Requests : reply[r] = "rejected" /\ steps[r] > 0 =>
    \E i \in DOMAIN saved[r].log : saved[r].log[i].state = "FAILED"

\* A committed stock row never changes without a new, higher version, on
\* which every concurrent optimistic check relies (update_with_version).
VersionBumps ==
  [][\A p \in Stocked :
       row'[p] # row[p] => row'[p].version > row[p].version]_vars

\* Every request that was received ends, which it does once, and no request is
\* under way for ever: none waits on and on for a row lock, a deadlock or a
\* duplicate of itself (the event loop, PostgreSQL's locks).
EveryRequestEnds == <>[](\A r \in Requests : ~Active(r))

\* At most so many awaited calls are left at `at' to a request with n lines, of
\* which its loop has `left' to go, and e events: four for every line still to be
\* reserved, one for every event to be published, two for every line to be
\* released, one or two for every other step.
StepsLeft(at, n, left, e) ==
  CASE at = "check" -> 6 * n + 13 + e
    [] at = "create" -> 6 * n + 12 + e
    [] at = "read" -> 2 * n + 11 + e + 4 * left
    [] at = "update" -> 2 * n + 10 + e + 4 * left
    [] at = "reread" -> 2 * n + 9 + e + 4 * left
    [] at = "reupdate" -> 2 * n + 8 + e + 4 * left
    [] at = "mark" -> 2 * n + 11 + e
    [] at = "pay" -> 2 * n + 9 + e
    [] at = "confirm" -> 2 * n + 7 + e
    [] at = "publish" -> 2 * n + 5 + e
    [] at = "store" -> 2 * n + 5
    [] at = "fail" -> 2 * n + 4
    [] at = "refund" -> 2 * n + 3
    [] at = "release" -> 2 + 2 * left
    [] at = "putback" -> 1 + 2 * left
    [] at = "get" -> 4
    [] at = "fetch" -> 3
    [] at = "cancel" -> 2
    [] at = "rollback" -> 1
    [] at = "commit" -> IF RespondFirst THEN 1 ELSE 2
    [] at = "respond" -> IF RespondFirst THEN 2 ELSE 1
    [] at = "done" -> 0

Remaining(r) == StepsLeft(pc[r], Len(Items[r]), Len(Items[r]) + 1 - idx[r],
                          Len(order[r].events))

\* Every step brings a request nearer to its end and none further from it,
\* unless the process dies or a key expires: no retry is repeated for ever, no
\* loop over the lines starts again, neither forwards nor in the compensation
\* (_reserve_stock's single retry, _compensate, _release_stock).
NoStepInVain ==
  [][/\ \A r \in Requests : Remaining(r)' <= Remaining(r)
     /\ \/ \E r \in Requests : Remaining(r)' < Remaining(r)
        \/ crashes' > crashes
        \/ \E k \in Keys : key[k].status # "absent" /\ key'[k].status = "absent"]_vars

\* A request waits for a row only while the request that holds it is under way,
\* and while any is, one of them can go on or is in a circle that PostgreSQL
\* breaks (update_with_version's row lock, the rollback of get_db_session).
SomeoneGoesOn ==
  /\ \A r, s \in Requests : WaitsFor(r, s) => Active(s)
  /\ (\E r \in Requests : Active(r)) =>
       \E r \in Requests :
         Active(r) /\ (InDeadlock(r) \/ \A s \in Requests : ~WaitsFor(r, s))

-----------------------------------------------------------------------------
\* The inductive strengthening of TypeOK, NoOversell and TxLedger.

\* A row nobody has locked is as last committed; a locked one is a newer
\* version written by an open transaction.
LockAt(p) ==
  /\ lock[p] = None => dirty[p] = row[p]
  /\ lock[p] # None => /\ dirty[p].version > row[p].version
                       /\ tx[lock[p]].order # None

\* The optimistic check is sound: while the version r read is still the
\* visible one, what r is about to write is that row with r's quantity added.
\* What it puts back is the row as it still is, the quantity taken off.
SnapshotAt(r) ==
  LET seen == Visible(r, Item(r).product)
  IN /\ pc[r] \in {"update", "reupdate"} =>
          /\ stock[r].reserved <= stock[r].available
          /\ stock[r].version <= seen.version
          /\ stock[r].version = seen.version => stock[r] = Reserve(seen, Item(r).qty)
     /\ pc[r] = "putback" =>
          /\ CanRelease(seen, Item(r).qty)
          /\ stock[r] = Release(seen, Item(r).qty)

\* Where the transaction, the saga's steps and the loop over order.items
\* stand at each point of the control flow.
ControlAt(r) ==
  /\ pc[r] \in {"check", "get", "fetch", "create", "done"} => tx[r].order = None
  /\ pc[r] = "respond" /\ ~RespondFirst => tx[r].order = None
  /\ pc[r] \notin {"check", "get", "fetch", "create", "commit", "respond",
                   "done"} => tx[r].order # None
  /\ pc[r] \in {"get", "fetch", "store"} => KeyOf[r] # None
  /\ idx[r] <= Len(Items[r]) + 1
  /\ pc[r] \in {"check", "create"} => idx[r] = 1
  /\ pc[r] \in {"read", "update", "reread", "reupdate"} =>
       idx[r] <= Len(Items[r]) /\ steps[r] = 1
  /\ pc[r] \in {"update", "reread", "reupdate", "release", "putback"} =>
       Item(r).product \in Stocked
  /\ pc[r] \in {"mark", "pay", "confirm", "publish", "store"} =>
       idx[r] = Len(Items[r]) + 1
  /\ pc[r] = "mark" => steps[r] = 1
  /\ pc[r] = "pay" => steps[r] = 2
  /\ pc[r] = "confirm" => steps[r] = 3
  /\ pc[r] = "publish" => order[r].events # <<>>
  /\ pc[r] = "fail" /\ steps[r] >= 2 => idx[r] = Len(Items[r]) + 1
  /\ pc[r] = "refund" => idx[r] = 1 /\ steps[r] >= 2
  /\ pc[r] \in {"release", "putback"} => idx[r] <= Len(Items[r]) /\ steps[r] >= 2

\* Every line the reservation loop has passed names a stocked product, whose
\* row r has locked since.
StockedAt(r) ==
  \A i \in DOMAIN Items[r] :
    \/ /\ pc[r] \in {"read", "update", "reread", "reupdate", "mark", "pay",
                     "confirm", "publish", "store"}
       /\ i < idx[r]
    \/ pc[r] \in {"refund", "release", "putback"}
    \/ pc[r] = "fail" /\ steps[r] >= 2
    => Items[r][i].product \in Stocked /\ lock[Items[r][i].product] = r

RequestInv == \A r \in Requests : SnapshotAt(r) /\ ControlAt(r) /\ StockedAt(r)

IndInv ==
  /\ TypeOK /\ NoOversell /\ TxLedger /\ RequestInv
  /\ \A p \in Stocked : LockAt(p)

-----------------------------------------------------------------------------
\* The inductive strengthening of the properties about outcomes.

Types(events) == {events[i] : i \in DOMAIN events}

AllEvents == {"OrderCreated", "StockReserved", "PaymentProcessed", "OrderConfirmed"}

\* r's own rows and its aggregate are at the same status, and the outbox holds
\* these events.
Written(r, status, events) ==
  /\ order[r].status = status /\ tx[r].order.status = status
  /\ Types(tx[r].outbox) = events

\* What a saga has written at each point of the control flow.
HistoryAt(r) ==
  /\ pc[r] \in {"check", "get", "fetch", "create"} =>
       tx[r] = NoRows /\ order[r] = NewOrder
  /\ pc[r] \in {"read", "update", "reread", "reupdate", "mark"} =>
       Written(r, "PENDING", {"OrderCreated"})
  /\ pc[r] = "pay" =>
       Written(r, "STOCK_RESERVED", {"OrderCreated", "StockReserved"})
  /\ pc[r] = "confirm" =>
       Written(r, "PAYMENT_PROCESSED",
               {"OrderCreated", "StockReserved", "PaymentProcessed"})
  /\ pc[r] \in {"publish", "store"} => Written(r, "CONFIRMED", AllEvents)
  /\ pc[r] \in {"read", "update", "reread", "reupdate", "mark", "pay", "confirm",
                "publish"} => Types(order[r].events) \subseteq Types(tx[r].outbox)

\* The session of r is about to be committed.
Ending(r) == pc[r] = "commit" \/ (pc[r] = "respond" /\ RespondFirst)

\* The transaction of r is that of a whole saga.
Whole(r) ==
  /\ tx[r].order # None /\ tx[r].order.status = "CONFIRMED"
  /\ Types(tx[r].outbox) = AllEvents
  /\ idx[r] = Len(Items[r]) + 1
  /\ \A i \in DOMAIN Items[r] : Items[r][i].product \in Stocked

\* r is committed only as a whole, and not before its session ends; a refusal
\* is the end.
SavedAt(r) ==
  /\ Ending(r) => tx[r] = NoRows \/ Whole(r)
  /\ pc[r] \notin {"respond", "done"} \/ Ending(r) => saved[r] = NoRows
  /\ \/ saved[r] = NoRows
     \/ /\ saved[r].order # None /\ saved[r].order.status = "CONFIRMED"
        /\ Types(saved[r].outbox) = AllEvents
  /\ reply[r] \in {"rejected", "critical"} => pc[r] = "done" /\ saved[r] = NoRows

\* The client of r can be told of a committed order under its key.
Tellable(r) ==
  /\ result[r] \in Requests /\ KeyOf[result[r]] = KeyOf[r]
  /\ saved[result[r]].order # None

\* What r's client is told is committed, or will be by r's session.
ToldAt(r) ==
  /\ pc[r] = "fetch" => result[r] \in Requests /\ KeyOf[result[r]] = KeyOf[r]
  /\ Ending(r) => (tx[r].order # None /\ result[r] = r) \/ Tellable(r)
  /\ ~RespondFirst /\ pc[r] = "respond" => Tellable(r)
  /\ ~RespondFirst /\ reply[r] = "accepted" => pc[r] = "done" /\ Tellable(r)

\* Of the requests that do not outlive it, a key has one owner, before anything
\* of theirs is placed under it.
OwnerAt(k) ==
  /\ \A r, s \in Requests \ overdue :
       KeyOf[r] = k /\ KeyOf[s] = k /\ Owns(r) /\ Owns(s) => r = s
  /\ \A r \in Requests \ overdue :
       KeyOf[r] = k /\ Owns(r) => placed[k] \subseteq overdue
  /\ key[k].status = "absent" =>
       /\ placed[k] \subseteq overdue
       /\ \A r \in Requests \ overdue : KeyOf[r] = k => ~Owns(r)
  /\ \A r, s \in placed[k] \ overdue : r = s
  /\ key[k].status = "completed" =>
       key[k].order \in Requests /\ KeyOf[key[k].order] = k

\* Sagas reserve units, they do not change how many there are.
AvailableAt(p) ==
  /\ row[p].available = InitialStock[p].available
  /\ dirty[p].available = InitialStock[p].available

OutcomeInv ==
  /\ \A r \in Requests : HistoryAt(r) /\ SavedAt(r) /\ ToldAt(r)
  /\ \A k \in Keys : OwnerAt(k)
  /\ \A p \in Stocked : AvailableAt(p)
=============================================================================
