------------------------------ MODULE MemorySaga ------------------------------
(***************************************************************************)
(* OrderSagaOrchestrator.execute over the in-memory stores, as create_app  *)
(* and the tests wire it.  Nothing in these stores suspends, so a call     *)
(* runs to its end before another one starts and is one action.  There is  *)
(* no transaction: what a failing call has written stays, unless the       *)
(* compensation undoes it.                                                 *)
(*                                                                         *)
(* get_by_product and get_by_id hand out the stored objects.  reserve thus *)
(* changes the stock in place, and the version compared is always that of  *)
(* the very object: the check cannot fail and the retry is not reachable.  *)
(* Once its stock is reserved a call cannot fail any more, so release,     *)
(* refund and the dead letter queue are not reachable either.              *)
(***************************************************************************)
EXTENDS Aggregates, FiniteSetsExt

CONSTANTS
  Orders,        \* Order objects, each with an id of its own
  Keys,          \* idempotency keys, the order id's text among them
  Stocked,       \* products that are seeded
  Products,      \* products an order can name
  InitialStock,  \* InitialStock[p]: the seeded StockItem
  Items,         \* Items[o]: the order's lines, perhaps none
  Wanted,        \* Wanted[o][i][p]: quantity of p in the first i lines of o
  MaxCalls,      \* bound: calls of execute
  None           \* no key, no order

OrderItem == [product : Products, qty : Nat \ {0}]
ASSUME OrdersAssumption == Items \in [Orders -> Seq(OrderItem)] /\ None \notin Orders \cup Keys
ASSUME SeedAssumption ==
  /\ Stocked \subseteq Products
  /\ InitialStock \in [Stocked -> StockItem]
  /\ \A p \in Stocked : InitialStock[p].reserved <= InitialStock[p].available
ASSUME PrefixAssumption ==
  \A o \in Orders :
    /\ Wanted[o] \in [0 .. Len(Items[o]) -> [Stocked -> Nat]]
    /\ \A p \in Stocked : Wanted[o][0][p] = 0
    /\ \A i \in 1 .. Len(Items[o]), p \in Stocked :
         Wanted[o][i][p] = Wanted[o][i - 1][p]
             + (IF Items[o][i].product = p THEN Items[o][i].qty ELSE 0)
ASSUME CallsAssumption == MaxCalls \in Nat

VARIABLES
  order,     \* the Order objects
  stored,    \* orders in InMemoryOrderRepository
  stock,     \* InMemoryStockRepository
  key,       \* InMemoryIdempotency
  outbox,    \* outbox[o]: types of o's events, in order
  log,       \* log[o]: o's entries in InMemorySagaLog
  answered,  \* history: answered[k], orders returned for key k
  calls

vars == <<order, stored, stock, key, outbox, log, answered, calls>>

Entry(name, state) == [step |-> name, state |-> state]
Started(names) == [i \in DOMAIN names |-> Entry(names[i], "STARTED")]
LogEntry == [step : {"start", "create_order", "reserve_stock",
                     "process_payment", "confirm_order"},
             state : {"STARTED", "FAILED"}]

KeyStatus == {"absent", "processing", "completed"}
KeyValue == [status : KeyStatus, order : Orders \cup {None}]
Absent == [status |-> "absent", order |-> None]
Processing == [status |-> "processing", order |-> None]
Completed(o) == [status |-> "completed", order |-> o]

TypeOK ==
  /\ order \in [Orders -> Order]
  /\ stored \subseteq Orders
  /\ stock \in [Stocked -> StockItem]
  /\ key \in [Keys -> KeyValue]
  /\ outbox \in [Orders -> Seq(EventType)]
  /\ log \in [Orders -> Seq(LogEntry)]
  /\ answered \in [Keys -> SUBSET Orders]
  /\ calls \in 0 .. MaxCalls

Init ==
  /\ order = [o \in Orders |-> NewOrder]
  /\ stored = {}
  /\ stock = InitialStock
  /\ key = [k \in Keys |-> Absent]
  /\ outbox = [o \in Orders |-> <<>>]
  /\ log = [o \in Orders |-> <<>>]
  /\ answered = [k \in Keys |-> {}]
  /\ calls = 0

-----------------------------------------------------------------------------
\* The idempotency check.

\* Mutant: only a call that is under way keeps others out.
FreshUnlessProcessing(k) == k \in Keys => key[k].status # "processing"

Fresh(k) == k \in Keys => key[k].status = "absent"

StoreKey(k, value) ==
  key' = [j \in Keys |-> IF j = k THEN value ELSE key[j]]

\* execute returns o to a caller who sent k.
Answer(k, o) ==
  answered' = [j \in Keys |-> IF j = k THEN answered[j] \cup {o} ELSE answered[j]]

\* InMemoryOrderRepository.save, by reference.
Save(o) == stored' = stored \cup {o}

Extend(f, o, s) == [f EXCEPT ![o] = @ \o s]

-----------------------------------------------------------------------------
\* _reserve_stock over the live objects.

Repeats(o, i, p) == Cardinality({j \in 1 .. i : Items[o][j].product = p})

\* The stock once the first i lines of o are reserved.
StockAfter(o, i) ==
  [p \in Stocked |-> [available |-> stock[p].available,
                      reserved |-> stock[p].reserved + Wanted[o][i][p],
                      version |-> stock[p].version + Repeats(o, i, p)]]

Passes(o, i) ==
  LET line == Items[o][i]
  IN /\ line.product \in Stocked
     /\ CanReserve(StockAfter(o, i - 1)[line.product], line.qty)

FailsAt(o, i) == ~Passes(o, i) /\ \A j \in 1 .. i - 1 : Passes(o, j)

-----------------------------------------------------------------------------
\* The outcomes of execute(o, k).

\* The key is taken: by a call that completed, whose order is returned (None if
\* it is not there), or by one that failed, after which all are refused.
ReturnCached(o, k) ==
  /\ ~Fresh(k) /\ key[k].status = "completed"
  /\ IF key[k].order \in stored THEN Answer(k, key[k].order) ELSE UNCHANGED answered
  /\ UNCHANGED <<order, stored, stock, key, outbox, log>>

RefuseKey(o, k) ==
  /\ ~Fresh(k) /\ key[k].status = "processing"
  /\ UNCHANGED <<order, stored, stock, key, outbox, log, answered>>

\* Mutant: the statements of the try block in another order, so that the event
\* is appended before cancel refuses.
CancelLast(o) ==
  /\ order' = [order EXCEPT ![o] = IF CanCancel(@) THEN Cancel(@) ELSE @]
  /\ outbox' = Extend(outbox, o, <<"StockReleased">>)

\* The end of _compensate; no completed step has had a compensation.
CancelStored(o) ==
  IF CanCancel(order[o])
    THEN /\ order' = [order EXCEPT ![o] = Cancel(@)]
         /\ outbox' = Extend(outbox, o, <<"StockReleased">>)
    ELSE UNCHANGED <<order, outbox>>

\* Mutant: the branch is taken for a failure of the order stored before, whose
\* stock is given back.
RefuseDuplicateAndRelease(o, k) ==
  /\ Fresh(k) /\ o \in stored
  /\ StoreKey(k, Processing)
  /\ log' = Extend(log, o, Started(<<"create_order">>) \o <<Entry("start", "FAILED")>>)
  /\ CancelStored(o)
  /\ stock' = [p \in Stocked |->
                 IF stock[p].reserved >= Wanted[o][Len(Items[o])][p]
                   THEN [stock[p] EXCEPT !.reserved = @ - Wanted[o][Len(Items[o])][p]]
                   ELSE stock[p]]
  /\ UNCHANGED <<stored, answered>>

\* DuplicateOrderError: the order is there already.  The handler means the
\* failed call but cancels the object both calls share.
RefuseDuplicate(o, k) ==
  /\ Fresh(k) /\ o \in stored
  /\ StoreKey(k, Processing)
  /\ log' = Extend(log, o, Started(<<"create_order">>) \o <<Entry("start", "FAILED")>>)
  /\ CancelStored(o)
  /\ UNCHANGED <<stored, stock, answered>>

Confirmed(o) == Confirm(ProcessPayment(ReserveStock(order[o])))

\* Every line is reserved, and the remaining steps run through: nobody else
\* holds the object, which is as it was made.
Place(o, k) ==
  /\ Fresh(k) /\ o \notin stored
  /\ \A i \in DOMAIN Items[o] : Passes(o, i)
  /\ Save(o)
  /\ stock' = StockAfter(o, Len(Items[o]))
  /\ order' = [order EXCEPT ![o] = ClearEvents(Confirmed(o))]
  /\ outbox' = Extend(outbox, o, <<"OrderCreated">> \o Confirmed(o).events
                                    \o Confirmed(o).events)
  /\ log' = Extend(log, o, Started(<<"create_order", "reserve_stock",
                                      "process_payment", "confirm_order">>))
  /\ StoreKey(k, Completed(o))
  /\ Answer(k, o)

\* Line i cannot be reserved.  reserve_stock is not among the completed steps
\* then, so the lines before i stay reserved.
FailToReserve(o, k) ==
  /\ Fresh(k) /\ o \notin stored
  /\ \E i \in DOMAIN Items[o] : FailsAt(o, i) /\ stock' = StockAfter(o, i - 1)
  /\ Save(o)
  /\ order' = [order EXCEPT ![o] = Cancel(@)]
  /\ outbox' = Extend(outbox, o, <<"OrderCreated", "StockReleased">>)
  /\ log' = Extend(log, o, Started(<<"create_order", "reserve_stock">>)
                              \o <<Entry("create_order", "FAILED")>>)
  /\ StoreKey(k, Processing)
  /\ UNCHANGED answered

Execute(o, k) ==
  /\ calls < MaxCalls
  /\ calls' = calls + 1
  /\ \/ ReturnCached(o, k) \/ RefuseKey(o, k) \/ RefuseDuplicate(o, k)
     \/ Place(o, k) \/ FailToReserve(o, k)

Next == \E o \in Orders, k \in Keys \cup {None} : Execute(o, k)

Spec == Init /\ [][Next]_vars

-----------------------------------------------------------------------------
\* Properties.

Fulfilled == {o \in stored : order[o].status = "CONFIRMED"}

Demand(S, p) == SumFunctionOnSet([o \in Orders |-> Wanted[o][Len(Items[o])][p]], S)

\* No seeded product is reserved beyond what there is, whatever calls fail in
\* the middle of their lines (reserve on the live object).
NoOversell == \A p \in Stocked : stock[p].reserved <= stock[p].available

\* Every confirmed order still has its units, whatever calls failed, were
\* repeated or were compensated since (_reserve_stock, _compensate).
ConfirmedHaveStock ==
  \A p \in Stocked :
    stock[p].reserved >= InitialStock[p].reserved + Demand(Fulfilled, p)

\* A confirmed order is final: the compensation of a repeated call, which acts
\* on the same object, does not touch it (Order.cancel's guard, _compensate).
ConfirmedStays ==
  [][\A o \in Fulfilled : o \in stored' /\ order'[o] = order[o]]_vars

Elements(list) == {list[i] : i \in DOMAIN list}

\* How an order ended can be told from its events and from its log, whatever
\* calls were repeated.  The log tells it by whether confirm_order was started,
\* not by its last entry: a refused duplicate leaves FAILED behind a confirmed
\* order too (_compensate, log_step).
EventsTellOutcome ==
  \A o \in stored :
    /\ Entry("confirm_order", "STARTED") \in Elements(log[o]) <=> o \in Fulfilled
    /\ IF o \in Fulfilled
         THEN Elements(outbox[o]) = {"OrderCreated", "StockReserved",
                                     "PaymentProcessed", "OrderConfirmed"}
         ELSE /\ order[o].status = "CANCELLED"
              /\ Elements(outbox[o]) = {"OrderCreated", "StockReleased"}
              /\ log[o][Len(log[o])].state = "FAILED"

\* Whoever sends a key is answered with the same confirmed order for ever, or
\* never with any ("a second call returns the cached completed result").
OneAnswerPerKey ==
  \A k \in Keys :
    /\ answered[k] \subseteq Fulfilled
    /\ \A a, b \in answered[k] : a = b

\* A saga that failed has given its reservations back: what is reserved is
\* what the confirmed orders asked for ("If any step fails, compensating
\* transactions run in reverse").
FailedHoldNothing ==
  \A p \in Stocked :
    stock[p].reserved = InitialStock[p].reserved + Demand(Fulfilled, p)

-----------------------------------------------------------------------------
\* The inductive invariant that the proofs use.

\* An order nobody has stored is as it was made.
UnsavedAt(o) ==
  o \notin stored => order[o] = NewOrder /\ outbox[o] = <<>> /\ log[o] = <<>>

\* A key that answers names the one confirmed order it answers with.
KeyAt(k) ==
  /\ key[k].status = "completed" => key[k].order \in Fulfilled
  /\ \A o \in answered[k] : key[k] = Completed(o)

MemoryInv ==
  /\ TypeOK
  /\ NoOversell
  /\ EventsTellOutcome
  /\ \A o \in Orders : UnsavedAt(o)
  /\ \A k \in Keys : KeyAt(k)
=============================================================================
