--------------------------- MODULE OrderSaga_proofs ---------------------------
EXTENDS OrderSaga, TLAPS

\* Every variable has its type at the start.
LEMMA InitTypeOK == Init => TypeOK
  <1> SUFFICES ASSUME Init PROVE TypeOK
    OBVIOUS
  <1>1. NewOrder \in Order /\ NoRows \in OwnRows /\ Absent \in KeyValue
    BY DEF NewOrder, Order, OrderStatus, NoRows, OwnRows, Absent, KeyValue
  <1> QED
    BY <1>1, StockAssumption, SwitchAssumption DEF Init, TypeOK, PC, StockItem,
       Reply

\* While the loop over order.items is inside it, the current line is an
\* order line with a positive quantity (schemas.py).
LEMMA ItemType ==
  ASSUME NEW r \in Requests, NEW i \in Nat \ {0}, i <= Len(Items[r])
  PROVE  /\ Items[r][i].product \in Products
         /\ Items[r][i].qty \in Nat \ {0}
         /\ Len(Items[r]) \in Nat
  <1>1. Items[r] \in Seq(OrderItem)
    BY ItemsAssumption
  <1>2. Len(Items[r]) \in Nat /\ i \in 1 .. Len(Items[r])
    BY <1>1
  <1>3. Items[r][i] \in OrderItem
    BY <1>1, <1>2
  <1> QED
    BY <1>2, <1>3 DEF OrderItem

\* A flush of well-typed rows keeps the type of the own rows.
LEMMA WriteType ==
  ASSUME TypeOK, NEW r \in Requests, NEW o \in SavedOrder \cup {None},
         NEW events \in Seq(EventType), NEW entries \in Seq(LogEntry),
         Write(r, o, events, entries)
  PROVE  tx' \in [Requests -> OwnRows]
  BY DEF TypeOK, Write, OwnRows

\* Rolling back keeps the types of the database.
LEMMA AbortType ==
  ASSUME TypeOK, NEW r \in Requests, Abort(r)
  PROVE  /\ tx' \in [Requests -> OwnRows]
         /\ row' \in [Stocked -> StockItem]
         /\ dirty' \in [Stocked -> StockItem]
         /\ lock' \in [Stocked -> Requests \cup {None}]
         /\ saved' \in [Requests -> OwnRows]
  <1>1. NoRows \in OwnRows
    BY DEF NoRows, OwnRows
  <1> QED
    BY <1>1 DEF TypeOK, Abort

\* Committing keeps the types of the database.
LEMMA CommitType ==
  ASSUME TypeOK, NEW r \in Requests, CommitRows(r)
  PROVE  /\ tx' \in [Requests -> OwnRows]
         /\ row' \in [Stocked -> StockItem]
         /\ dirty' \in [Stocked -> StockItem]
         /\ lock' \in [Stocked -> Requests \cup {None}]
         /\ saved' \in [Requests -> OwnRows]
         /\ placed' \in [Keys -> SUBSET Requests] /\ overdue' \subseteq Requests
  <1>1. NoRows \in OwnRows
    BY DEF NoRows, OwnRows
  <1> QED
    BY <1>1, KeyAssumption DEF TypeOK, CommitRows

\* Answering the client keeps the type of the replies.
LEMMA AnswerType ==
  ASSUME TypeOK, NEW r \in Requests, NEW a \in Reply, Answer(r, a)
  PROVE  reply' \in [Requests -> Reply]
  BY DEF TypeOK, Answer

\* Writing a well-typed stock item keeps the types of rows and locks.
LEMMA WriteStockType ==
  ASSUME TypeOK, NEW r \in Requests, NEW p, NEW item \in StockItem,
         WriteStock(r, p, item)
  PROVE  /\ lock' \in [Stocked -> Requests \cup {None}]
         /\ dirty' \in [Stocked -> StockItem]
  <1>1. [item EXCEPT !.version = @ + 1] \in StockItem
    BY DEF StockItem
  <1> QED
    BY <1>1 DEF TypeOK, WriteStock

\* What a transaction sees of a row is a stock item.
LEMMA VisibleType ==
  ASSUME TypeOK, NEW r \in Requests, NEW p \in Stocked
  PROVE  Visible(r, p) \in StockItem
  BY DEF TypeOK, Visible

\* Every transition method of Order yields an Order.
LEMMA TransitionType ==
  ASSUME NEW o \in Order, NEW s \in OrderStatus, NEW e \in EventType
  PROVE  LET next == Transition(o, s, e)
         IN /\ next \in Order
            /\ Row(next) \in SavedOrder
            /\ next.events[Len(next.events)] = e
  <1> DEFINE es == Append(o.events, e)
  <1>1. o.events \in Seq(EventType) /\ o.version \in Nat
    BY DEF Order
  <1>2. es \in Seq(EventType) /\ es[Len(es)] = e
    BY <1>1
  <1>3. Transition(o, s, e) = [status |-> s, version |-> o.version + 1, events |-> es]
    BY DEF Transition
  <1> HIDE DEF es
  <1> QED
    BY <1>1, <1>2, <1>3 DEF Order, Row, SavedOrder

-----------------------------------------------------------------------------
\* Typing is preserved by every action.

\* The idempotency check and the fetch of a cached order keep the types.
LEMMA CheckType ==
  ASSUME TypeOK, NEW r \in Requests, pc[r] = "get" => KeyOf[r] # None,
         \/ Arrive(r) \/ CheckError(r) \/ GetCompleted(r)
         \/ GetInProgress(r) \/ GetError(r) \/ FetchCached(r)
  PROVE  TypeOK'
  <1>1. Processing \in KeyValue /\ "error" \in Reply /\ "rejected" \in Reply
    BY DEF Processing, KeyValue, Reply
  <1>2. CASE Arrive(r)
    BY <1>1, <1>2 DEF TypeOK, Arrive, CheckAndStore, StartUnkeyed, Goto, PC,
       locals, database, client, history
  <1>3. CASE CheckError(r)
    BY <1>1, <1>3, AbortType, AnswerType, KeyAssumption
       DEF TypeOK, CheckError, RaiseOut, Goto, PC, locals, history
  <1>4. CASE GetCompleted(r)
    <2>1. key[KeyOf[r]].order \in Requests \cup {None}
      BY <1>4, KeyAssumption DEF TypeOK, KeyValue, GetCompleted
    <2> QED
      BY <1>4, <2>1 DEF TypeOK, GetCompleted, Goto, PC, locals, database, history
  <1>5. CASE GetInProgress(r)
    BY <1>1, <1>5, AbortType, AnswerType
       DEF TypeOK, GetInProgress, RaiseOut, Goto, PC, locals, history
  <1>6. CASE GetError(r)
    BY <1>1, <1>6, AbortType, AnswerType
       DEF TypeOK, GetError, RaiseOut, Goto, PC, locals, history
  <1>7. CASE FetchCached(r)
    BY <1>1, <1>7, AbortType, AnswerType
       DEF TypeOK, FetchCached, RaiseOut, Return, Goto, PC, locals, database, history
  <1> QED
    BY <1>2, <1>3, <1>4, <1>5, <1>6, <1>7

\* Reserving and releasing within their guards yield stock items: no
\* quantity becomes negative (StockItem.reserve, StockItem.release).
LEMMA ReserveType ==
  ASSUME NEW s \in StockItem, NEW q \in Nat
  PROVE  /\ Reserve(s, q) \in StockItem
         /\ EffectiveStock(s) >= q => Reserve(s, q).reserved <= Reserve(s, q).available
         /\ CanRelease(s, q) => Release(s, q) \in StockItem
         /\ s.reserved <= s.available /\ CanRelease(s, q) =>
              Release(s, q).reserved <= Release(s, q).available
  <1>1. /\ s.available \in Nat /\ s.reserved \in Nat /\ s.version \in Nat
        /\ s = [available |-> s.available, reserved |-> s.reserved, version |-> s.version]
    BY DEF StockItem
  <1>2. Reserve(s, q) = [available |-> s.available, reserved |-> s.reserved + q,
                         version |-> s.version]
    BY <1>1 DEF Reserve
  <1>3. Release(s, q) = [available |-> s.available, reserved |-> s.reserved - q,
                         version |-> s.version]
    BY <1>1 DEF Release
  <1> QED
    BY <1>1, <1>2, <1>3 DEF EffectiveStock, CanRelease, StockItem

\* The row of an order has the type of a saved order, and an order one of whose
\* events has been published is an order.
LEMMA OrderRowType ==
  ASSUME NEW o \in Order
  PROVE  /\ Row(o) \in SavedOrder /\ o.events \in Seq(EventType)
         /\ o.events # <<>> => /\ Head(o.events) \in EventType
                              /\ [o EXCEPT !.events = Tail(@)] \in Order
  <1>1. /\ o.status \in OrderStatus /\ o.version \in Nat /\ o.events \in Seq(EventType)
        /\ o = [status |-> o.status, version |-> o.version, events |-> o.events]
    BY DEF Order
  <1>2. ASSUME o.events # <<>>
        PROVE  /\ Head(o.events) \in EventType
               /\ [o EXCEPT !.events = Tail(@)] \in Order
    <2>1. Head(o.events) \in EventType /\ Tail(o.events) \in Seq(EventType)
      BY <1>1, <1>2
    <2> QED
      BY <1>1, <2>1 DEF Order
  <1> QED
    BY <1>1, <1>2 DEF Row, SavedOrder

\* A STARTED entry of each step is a sequence of log entries.
LEMMA LogType ==
  /\ \A n \in 0 .. 4 : /\ StepName(n) \in Steps
                       /\ LogStart(n) \in Seq(LogEntry)
                       /\ <<[step |-> StepName(n), state |-> "FAILED"]>> \in Seq(LogEntry)
  /\ <<>> \in Seq(LogEntry)
  <1>1. \A n \in 0 .. 4 : StepName(n) \in Steps
    BY DEF StepName, Steps
  <1> QED
    BY <1>1 DEF LogStart, LogEntry

\* The same for the four steps the saga names.
LEMMA LogStartType ==
  /\ LogStart(1) \in Seq(LogEntry) /\ LogStart(2) \in Seq(LogEntry)
  /\ LogStart(3) \in Seq(LogEntry) /\ LogStart(4) \in Seq(LogEntry)
  BY LogType

\* A jump to a known label keeps the type of pc.
LEMMA GotoType ==
  ASSUME TypeOK, NEW r \in Requests, NEW label \in PC, Goto(r, label)
  PROVE  pc' \in [Requests -> PC]
  BY DEF TypeOK, Goto

\* No event, or one event, is a sequence of events.
LEMMA EventLists ==
  /\ <<>> \in Seq(EventType)
  /\ \A e \in EventType : <<e>> \in Seq(EventType)
  OBVIOUS

\* An optimistic update, successful or not, keeps the types.
LEMMA TryUpdateType ==
  ASSUME TypeOK, NEW r \in Requests, NEW label \in PC, TryUpdate(r, label)
  PROVE  TypeOK'
  <1>1. CASE VersionMatches(r)
    <2>1. WriteStock(r, Item(r).product, stock[r]) /\ stock[r] \in StockItem
      BY <1>1 DEF TryUpdate, TypeOK
    <2>2. /\ lock' \in [Stocked -> Requests \cup {None}]
          /\ dirty' \in [Stocked -> StockItem]
      BY <2>1, WriteStockType
    <2>3. pc' \in [Requests -> PC]
      BY <1>1, GotoType DEF TryUpdate, NextItem, PC
    <2>4. idx' \in [Requests -> Nat \ {0}]
      BY <1>1 DEF TypeOK, TryUpdate
    <2> QED
      BY <1>1, <2>2, <2>3, <2>4 DEF TypeOK, TryUpdate, client, history
  <1>2. CASE ~VersionMatches(r)
    BY <1>2 DEF TypeOK, TryUpdate, Goto, client, history
  <1> QED
    BY <1>1, <1>2

\* The end of a saga step keeps the types, whether the transition method
\* of Order accepts or raises.
LEMMA CompleteStepType ==
  ASSUME TypeOK, NEW r \in Requests, NEW allowed \in BOOLEAN, NEW next \in Order,
         next.events[Len(next.events)] \in EventType, Row(next) \in SavedOrder,
         NEW entries \in Seq(LogEntry), NEW label \in PC, steps[r] < 4,
         CompleteStep(r, allowed, next, entries, label)
  PROVE  TypeOK'
  <1>1. tx[r].order \in SavedOrder \cup {None}
    BY DEF TypeOK, OwnRows
  <1>2. tx' \in [Requests -> OwnRows]
    <2>1. CASE allowed
      BY <2>1, WriteType, EventLists DEF CompleteStep
    <2>2. CASE ~allowed
      BY <2>2, <1>1, WriteType, EventLists DEF CompleteStep
    <2> QED
      BY <2>1, <2>2
  <1>3. pc' \in [Requests -> PC]
    <2>1. "fail" \in PC
      BY DEF PC
    <2> QED
      BY <2>1, GotoType DEF CompleteStep
  <1>4. steps' \in [Requests -> 0 .. 4]
    <2>0. steps \in [Requests -> 0 .. 4] /\ steps[r] \in 0 .. 4
      BY DEF TypeOK
    <2>1. steps \in [Requests -> 0 .. 4] /\ steps[r] + 1 \in 0 .. 4
      BY <2>0
    <2>2. CASE allowed
      <3>1. steps' = [steps EXCEPT ![r] = steps[r] + 1]
        BY <2>2 DEF CompleteStep
      <3> QED
        BY <2>1, <3>1
    <2>3. CASE ~allowed
      BY <2>1, <2>3 DEF CompleteStep
    <2> QED
      BY <2>2, <2>3
  <1>5. order' \in [Requests -> Order]
    BY DEF TypeOK, CompleteStep
  <1> QED
    BY <1>2, <1>3, <1>4, <1>5 DEF TypeOK, CompleteStep, database, client, history

\* The saga's forward steps keep the types.
LEMMA SagaType ==
  ASSUME TypeOK, RequestInv, NEW r \in Requests,
         \/ CreateOrder(r) \/ ReadStock(r) \/ UpdateStock(r) \/ RereadStock(r)
         \/ ReupdateStock(r) \/ MarkStockReserved(r) \/ PayOrder(r)
         \/ ConfirmOrder(r) \/ PublishEvents(r) \/ StoreResult(r) \/ StoreError(r)
  PROVE  TypeOK'
  <1>1. /\ tx[r].order \in SavedOrder \cup {None} /\ order[r] \in Order
        /\ Row(order[r]) \in SavedOrder /\ order[r].events \in Seq(EventType)
    BY OrderRowType DEF TypeOK, OwnRows
  <1>2. {"OrderCreated", "StockReserved", "PaymentProcessed", "OrderConfirmed"}
          \subseteq EventType
    BY DEF EventType
  <1>3. \A st \in OrderStatus, e \in EventType :
          /\ Transition(order[r], st, e) \in Order
          /\ Row(Transition(order[r], st, e)) \in SavedOrder
          /\ Transition(order[r], st, e).events[Len(Transition(order[r], st, e).events)]
               \in EventType
    BY <1>1, TransitionType
  <1>4. CASE CreateOrder(r)
    <2>1. tx' \in [Requests -> OwnRows]
      <3>1. <<"OrderCreated">> \in Seq(EventType)
        BY <1>2
      <3> QED
        BY <1>1, <1>4, <3>1, WriteType, LogStartType DEF CreateOrder
    <2>2. pc' \in [Requests -> PC]
      BY <1>4, GotoType DEF CreateOrder, PC
    <2>3. steps' \in [Requests -> 0 .. 4]
      BY <1>4 DEF TypeOK, CreateOrder
    <2> QED
      BY <1>4, <2>1, <2>2, <2>3 DEF TypeOK, CreateOrder, database, client, history
  <1>5. CASE ReadStock(r)
    <2>1. tx' \in [Requests -> OwnRows]
      <3> DEFINE entries == IF idx[r] = 1 THEN LogStart(2) ELSE <<>>
      <3>1. entries \in Seq(LogEntry)
        BY LogType, LogStartType
      <3>2. Write(r, tx[r].order, <<>>, entries)
        BY <1>5 DEF ReadStock
      <3> HIDE DEF entries
      <3> QED
        BY <1>1, <3>1, <3>2, WriteType, EventLists
    <2>2. idx[r] <= Len(Items[r]) /\ idx[r] \in Nat \ {0}
      BY <1>5 DEF ReadStock, RequestInv, ControlAt, TypeOK
    <2>3. Item(r).qty \in Nat
      BY <2>2, ItemType DEF Item
    <2>4. Item(r).product \in Stocked =>
             Reserve(Visible(r, Item(r).product), Item(r).qty) \in StockItem
      BY <2>3, VisibleType, ReserveType
    <2>5. pc' \in [Requests -> PC]
      BY <1>5, GotoType DEF ReadStock, PC
    <2>6. stock' \in [Requests -> StockItem]
      BY <1>5, <2>4 DEF TypeOK, ReadStock
    <2> QED
      BY <1>5, <2>1, <2>5, <2>6 DEF TypeOK, ReadStock, database, client, history
  <1>6. CASE UpdateStock(r)
    BY <1>6, TryUpdateType DEF UpdateStock, PC
  <1>7. CASE RereadStock(r)
    <2>1. idx[r] <= Len(Items[r]) /\ idx[r] \in Nat \ {0} /\ Item(r).product \in Stocked
      BY <1>7 DEF RereadStock, RequestInv, ControlAt, TypeOK
    <2>2. Item(r).qty \in Nat
      BY <2>1, ItemType DEF Item
    <2>3. Reserve(Visible(r, Item(r).product), Item(r).qty) \in StockItem
      BY <2>1, <2>2, VisibleType, ReserveType
    <2> QED
      BY <1>7, <2>3 DEF TypeOK, RereadStock, Goto, PC, database, client, history
  <1>8. CASE ReupdateStock(r)
    BY <1>8, TryUpdateType DEF ReupdateStock, PC
  <1>9. CASE MarkStockReserved(r)
    <2>1. steps[r] < 4
      BY <1>9 DEF MarkStockReserved, RequestInv, ControlAt
    <2> QED
      BY <1>2, <1>3, <1>9, <2>1, LogType, CompleteStepType
         DEF MarkStockReserved, ReserveStock, CanReserveStock, OrderStatus, PC
  <1>10. CASE PayOrder(r)
    <2>1. steps[r] < 4
      BY <1>10 DEF PayOrder, RequestInv, ControlAt
    <2> QED
      BY <1>2, <1>3, <1>10, <2>1, LogStartType, CompleteStepType
         DEF PayOrder, ProcessPayment, CanProcessPayment, OrderStatus, PC
  <1>11. CASE ConfirmOrder(r)
    <2>1. steps[r] < 4
      BY <1>11 DEF ConfirmOrder, RequestInv, ControlAt
    <2> QED
      BY <1>2, <1>3, <1>11, <2>1, LogStartType, CompleteStepType
         DEF ConfirmOrder, Confirm, CanConfirm, OrderStatus, PC
  <1>12. CASE PublishEvents(r)
    <2>1. order[r].events # <<>>
      BY <1>12 DEF PublishEvents, RequestInv, ControlAt
    <2>2. /\ <<Head(order[r].events)>> \in Seq(EventType)
          /\ [order[r] EXCEPT !.events = Tail(@)] \in Order
      BY <1>1, <2>1, OrderRowType
    <2>3. tx' \in [Requests -> OwnRows]
      BY <1>1, <1>12, <2>2, WriteType, LogType DEF PublishEvents
    <2>4. order' \in [Requests -> Order]
      BY <1>12, <2>2 DEF TypeOK, PublishEvents
    <2>5. pc' \in [Requests -> PC] /\ result' \in [Requests -> Requests \cup {None}]
      BY <1>12 DEF TypeOK, PublishEvents, Published, Return, Goto, PC
    <2> QED
      BY <1>12, <2>3, <2>4, <2>5 DEF TypeOK, PublishEvents, database, history
  <1>13. Completed(r) \in KeyValue
    BY DEF Completed, KeyValue
  <1>14. CASE StoreResult(r)
    BY <1>13, <1>14, KeyAssumption
       DEF TypeOK, StoreResult, Return, Goto, PC, locals, database, history
  <1>15. CASE StoreError(r)
    BY <1>13, <1>15, KeyAssumption
       DEF TypeOK, StoreError, Goto, PC, locals, database, client, history
  <1> QED
    BY <1>4, <1>5, <1>6, <1>7, <1>8, <1>9, <1>10, <1>11, <1>12, <1>14, <1>15

\* The exception handler and the compensations keep the types.
LEMMA HandlerType ==
  ASSUME TypeOK, RequestInv, NEW r \in Requests,
         \/ LogFailure(r) \/ RefundPayment(r) \/ ReleaseStock(r)
         \/ UpdateReleased(r) \/ CancelOrder(r) \/ Rollback(r)
  PROVE  TypeOK'
  <1>1. /\ tx[r].order \in SavedOrder \cup {None} /\ order[r] \in Order
        /\ steps[r] \in 0 .. 4
    BY DEF TypeOK, OwnRows
  <1>2. /\ <<"PaymentRefunded">> \in Seq(EventType)
        /\ <<"StockReleased">> \in Seq(EventType)
    BY DEF EventType
  <1>3. CASE LogFailure(r)
    <2>1. tx' \in [Requests -> OwnRows]
      BY <1>1, <1>3, WriteType, EventLists, LogType DEF LogFailure
    <2>2. pc' \in [Requests -> PC]
      BY <1>3, GotoType DEF LogFailure, PC
    <2>3. idx' \in [Requests -> Nat \ {0}]
      BY <1>3 DEF LogFailure, TypeOK
    <2> QED
      BY <1>3, <2>1, <2>2, <2>3 DEF TypeOK, LogFailure, database, client, history
  <1>4. CASE RefundPayment(r)
    <2>1. tx' \in [Requests -> OwnRows]
      BY <1>1, <1>2, <1>4, WriteType, LogType DEF RefundPayment
    <2>2. pc' \in [Requests -> PC]
      BY <1>4, GotoType DEF RefundPayment, PC
    <2> QED
      BY <1>4, <2>1, <2>2 DEF TypeOK, RefundPayment, locals, database, client,
         history
  <1>5. CASE ReleaseStock(r)
    <2> DEFINE p == Item(r).product
               q == Item(r).qty
    <2>1. CASE CanRelease(Visible(r, p), q)
      <3>1. idx[r] <= Len(Items[r]) /\ idx[r] \in Nat \ {0} /\ p \in Stocked
        BY <1>5 DEF ReleaseStock, RequestInv, ControlAt, TypeOK
      <3>2. q \in Nat
        BY <3>1, ItemType DEF Item
      <3>3. Release(Visible(r, p), q) \in StockItem
        BY <2>1, <3>1, <3>2, VisibleType, ReserveType
      <3>4. stock' \in [Requests -> StockItem]
        BY <1>5, <2>1, <3>3 DEF ReleaseStock, TypeOK
      <3>5. pc' \in [Requests -> PC]
        BY <1>5, <2>1, GotoType DEF ReleaseStock, PC
      <3> QED
        BY <1>5, <2>1, <3>4, <3>5 DEF TypeOK, ReleaseStock, database, history
    <2>2. CASE ~CanRelease(Visible(r, p), q)
      <3>1. /\ RaiseOut(r, "critical") /\ "critical" \in Reply /\ "done" \in PC
        BY <1>5, <2>2 DEF ReleaseStock, Reply, PC
      <3> QED
        BY <1>5, <2>2, <3>1, AbortType, AnswerType, GotoType
           DEF TypeOK, ReleaseStock, RaiseOut, Enqueue, history
    <2> QED
      BY <2>1, <2>2
  <1>8. CASE UpdateReleased(r)
    <2>1. tx' \in [Requests -> OwnRows]
      <3> DEFINE events == NextItem(r, <<>>, <<"StockReleased">>)
      <3>1. events \in Seq(EventType)
        BY <1>2, EventLists DEF NextItem
      <3>2. Write(r, tx[r].order, events, <<>>)
        BY <1>8 DEF UpdateReleased
      <3> HIDE DEF events
      <3> QED
        BY <1>1, <3>1, <3>2, WriteType, LogType
    <2>2. /\ lock' \in [Stocked -> Requests \cup {None}]
          /\ dirty' \in [Stocked -> StockItem]
      <3>1. stock[r] \in StockItem
        BY DEF TypeOK
      <3> QED
        BY <1>8, <3>1, WriteStockType DEF UpdateReleased, TypeOK
    <2>3. pc' \in [Requests -> PC]
      BY <1>8, GotoType DEF UpdateReleased, NextItem, PC
    <2>4. idx' \in [Requests -> Nat \ {0}]
      BY <1>8 DEF UpdateReleased, TypeOK
    <2> QED
      BY <1>8, <2>1, <2>2, <2>3, <2>4 DEF TypeOK, UpdateReleased, client, history
  <1>6. CASE CancelOrder(r)
    <2>1. Cancel(order[r]) \in Order /\ Row(Cancel(order[r])) \in SavedOrder
      BY <1>1, TransitionType DEF Cancel, OrderStatus, EventType
    <2>2. tx' \in [Requests -> OwnRows]
      <3>1. CASE CanCancel(order[r])
        BY <1>2, <1>6, <2>1, <3>1, WriteType, LogType DEF CancelOrder
      <3>2. CASE ~CanCancel(order[r])
        BY <1>6, <3>2 DEF CancelOrder, TypeOK
      <3> QED
        BY <3>1, <3>2
    <2>3. pc' \in [Requests -> PC]
      BY <1>6, GotoType DEF CancelOrder, PC
    <2>4. order' \in [Requests -> Order]
      BY <1>6, <2>1 DEF CancelOrder, TypeOK
    <2> QED
      BY <1>6, <2>2, <2>3, <2>4 DEF TypeOK, CancelOrder, database, client, history
  <1>7. CASE Rollback(r)
    <2>1. "rejected" \in Reply /\ "done" \in PC
      BY DEF Reply, PC
    <2> QED
      BY <1>7, <2>1, AbortType, AnswerType, GotoType
         DEF TypeOK, Rollback, RaiseOut, locals, history
  <1> QED
    BY <1>3, <1>4, <1>5, <1>6, <1>7, <1>8

\* Commit, answer and the faults keep the types.
LEMMA EndType ==
  ASSUME TypeOK, NEW r \in Requests,
         \/ Commit(r) \/ CommitError(r) \/ Respond(r) \/ DbError(r)
         \/ CompensationError(r) \/ CancelError(r) \/ DeadlockAbort(r)
  PROVE  TypeOK'
  <1>1. {"error", "rejected", "critical", "accepted"} \subseteq Reply
    BY DEF Reply
  <1>2. {"done", "respond", "commit"} \subseteq PC
    BY DEF PC
  <1>3. CASE Commit(r)
    BY <1>2, <1>3, CommitType, GotoType DEF TypeOK, Commit, locals, client
  <1>4. CASE CommitError(r)
    BY <1>1, <1>2, <1>4, CommitType, AbortType, AnswerType, GotoType
       DEF TypeOK, CommitError, RaiseOut, locals, history
  <1>5. CASE Respond(r)
    BY <1>1, <1>2, <1>5, AnswerType, GotoType
       DEF TypeOK, Respond, locals, database, history
  <1>6. CASE DbError(r)
    BY <1>1, <1>2, <1>6, AbortType, AnswerType, GotoType
       DEF TypeOK, DbError, RaiseOut, locals, history
  <1>7. CASE CompensationError(r)
    BY <1>1, <1>2, <1>7, AbortType, AnswerType, GotoType
       DEF TypeOK, CompensationError, RaiseOut, Enqueue, locals, history
  <1>8. CASE CancelError(r)
    BY <1>1, <1>2, <1>8, AbortType, AnswerType, GotoType
       DEF TypeOK, CancelError, RaiseOut, locals, history
  <1>9. CASE DeadlockAbort(r)
    BY <1>1, <1>2, <1>9, AbortType, AnswerType, GotoType
       DEF TypeOK, DeadlockAbort, RaiseOut, locals, history
  <1> QED
    BY <1>3, <1>4, <1>5, <1>6, <1>7, <1>8, <1>9

\* Every step keeps the types, given what the control flow guarantees.
LEMMA NextType == TypeOK /\ RequestInv /\ [Next]_vars => TypeOK'
  <1> SUFFICES ASSUME TypeOK, RequestInv, [Next]_vars PROVE TypeOK'
    OBVIOUS
  <1>1. ASSUME NEW r \in Requests, Arrive(r) \/ Serve(r) \/ Fault(r)
        PROVE  TypeOK'
    <2>1. pc[r] = "get" => KeyOf[r] # None
      BY DEF RequestInv, ControlAt
    <2> QED
      BY <1>1, <2>1, CheckType, SagaType, HandlerType, EndType DEF Serve, Fault
  <1>2. CASE ApiCrash
    <2>1. "done" \in PC /\ "lost" \in Reply /\ NoRows \in OwnRows
      BY DEF PC, Reply, NoRows, OwnRows
    <2> QED
      BY <1>2, <2>1, SwitchAssumption DEF TypeOK, ApiCrash, locals, history
  <1>3. ASSUME NEW k \in Keys, ExpireKey(k)
        PROVE  TypeOK'
    <2>1. Absent \in KeyValue
      BY DEF Absent, KeyValue
    <2> QED
      BY <1>3, <2>1 DEF TypeOK, ExpireKey, locals, database, client
  <1>4. CASE UNCHANGED vars
    BY <1>4 DEF TypeOK, vars, locals, database, client, history
  <1> QED
    BY <1>1, <1>2, <1>3, <1>4 DEF Next, Terminating

-----------------------------------------------------------------------------
\* A request's action leaves the locals and own rows of the others alone, and
\* acts on the stock rows in one of four ways.

Untouched(s) ==
  /\ pc'[s] = pc[s] /\ steps'[s] = steps[s] /\ idx'[s] = idx[s]
  /\ stock'[s] = stock[s] /\ order'[s] = order[s] /\ tx'[s] = tx[s]

\* One step of request r.
Act(r) == Arrive(r) \/ Serve(r) \/ Fault(r)

\* A request's step leaves the locals and own rows of the others alone.
LEMMA OthersUntouched ==
  ASSUME TypeOK, NEW r \in Requests, Act(r), NEW s \in Requests \ {r}
  PROVE  Untouched(s)
  <1>1. CASE Arrive(r) \/ CheckError(r) \/ GetCompleted(r)
               \/ GetInProgress(r) \/ GetError(r) \/ FetchCached(r)
    BY <1>1 DEF TypeOK, Untouched, Arrive, CheckAndStore, StartUnkeyed,
       CheckError, GetCompleted,
       GetInProgress, GetError, FetchCached, Return, RaiseOut, Abort, Goto,
       locals
  <1>2. CASE CreateOrder(r) \/ ReadStock(r) \/ UpdateStock(r)
               \/ RereadStock(r) \/ ReupdateStock(r)
    BY <1>2 DEF TypeOK, Untouched, CreateOrder, ReadStock, UpdateStock,
       RereadStock, ReupdateStock, TryUpdate, Goto, Write
  <1>3. ASSUME NEW allowed, NEW next, NEW entries, NEW label,
               CompleteStep(r, allowed, next, entries, label)
        PROVE  Untouched(s)
    <2>1. CASE allowed
      BY <1>3, <2>1 DEF TypeOK, Untouched, CompleteStep, Goto, Write
    <2>2. CASE ~allowed
      BY <1>3, <2>2 DEF TypeOK, Untouched, CompleteStep, Goto, Write
    <2> QED
      BY <2>1, <2>2
  <1>6. CASE MarkStockReserved(r) \/ PayOrder(r) \/ ConfirmOrder(r)
    BY <1>3, <1>6 DEF MarkStockReserved, PayOrder, ConfirmOrder
  <1>7. CASE PublishEvents(r) \/ StoreResult(r) \/ StoreError(r)
    BY <1>7 DEF TypeOK, Untouched, PublishEvents, Published, StoreResult,
       StoreError, Return, Goto, Write, locals
  <1>4. CASE LogFailure(r) \/ RefundPayment(r) \/ ReleaseStock(r)
               \/ UpdateReleased(r) \/ CancelOrder(r) \/ Rollback(r)
    BY <1>4 DEF TypeOK, Untouched, LogFailure, RefundPayment, ReleaseStock,
       UpdateReleased, CancelOrder, Rollback, RaiseOut, Abort, Goto, Write, locals
  <1>5. CASE Commit(r) \/ CommitError(r) \/ Respond(r) \/ DbError(r)
               \/ CompensationError(r) \/ CancelError(r) \/ DeadlockAbort(r)
    BY <1>5 DEF TypeOK, Untouched, Commit, CommitError, Respond, DbError,
       CompensationError, CancelError, DeadlockAbort, RaiseOut, Abort,
       CommitRows, Goto, locals
  <1> QED
    BY <1>1, <1>2, <1>4, <1>5, <1>6, <1>7 DEF Act, Serve, Fault

\* The stock rows and their locks do not move.
Quiet == UNCHANGED <<row, dirty, lock>>

\* A step of a request does one of four things to the stock rows: nothing,
\* a rollback, a commit, or one versioned write.
LEMMA FourWays ==
  ASSUME NEW r \in Requests, Act(r)
  PROVE  \/ Quiet
         \/ Abort(r) /\ pc' = [pc EXCEPT ![r] = "done"]
         \/ /\ CommitRows(r)
            /\ \/ pc' = [pc EXCEPT ![r] = "done"]
               \/ pc' = [pc EXCEPT ![r] = "respond"] /\ ~RespondFirst
         \/ UpdateStock(r) \/ ReupdateStock(r) \/ UpdateReleased(r)
  <1>1. CASE Arrive(r) \/ CheckError(r) \/ GetCompleted(r)
               \/ GetInProgress(r) \/ GetError(r) \/ FetchCached(r)
    BY <1>1 DEF Quiet, Arrive, CheckAndStore, StartUnkeyed, CheckError,
       GetCompleted,
       GetInProgress, GetError, FetchCached, RaiseOut, Goto, database
  <1>2. CASE CreateOrder(r) \/ ReadStock(r) \/ RereadStock(r)
    BY <1>2 DEF Quiet, CreateOrder, ReadStock, RereadStock, database
  <1>3. CASE MarkStockReserved(r) \/ PayOrder(r) \/ ConfirmOrder(r)
               \/ PublishEvents(r) \/ StoreResult(r) \/ StoreError(r)
    BY <1>3 DEF Quiet, MarkStockReserved, PayOrder, ConfirmOrder,
       CompleteStep, PublishEvents, StoreResult, StoreError, database
  <1>4. CASE LogFailure(r) \/ RefundPayment(r) \/ ReleaseStock(r)
               \/ CancelOrder(r) \/ Rollback(r)
    BY <1>4 DEF Quiet, LogFailure, RefundPayment, ReleaseStock, CancelOrder,
       Rollback, RaiseOut, Goto, database
  <1>5. CASE Commit(r) \/ CommitError(r)
    BY <1>5, SwitchAssumption DEF Commit, CommitError, RaiseOut, Goto
  <1>6. CASE Respond(r) \/ DbError(r) \/ CompensationError(r)
               \/ CancelError(r) \/ DeadlockAbort(r)
    BY <1>6 DEF Quiet, Respond, DbError, CompensationError, CancelError,
       DeadlockAbort, RaiseOut, Goto, database
  <1> QED
    BY <1>1, <1>2, <1>3, <1>4, <1>5, <1>6 DEF Act, Serve, Fault

\* The shape of every write of a stock row: the row r sees, at the next
\* version, with no more reserved than available.
GoodWrite(r) ==
  \E p \in Stocked, item \in StockItem :
    /\ item.version = Visible(r, p).version
    /\ item.reserved <= item.available
    /\ WriteStock(r, p, item)
    /\ row' = row

\* A versioned write of a sound item to a row of an open transaction is good.
LEMMA GoodWriteIntro ==
  ASSUME NEW r \in Requests, NEW p \in Stocked, NEW item \in StockItem,
         item.version = Visible(r, p).version, item.reserved <= item.available,
         WriteStock(r, p, item), row' = row
  PROVE  GoodWrite(r)
  BY DEF GoodWrite

\* The optimistic update of the reservation loop is a good write: when the
\* version still matches, what is written was reserved on the visible row.
LEMMA UpdateIsGood ==
  ASSUME IndInv, NEW r \in Requests, UpdateStock(r) \/ ReupdateStock(r)
  PROVE  Quiet \/ GoodWrite(r)
  <1>1. /\ stock[r] \in StockItem /\ Item(r).product \in Stocked
        /\ stock[r].reserved <= stock[r].available
    BY DEF IndInv, TypeOK, RequestInv, ControlAt, SnapshotAt, UpdateStock,
       ReupdateStock
  <1>2. CASE VersionMatches(r)
    <2>1. /\ stock[r].version = Visible(r, Item(r).product).version
          /\ WriteStock(r, Item(r).product, stock[r])
          /\ row' = row
      BY <1>2 DEF UpdateStock, ReupdateStock, TryUpdate, VersionMatches
    <2> QED
      BY <1>1, <2>1 DEF GoodWrite
  <1>3. CASE ~VersionMatches(r)
    BY <1>3 DEF Quiet, UpdateStock, ReupdateStock, TryUpdate
  <1> QED
    BY <1>2, <1>3

\* The compensating update of _release_stock never fails: what it writes was
\* read from the row r has locked.
LEMMA ReleaseIsGood ==
  ASSUME IndInv, NEW r \in Requests, UpdateReleased(r)
  PROVE  /\ VersionMatches(r) /\ GoodWrite(r)
         /\ WriteStock(r, Item(r).product, stock[r]) /\ row' = row
  <1> DEFINE p == Item(r).product
             q == Item(r).qty
  <1>1. /\ p \in Stocked /\ idx[r] \in Nat \ {0} /\ idx[r] <= Len(Items[r])
        /\ CanRelease(Visible(r, p), q) /\ stock[r] = Release(Visible(r, p), q)
        /\ stock[r] \in StockItem
    BY DEF IndInv, TypeOK, RequestInv, ControlAt, SnapshotAt, UpdateReleased
  <1>2. q \in Nat /\ Visible(r, p) \in StockItem /\ Visible(r, p).reserved <= Visible(r, p).available
    BY <1>1, ItemType, VisibleType DEF Item, IndInv, NoOversell, Visible
  <1>3. stock[r].reserved <= stock[r].available
    BY <1>1, <1>2, ReserveType
  <1>4. stock[r].version = Visible(r, p).version
    BY <1>1, <1>2 DEF Release, StockItem
  <1>5. VersionMatches(r)
    BY <1>4 DEF VersionMatches
  <1>6. WriteStock(r, p, stock[r]) /\ row' = row
    BY <1>5 DEF UpdateReleased
  <1>7. GoodWrite(r)
    <2> HIDE DEF p, q
    <2> QED
      BY <1>1, <1>3, <1>4, <1>6, GoodWriteIntro
  <1> QED
    BY <1>5, <1>6, <1>7

\* An order row, once inserted, stays until the transaction ends.
LEMMA OpenTx ==
  ASSUME TypeOK, NEW r \in Requests, Act(r)
  PROVE  \/ Abort(r) \/ CommitRows(r)
         \/ tx[r].order # None => tx'[r].order # None
  <1>1. \A o : tx' = [tx EXCEPT ![r] = o] => tx'[r] = o
    BY DEF TypeOK
  <1>2. ASSUME NEW o, NEW events, NEW entries, Write(r, o, events, entries)
        PROVE  tx'[r].order = o
    BY <1>2 DEF TypeOK, Write
  <1>3. \A o \in Order : Row(o) # None
    BY OrderRowType, NoOrderAssumption
  <1>4. order[r] \in Order
    BY DEF TypeOK
  <1>5. CASE Arrive(r) \/ CheckError(r) \/ GetCompleted(r)
               \/ GetInProgress(r) \/ GetError(r) \/ FetchCached(r)
    BY <1>5 DEF Arrive, CheckAndStore, StartUnkeyed, CheckError, GetCompleted,
       GetInProgress,
       GetError, FetchCached, RaiseOut
  <1>6. CASE CreateOrder(r) \/ ReadStock(r) \/ UpdateStock(r)
               \/ RereadStock(r) \/ ReupdateStock(r)
    BY <1>2, <1>3, <1>4, <1>6 DEF CreateOrder, ReadStock, UpdateStock,
       RereadStock, ReupdateStock, TryUpdate
  <1>7. ASSUME NEW allowed, NEW next \in Order, NEW entries, NEW label,
               CompleteStep(r, allowed, next, entries, label)
        PROVE  tx[r].order # None => tx'[r].order # None
    <2>1. CASE allowed
      BY <1>2, <1>3, <1>7, <2>1 DEF CompleteStep
    <2>2. CASE ~allowed
      BY <1>2, <1>7, <2>2 DEF CompleteStep
    <2> QED
      BY <2>1, <2>2
  <1>8. CASE MarkStockReserved(r) \/ PayOrder(r) \/ ConfirmOrder(r)
    <2>1. /\ ReserveStock(order[r]) \in Order /\ ProcessPayment(order[r]) \in Order
          /\ Confirm(order[r]) \in Order
      BY <1>4, TransitionType
         DEF ReserveStock, ProcessPayment, Confirm, OrderStatus, EventType
    <2> QED
      BY <1>7, <1>8, <2>1 DEF MarkStockReserved, PayOrder, ConfirmOrder
  <1>9. CASE PublishEvents(r) \/ StoreResult(r) \/ StoreError(r)
    BY <1>2, <1>9 DEF PublishEvents, StoreResult, StoreError
  <1>10. CASE \/ LogFailure(r) \/ RefundPayment(r) \/ ReleaseStock(r)
              \/ UpdateReleased(r) \/ Rollback(r)
    BY <1>2, <1>10 DEF LogFailure, RefundPayment, ReleaseStock, UpdateReleased,
       Rollback, RaiseOut
  <1>11. CASE CancelOrder(r)
    <2>1. Cancel(order[r]) \in Order
      BY <1>4, TransitionType DEF Cancel, OrderStatus, EventType
    <2> QED
      BY <1>2, <1>3, <1>11, <2>1 DEF CancelOrder
  <1>12. CASE Commit(r) \/ CommitError(r) \/ Respond(r) \/ DbError(r)
               \/ CompensationError(r) \/ CancelError(r) \/ DeadlockAbort(r)
    BY <1>12 DEF Commit, CommitError, Respond, DbError, CompensationError,
       CancelError, DeadlockAbort, RaiseOut
  <1> QED
    BY <1>5, <1>6, <1>8, <1>9, <1>10, <1>11, <1>12 DEF Act, Serve, Fault

\* What another request sees of a row changes only by a commit, and then the
\* version grows.
LEMMA SeenByOthers ==
  ASSUME IndInv, NEW r \in Requests, NEW s \in Requests \ {r}, NEW p \in Stocked,
         Quiet \/ GoodWrite(r) \/ Abort(r) \/ CommitRows(r)
  PROVE  \/ Visible(s, p)' = Visible(s, p) /\ row'[p] = row[p]
         \/ /\ Visible(s, p) = row[p] /\ Visible(s, p)' = row'[p]
            /\ row'[p].version > row[p].version
  <1>1. /\ lock \in [Stocked -> Requests \cup {None}] /\ row \in [Stocked -> StockItem]
        /\ dirty \in [Stocked -> StockItem] /\ LockAt(p)
    BY DEF IndInv, TypeOK
  <1>2. CASE Quiet
    BY <1>2 DEF Quiet, Visible
  <1>3. CASE GoodWrite(r)
    BY <1>1, <1>3, NoneAssumption DEF GoodWrite, WriteStock, Visible
  <1>4. CASE Abort(r)
    BY <1>1, <1>4, NoneAssumption DEF Abort, Visible
  <1>5. CASE CommitRows(r)
    BY <1>1, <1>5, NoneAssumption DEF CommitRows, Visible, LockAt
  <1> QED
    BY <1>2, <1>3, <1>4, <1>5

\* What a request has locked no other changes or takes.
LEMMA LockedByOthers ==
  ASSUME IndInv, NEW r \in Requests, NEW s \in Requests \ {r}, NEW p \in Stocked,
         Quiet \/ GoodWrite(r) \/ Abort(r) \/ CommitRows(r), lock[p] = s
  PROVE  lock'[p] = s /\ Visible(s, p)' = Visible(s, p)
  <1>1. /\ lock \in [Stocked -> Requests \cup {None}]
        /\ dirty \in [Stocked -> StockItem]
    BY DEF IndInv, TypeOK
  <1>2. lock'[p] = s /\ dirty'[p] = dirty[p]
    <2>1. CASE Quiet
      BY <2>1 DEF Quiet
    <2>2. CASE GoodWrite(r)
      BY <1>1, <2>2, NoneAssumption DEF GoodWrite, WriteStock
    <2>3. CASE Abort(r)
      BY <1>1, <2>3 DEF Abort
    <2>4. CASE CommitRows(r)
      BY <1>1, <2>4 DEF CommitRows
    <2> QED
      BY <2>1, <2>2, <2>3, <2>4
  <1> QED
    BY <1>2 DEF Visible

\* The prefix sums of quantities are integers.
LEMMA WantedType ==
  ASSUME NEW r \in Requests, NEW i \in 0 .. Len(Items[r]), NEW p \in Stocked
  PROVE  Wanted[r][i][p] \in Int
  BY WantedAssumption

\* What a transaction holds of a product is an integer.
LEMMA HeldType ==
  ASSUME IndInv, NEW r \in Requests, NEW p \in Stocked
  PROVE  Held(r, p) \in Int
  <1>1. Len(Items[r]) \in Nat
    BY ItemsAssumption
  <1>2. idx[r] - 1 \in 0 .. Len(Items[r]) /\ Len(Items[r]) \in 0 .. Len(Items[r])
    BY <1>1 DEF IndInv, TypeOK, RequestInv, ControlAt
  <1>3. Wanted[r][Len(Items[r])][p] \in Int /\ Wanted[r][idx[r] - 1][p] \in Int
    BY <1>2, WantedType
  <1> QED
    BY <1>3 DEF Held

\* The others' part of the invariant survives a request's step: they see
\* only commits, and those only raise versions.
LEMMA OthersInv ==
  ASSUME IndInv, TypeOK', NEW r \in Requests, NEW s \in Requests \ {r}, Untouched(s),
         Quiet \/ GoodWrite(r) \/ Abort(r) \/ CommitRows(r)
  PROVE  /\ SnapshotAt(s)' /\ ControlAt(s)' /\ StockedAt(s)'
         /\ \A p \in Stocked : LedgerAt(s, p)'
  <1>1. ControlAt(s)' /\ StockedAt(s)'
    <2>1. ControlAt(s) /\ StockedAt(s)
      BY DEF IndInv, RequestInv
    <2>2. ControlAt(s)'
      BY <2>1 DEF ControlAt, Untouched, Item
    <2>3. \A p \in Stocked : lock[p] = s => lock'[p] = s
      BY LockedByOthers
    <2> QED
      BY <2>1, <2>2, <2>3 DEF StockedAt, Untouched
  <1>2. ASSUME NEW p \in Stocked PROVE LedgerAt(s, p)'
    <2>1. /\ LedgerAt(s, p) /\ Held(s, p)' = Held(s, p)
          /\ row[p].reserved \in Int
      BY DEF IndInv, TxLedger, Held, Untouched, TypeOK, StockItem
    <2>2. Held(s, p) \in Int
      BY HeldType
    <2>3. CASE Visible(s, p)' = Visible(s, p) /\ row'[p] = row[p]
      BY <2>1, <2>3 DEF LedgerAt, Untouched
    <2>4. CASE Visible(s, p) = row[p] /\ Visible(s, p)' = row'[p]
      <3>1. tx[s].order # None => Held(s, p) = 0
        BY <2>1, <2>2, <2>4 DEF LedgerAt
      <3>2. row'[p].reserved \in Int
        BY DEF TypeOK, StockItem
      <3> QED
        BY <2>1, <2>4, <3>1, <3>2 DEF LedgerAt, Untouched
    <2> QED
      BY <2>3, <2>4, SeenByOthers
  <1>3. SnapshotAt(s)'
    <2>3. CASE pc[s] \notin {"update", "reupdate", "putback"}
      BY <2>3 DEF SnapshotAt, Untouched
    <2>4. CASE pc[s] = "putback"
      <3>1. /\ SnapshotAt(s) /\ StockedAt(s) /\ Item(s).product \in Stocked
            /\ idx[s] \in Nat \ {0} /\ idx[s] <= Len(Items[s])
        BY <2>4 DEF IndInv, RequestInv, ControlAt, TypeOK
      <3>2. idx[s] \in DOMAIN Items[s]
        BY <3>1, ItemsAssumption
      <3>3. lock[Item(s).product] = s
        BY <2>4, <3>1, <3>2 DEF StockedAt, Item
      <3>4. Visible(s, Item(s).product)' = Visible(s, Item(s).product)
        <4>1. ASSUME NEW p \in Stocked, p = Item(s).product
              PROVE  Visible(s, p)' = Visible(s, p)
          BY <3>3, <4>1, LockedByOthers
        <4>2. Item(s)' = Item(s)
          BY DEF Item, Untouched
        <4> QED
          BY <3>1, <4>1, <4>2
      <3>5. Item(s)' = Item(s) /\ stock'[s] = stock[s] /\ pc'[s] = "putback"
        BY <2>4 DEF Item, Untouched
      <3> QED
        BY <2>4, <3>1, <3>4, <3>5 DEF SnapshotAt
    <2> SUFFICES ASSUME pc[s] \in {"update", "reupdate"} PROVE SnapshotAt(s)'
      BY <2>3, <2>4
    <2>0. pc'[s] \in {"update", "reupdate"}
      BY DEF Untouched
    <2>1. Item(s).product \in Stocked /\ SnapshotAt(s) /\ stock[s] \in StockItem
      BY DEF IndInv, RequestInv, ControlAt, TypeOK
    <2>2. ASSUME NEW p \in Stocked, p = Item(s).product PROVE SnapshotAt(s)'
      <3>1. Item(s)' = Item(s) /\ stock'[s] = stock[s]
        BY DEF Item, Untouched
      <3>2. Visible(s, p) \in StockItem /\ row[p] \in StockItem
        BY VisibleType DEF IndInv, TypeOK
      <3>3. \/ Visible(s, p)' = Visible(s, p)
            \/ Visible(s, p)'.version > Visible(s, p).version
        BY SeenByOthers
      <3>4. /\ stock[s].reserved <= stock[s].available
            /\ stock[s].version <= Visible(s, p).version
            /\ stock[s].version = Visible(s, p).version =>
                 stock[s] = Reserve(Visible(s, p), Item(s).qty)
        BY <2>1, <2>2 DEF SnapshotAt
      <3>5. CASE Visible(s, p)' = Visible(s, p)
        BY <2>0, <2>2, <3>1, <3>4, <3>5 DEF SnapshotAt
      <3>6. CASE Visible(s, p)'.version > Visible(s, p).version
        <4>1. /\ Visible(s, p)' = row'[p]
              /\ row'[p].version \in Int /\ stock[s].version \in Int
              /\ Visible(s, p).version \in Int
          BY <2>1, <3>2, <3>6, SeenByOthers DEF StockItem, TypeOK
        <4>2. /\ stock[s].version <= Visible(s, p)'.version
              /\ stock[s].version # Visible(s, p)'.version
          BY <3>4, <3>6, <4>1
        <4> QED
          BY <2>0, <2>2, <3>1, <3>4, <4>2 DEF SnapshotAt
      <3> QED
        BY <3>3, <3>5, <3>6
    <2> QED
      BY <2>1, <2>2
  <1> QED
    BY <1>1, <1>2, <1>3

\* The rows stay sound under a request's step: no oversell, and only locked
\* rows differ from what was committed last.
LEMMA RowsInv ==
  ASSUME IndInv, TypeOK', NEW r \in Requests,
         \A s \in Requests \ {r} : tx'[s] = tx[s],
         \/ Quiet \/ Abort(r) \/ CommitRows(r)
         \/ GoodWrite(r) /\ tx[r].order # None,
         \/ Abort(r) \/ CommitRows(r)
         \/ (tx[r].order # None => tx'[r].order # None)
  PROVE  NoOversell' /\ \A p \in Stocked : LockAt(p)'
  <1> SUFFICES ASSUME NEW p \in Stocked
               PROVE  /\ row'[p].reserved <= row'[p].available
                      /\ dirty'[p].reserved <= dirty'[p].available
                      /\ LockAt(p)'
    BY DEF NoOversell
  <1>1. /\ lock \in [Stocked -> Requests \cup {None}] /\ row \in [Stocked -> StockItem]
        /\ dirty \in [Stocked -> StockItem] /\ LockAt(p)
        /\ row[p].reserved <= row[p].available
        /\ dirty[p].reserved <= dirty[p].available
    BY DEF IndInv, TypeOK, NoOversell
  <1>2. CASE Abort(r)
    BY <1>1, <1>2, NoneAssumption DEF Abort, LockAt
  <1>3. CASE CommitRows(r)
    BY <1>1, <1>3, NoneAssumption DEF CommitRows, LockAt
  <1>4. CASE Quiet /\ (tx[r].order # None => tx'[r].order # None)
    BY <1>1, <1>4 DEF Quiet, LockAt
  <1>5. CASE GoodWrite(r) /\ tx'[r].order # None
    <2> PICK q \in Stocked, item \in StockItem :
           /\ item.version = Visible(r, q).version
           /\ item.reserved <= item.available
           /\ WriteStock(r, q, item)
           /\ row' = row
      BY <1>5 DEF GoodWrite
    <2>1. CASE p = q
      <3>1. dirty'[p] = [item EXCEPT !.version = @ + 1] /\ lock'[p] = r
        BY <1>1, <2>1 DEF WriteStock
      <3>2. /\ dirty'[p].version = item.version + 1 /\ dirty'[p].reserved = item.reserved
            /\ dirty'[p].available = item.available
        BY <3>1 DEF StockItem
      <3>3. Visible(r, p).version >= row[p].version
        BY <1>1, <2>1, NoneAssumption DEF Visible, LockAt, StockItem
      <3> QED
        BY <1>1, <1>5, <2>1, <3>1, <3>2, <3>3, NoneAssumption DEF LockAt,
           StockItem
    <2>2. CASE p # q
      <3>1. dirty'[p] = dirty[p] /\ lock'[p] = lock[p]
        BY <1>1, <2>2 DEF WriteStock
      <3> QED
        BY <1>1, <1>5, <3>1 DEF LockAt
    <2> QED
      BY <2>1, <2>2
  <1> QED
    BY <1>2, <1>3, <1>4, <1>5

-----------------------------------------------------------------------------
\* The acting request keeps its own part of the invariant.

Self(r) == /\ SnapshotAt(r) /\ ControlAt(r) /\ StockedAt(r)
           /\ \A p \in Stocked : LedgerAt(r, p)

\* A request that has left its transaction satisfies its part trivially.
LEMMA EndSelf ==
  ASSUME IndInv, NEW r \in Requests, idx'[r] = idx[r],
         \/ Abort(r) /\ pc' = [pc EXCEPT ![r] = "done"]
         \/ /\ CommitRows(r)
            /\ \/ pc' = [pc EXCEPT ![r] = "done"]
               \/ pc' = [pc EXCEPT ![r] = "respond"] /\ ~RespondFirst
  PROVE  Self(r)'
  <1>1. tx'[r].order = None
    BY DEF Abort, CommitRows, NoRows, IndInv, TypeOK
  <1>2. \/ pc'[r] = "done"
        \/ pc'[r] = "respond" /\ ~RespondFirst
    BY DEF IndInv, TypeOK
  <1>3. idx'[r] <= Len(Items[r]) + 1
    BY DEF IndInv, RequestInv, ControlAt
  <1> QED
    BY <1>1, <1>2, <1>3 DEF Self, SnapshotAt, ControlAt, StockedAt, LedgerAt

\* Steps that leave the stock rows alone keep the ledger if they keep Held.
LEMMA QuietLedger ==
  ASSUME IndInv, NEW r \in Requests, Quiet, NEW p \in Stocked,
         \/ tx'[r].order = None
         \/ tx[r].order # None /\ Held(r, p)' = Held(r, p)
  PROVE  LedgerAt(r, p)'
  <1>1. LedgerAt(r, p)
    BY DEF IndInv, TxLedger
  <1> QED
    BY <1>1 DEF LedgerAt, Quiet, Visible

\* The idempotency check keeps the request's own part of the invariant.
LEMMA CheckSelf ==
  ASSUME IndInv, NEW r \in Requests,
         \/ Arrive(r) \/ GetCompleted(r)
         \/ FetchCached(r) /\ Quiet /\ tx' = tx
  PROVE  Self(r)'
  <1>1. tx'[r].order = None /\ Quiet
    BY DEF IndInv, RequestInv, ControlAt, Arrive, CheckAndStore, StartUnkeyed,
       GetCompleted,
           FetchCached, Quiet, database
  <1>2. idx' = idx /\ pc \in [Requests -> PC]
    BY DEF Arrive, CheckAndStore, StartUnkeyed, GetCompleted, FetchCached,
       locals, IndInv, TypeOK
  <1>3. ControlAt(r)
    BY DEF IndInv, RequestInv
  <1>4. pc'[r] \in {"create", "get", "fetch", "respond", "commit", "done"}
    BY <1>2 DEF Arrive, CheckAndStore, StartUnkeyed, GetCompleted, FetchCached,
       Return, RaiseOut, Goto
  <1>5. /\ pc[r] \in {"check", "get", "fetch"}
        /\ pc'[r] = "create" => pc[r] = "check"
        /\ pc'[r] \in {"get", "fetch"} => KeyOf[r] # None
    BY <1>2, <1>3 DEF ControlAt, Arrive, CheckAndStore, StartUnkeyed,
       GetCompleted, FetchCached, Return, RaiseOut, Goto
  <1>6. ControlAt(r)'
    BY <1>1, <1>2, <1>3, <1>4, <1>5 DEF ControlAt
  <1>7. SnapshotAt(r)' /\ StockedAt(r)'
    BY <1>4 DEF SnapshotAt, StockedAt
  <1> QED
    BY <1>1, <1>6, <1>7, QuietLedger DEF Self

\* Inserting the order opens the ledger at zero.
LEMMA CreateSelf ==
  ASSUME IndInv, TypeOK', NEW r \in Requests, CreateOrder(r)
  PROVE  Self(r)'
  <1>1. /\ Quiet /\ idx'[r] = 1 /\ steps'[r] = 1 /\ pc'[r] = "read"
        /\ tx[r].order = None
    BY DEF CreateOrder, Quiet, database, Goto, IndInv, TypeOK, RequestInv,
       ControlAt
  <1>2. tx'[r].order # None
    <2>1. Row(order[r]) # None
      BY OrderRowType, NoOrderAssumption DEF IndInv, TypeOK
    <2> QED
      BY <2>1 DEF CreateOrder, Write, IndInv, TypeOK
  <1>3. Len(Items[r]) \in Nat /\ Len(Items[r]) >= 1
    BY ItemsAssumption
  <1>4. ControlAt(r)' /\ SnapshotAt(r)'
    BY <1>1, <1>2, <1>3 DEF ControlAt, SnapshotAt
  <1>5. StockedAt(r)'
    BY <1>1, <1>3 DEF StockedAt
  <1>6. ASSUME NEW p \in Stocked PROVE LedgerAt(r, p)'
    <2>1. lock[p] # r
      BY <1>1, NoneAssumption DEF IndInv, LockAt
    <2>2. Visible(r, p)' = row'[p]
      BY <1>1, <2>1 DEF Visible, Quiet
    <2>3. Held(r, p)' = 0
      BY <1>1, WantedAssumption DEF Held
    <2> QED
      BY <2>2, <2>3 DEF LedgerAt, TypeOK, StockItem
  <1> QED
    BY <1>4, <1>5, <1>6 DEF Self

\* The prefix sums of Wanted grow by one line at a time.
LEMMA WantedStep ==
  ASSUME NEW r \in Requests, NEW i \in Nat \ {0}, i <= Len(Items[r]), NEW p \in Stocked
  PROVE  /\ Wanted[r][i - 1][p] \in Int /\ Wanted[r][i][p] \in Int
         /\ Items[r][i].product = p => Wanted[r][i][p] = Wanted[r][i - 1][p] + Items[r][i].qty
         /\ Items[r][i].product # p => Wanted[r][i][p] = Wanted[r][i - 1][p]
  <1>1. Len(Items[r]) \in Nat /\ Items[r][i].qty \in Nat
    BY ItemType
  <1>2. i \in 1 .. Len(Items[r]) /\ i \in 0 .. Len(Items[r]) /\ i - 1 \in 0 .. Len(Items[r])
    BY <1>1
  <1>3. Wanted[r][i - 1][p] \in Int /\ Wanted[r][i][p] \in Int
    BY <1>2, WantedType
  <1>4. Wanted[r][i][p] = Wanted[r][i - 1][p]
           + (IF Items[r][i].product = p THEN Items[r][i].qty ELSE 0)
    BY <1>2, WantedAssumption
  <1> QED
    BY <1>1, <1>3, <1>4

\* After its own write a transaction sees the quantities it wrote.
LEMMA WriteVisible ==
  ASSUME IndInv, NEW r \in Requests, NEW p \in Stocked, NEW item \in StockItem,
         WriteStock(r, p, item), row' = row
  PROVE  /\ Visible(r, p)'.reserved = item.reserved
         /\ \A q \in Stocked \ {p} : Visible(r, q)' = Visible(r, q)
  <1>1. /\ lock \in [Stocked -> Requests \cup {None}]
        /\ dirty \in [Stocked -> StockItem]
    BY DEF IndInv, TypeOK
  <1>2. lock'[p] = r /\ dirty'[p] = [item EXCEPT !.version = @ + 1]
    BY <1>1 DEF WriteStock
  <1>3. Visible(r, p)' = dirty'[p]
    BY <1>2 DEF Visible
  <1>4. Visible(r, p)'.reserved = item.reserved
    BY <1>2, <1>3 DEF StockItem
  <1>5. \A q \in Stocked \ {p} : lock'[q] = lock[q] /\ dirty'[q] = dirty[q]
    BY <1>1 DEF WriteStock
  <1> QED
    BY <1>4, <1>5 DEF Visible

\* A read leaves a copy that is one reservation ahead of the row it saw.
LEMMA ReadSelf ==
  ASSUME IndInv, TypeOK', NEW r \in Requests, ReadStock(r) \/ RereadStock(r)
  PROVE  Self(r)'
  <1>1. /\ Quiet /\ idx' = idx /\ steps' = steps
        /\ pc[r] \in {"read", "reread"} /\ ControlAt(r) /\ StockedAt(r)
        /\ tx[r].order # None
    BY DEF ReadStock, RereadStock, Quiet, database, IndInv, RequestInv,
       ControlAt
  <1>2. tx'[r].order # None
    <2>1. CASE ReadStock(r)
      BY <1>1, <2>1 DEF ReadStock, Write, IndInv, TypeOK
    <2>2. CASE RereadStock(r)
      BY <1>1, <2>2 DEF RereadStock
    <2> QED
      BY <2>1, <2>2
  <1>3. Item(r)' = Item(r) /\ (\A p : Visible(r, p)' = Visible(r, p))
    BY <1>1 DEF Item, Visible, Quiet
  <1>4. Item(r).qty \in Nat
    BY <1>1, ItemType DEF Item, ControlAt, IndInv, TypeOK
  <1>5. CASE pc'[r] = "fail"
    <2>1. steps'[r] = 1 /\ idx'[r] <= Len(Items[r]) + 1
      BY <1>1 DEF ControlAt
    <2>2. ControlAt(r)' /\ SnapshotAt(r)' /\ StockedAt(r)'
      BY <1>2, <1>5, <2>1 DEF ControlAt, SnapshotAt, StockedAt
    <2>3. \A p \in Stocked : Held(r, p)' = Held(r, p)
      BY <1>1, <1>5, <2>1 DEF Held
    <2> QED
      BY <1>1, <2>2, <2>3, QuietLedger DEF Self
  <1>6. CASE /\ Item(r).product \in Stocked
             /\ pc'[r] \in {"update", "reupdate"}
             /\ EffectiveStock(Visible(r, Item(r).product)) >= Item(r).qty
             /\ stock'[r] = Reserve(Visible(r, Item(r).product), Item(r).qty)
    <2>1. ControlAt(r)'
      BY <1>1, <1>2, <1>3, <1>6 DEF ControlAt
    <2>2. StockedAt(r)'
      BY <1>1, <1>6 DEF StockedAt, Quiet
    <2>3. \A p \in Stocked : Held(r, p)' = Held(r, p)
      BY <1>1, <1>6 DEF Held
    <2>4. SnapshotAt(r)'
      <3>1. ASSUME NEW s \in StockItem, s = Visible(r, Item(r).product)
            PROVE  /\ stock'[r].reserved <= stock'[r].available
                   /\ stock'[r].version <= s.version
                   /\ stock'[r] = Reserve(s, Item(r).qty)
        BY <1>4, <1>6, <3>1, ReserveType DEF Reserve, StockItem
      <3>2. Visible(r, Item(r).product) \in StockItem
        BY <1>6, VisibleType DEF IndInv
      <3> QED
        BY <1>3, <1>6, <3>1, <3>2 DEF SnapshotAt
    <2> QED
      <3>1. \A p \in Stocked : LedgerAt(r, p)'
        BY <1>1, <2>3, QuietLedger
      <3> QED
        BY <2>1, <2>2, <2>4, <3>1 DEF Self
  <1>7. CASE ReadStock(r)
    BY <1>5, <1>6, <1>7 DEF ReadStock, CanReserve, Goto, IndInv, TypeOK
  <1>8. CASE RereadStock(r)
    BY <1>1, <1>5, <1>6, <1>8 DEF RereadStock, Goto, IndInv, TypeOK, ControlAt
  <1> QED
    BY <1>7, <1>8

\* A successful optimistic update moves the row and the loop in step.
LEMMA UpdateSelf ==
  ASSUME IndInv, TypeOK', NEW r \in Requests, UpdateStock(r) \/ ReupdateStock(r)
  PROVE  Self(r)'
  <1>1. /\ pc[r] \in {"update", "reupdate"} /\ ControlAt(r) /\ StockedAt(r)
        /\ SnapshotAt(r) /\ tx[r].order # None /\ tx' = tx /\ steps' = steps
        /\ row' = row /\ stock' = stock
    BY DEF UpdateStock, ReupdateStock, TryUpdate, IndInv, RequestInv, ControlAt
  <1>2. /\ idx[r] \in Nat \ {0} /\ idx[r] <= Len(Items[r]) /\ Item(r).product \in Stocked
        /\ steps[r] = 1 /\ Len(Items[r]) \in Nat
    BY <1>1, ItemsAssumption DEF ControlAt, IndInv, TypeOK
  <1>3. CASE ~VersionMatches(r)
    <2>1. /\ Quiet /\ idx' = idx /\ pc'[r] \in {"reread", "fail"}
      BY <1>3 DEF UpdateStock, ReupdateStock, TryUpdate, Quiet, Goto, IndInv,
         TypeOK
    <2>2. ControlAt(r)' /\ SnapshotAt(r)' /\ StockedAt(r)'
      BY <1>1, <1>2, <2>1 DEF ControlAt, SnapshotAt, StockedAt, Item, Quiet
    <2>3. \A p \in Stocked : Held(r, p)' = Held(r, p)
      BY <1>1, <1>2, <2>1 DEF Held
    <2> QED
      BY <1>1, <2>1, <2>2, <2>3, QuietLedger DEF Self
  <1>4. CASE VersionMatches(r)
    <2>1. /\ WriteStock(r, Item(r).product, stock[r])
          /\ idx'[r] = idx[r] + 1
          /\ pc'[r] = IF idx[r] < Len(Items[r]) THEN "read" ELSE "mark"
      BY <1>4 DEF UpdateStock, ReupdateStock, TryUpdate, Goto, NextItem, IndInv,
         TypeOK
    <2>2. ControlAt(r)'
      BY <1>1, <1>2, <2>1 DEF ControlAt
    <2>3. SnapshotAt(r)'
      BY <2>1 DEF SnapshotAt
    <2>4. StockedAt(r)'
      <3>1. \A p \in Stocked :
              lock[p] = r \/ p = Item(r).product => lock'[p] = r
        BY <1>2, <2>1 DEF WriteStock, IndInv, TypeOK
      <3> QED
        BY <1>1, <1>2, <2>1, <3>1 DEF StockedAt, Item
    <2>5. ASSUME NEW p \in Stocked PROVE LedgerAt(r, p)'
      <3>1. /\ Visible(r, p).reserved = row[p].reserved + Held(r, p)
            /\ Held(r, p) = Wanted[r][idx[r] - 1][p]
            /\ Held(r, p)' = Wanted[r][idx[r]][p]
        BY <1>1, <1>2, <2>1 DEF IndInv, TxLedger, LedgerAt, Held
      <3>2. row[p].reserved \in Int /\ stock[r] \in StockItem /\ Item(r).qty \in Nat
        <4>1. Item(r).qty \in Nat
          BY <1>2, ItemType DEF Item
        <4> QED
          BY <4>1 DEF IndInv, TypeOK, StockItem
      <3>3. CASE p = Item(r).product
        <4>1. stock[r] = Reserve(Visible(r, p), Item(r).qty)
          BY <1>1, <1>4, <3>3 DEF SnapshotAt, VersionMatches
        <4>2. stock[r].reserved = Visible(r, p).reserved + Item(r).qty
          BY <4>1, VisibleType DEF Reserve, IndInv, StockItem
        <4>3. Visible(r, p)'.reserved = stock[r].reserved
          BY <1>1, <2>1, <3>2, <3>3, WriteVisible
        <4>4. /\ Wanted[r][idx[r]][p] = Wanted[r][idx[r] - 1][p] + Item(r).qty
              /\ Wanted[r][idx[r] - 1][p] \in Int
          BY <1>2, <3>3, WantedStep DEF Item
        <4> QED
          BY <1>1, <3>1, <3>2, <4>2, <4>3, <4>4 DEF LedgerAt
      <3>4. CASE p # Item(r).product
        <4>1. Visible(r, p)' = Visible(r, p)
          BY <1>1, <1>2, <2>1, <3>2, <3>4, WriteVisible
        <4>2. Wanted[r][idx[r]][p] = Wanted[r][idx[r] - 1][p]
          BY <1>2, <3>4, WantedStep DEF Item
        <4> QED
          BY <1>1, <3>1, <4>1, <4>2 DEF LedgerAt
      <3> QED
        BY <3>3, <3>4
    <2> QED
      BY <2>2, <2>3, <2>4, <2>5 DEF Self
  <1> QED
    BY <1>3, <1>4

\* The steps after the loop touch no stock row; a failing one leaves the loop
\* where the handler expects it.
LEMMA TailSelf ==
  ASSUME IndInv, TypeOK', NEW r \in Requests,
         \/ MarkStockReserved(r) \/ PayOrder(r) \/ ConfirmOrder(r)
         \/ PublishEvents(r) \/ StoreResult(r) \/ StoreError(r)
  PROVE  Self(r)'
  <1>1. /\ Quiet /\ idx' = idx
        /\ pc[r] \in {"mark", "pay", "confirm", "publish", "store"}
        /\ pc'[r] \in {"pay", "confirm", "publish", "store", "fail", "respond", "commit"}
        /\ pc'[r] = "respond" => RespondFirst
    BY DEF MarkStockReserved, PayOrder, ConfirmOrder, PublishEvents,
       StoreResult, StoreError, CompleteStep, Published, Return, Goto, Quiet, database, locals, IndInv, TypeOK
  <1>2. ControlAt(r) /\ StockedAt(r) /\ tx[r].order # None /\ idx[r] = Len(Items[r]) + 1
    BY <1>1 DEF IndInv, RequestInv, ControlAt
  <1>3. tx'[r].order # None
    <2>1. (Abort(r) \/ CommitRows(r)) => tx' = [tx EXCEPT ![r] = NoRows]
      BY DEF Abort, CommitRows
    <2>2. CASE MarkStockReserved(r) \/ PayOrder(r) \/ ConfirmOrder(r)
      <3>1. /\ ReserveStock(order[r]) \in Order /\ ProcessPayment(order[r]) \in Order
            /\ Confirm(order[r]) \in Order
        BY TransitionType
           DEF IndInv, TypeOK, ReserveStock, ProcessPayment, Confirm,
              OrderStatus, EventType
      <3>2. ASSUME NEW allowed, NEW next \in Order, NEW entries, NEW label,
                   CompleteStep(r, allowed, next, entries, label)
            PROVE  tx'[r].order # None
        <4>1. Row(next) # None
          BY OrderRowType, NoOrderAssumption
        <4>2. CASE allowed
          BY <3>2, <4>1, <4>2 DEF CompleteStep, Write, IndInv, TypeOK
        <4>3. CASE ~allowed
          BY <1>2, <3>2, <4>3 DEF CompleteStep, Write, IndInv, TypeOK
        <4> QED
          BY <4>2, <4>3
      <3> QED
        BY <2>2, <3>1, <3>2 DEF MarkStockReserved, PayOrder, ConfirmOrder
    <2>3. CASE PublishEvents(r)
      BY <1>2, <2>3 DEF PublishEvents, Write, IndInv, TypeOK
    <2>4. CASE StoreResult(r) \/ StoreError(r)
      BY <1>2, <2>4 DEF StoreResult, StoreError
    <2> QED
      BY <2>2, <2>3, <2>4
  <1>4. /\ pc'[r] = "pay" => steps'[r] = 2
        /\ pc'[r] = "confirm" => steps'[r] = 3
        /\ pc'[r] = "store" => KeyOf[r] # None
        /\ pc'[r] = "publish" => order'[r].events # <<>>
    <2>1. CASE MarkStockReserved(r)
      BY <1>2, <2>1 DEF MarkStockReserved, CompleteStep, Goto, ControlAt,
         IndInv, TypeOK
    <2>2. CASE PayOrder(r)
      BY <1>2, <2>2 DEF PayOrder, CompleteStep, Goto, ControlAt, IndInv, TypeOK
    <2>3. CASE ConfirmOrder(r)
      <3>1. CanConfirm(order[r]) => order'[r].events = Append(order[r].events, "OrderConfirmed")
        BY <2>3 DEF ConfirmOrder, CompleteStep, Confirm, Transition, IndInv, TypeOK
      <3>2. CanConfirm(order[r]) => order'[r].events # <<>>
        BY <3>1 DEF IndInv, TypeOK, Order, EventType
      <3> QED
        BY <2>3, <3>2 DEF ConfirmOrder, CompleteStep, Goto, IndInv, TypeOK
    <2>4. CASE PublishEvents(r)
      <3>1. order[r].events \in Seq(EventType) /\ order'[r].events = Tail(order[r].events)
        BY <2>4 DEF PublishEvents, IndInv, TypeOK, Order
      <3>2. Len(order[r].events) > 1 => Tail(order[r].events) # <<>>
        <4>1. ASSUME NEW events \in Seq(EventType), Len(events) > 1
              PROVE  Tail(events) # <<>>
          <5>1. Tail(events)[1] = events[2] /\ Len(Tail(events)) = Len(events) - 1
            BY <4>1
          <5>2. Len(Tail(events)) # 0
            BY <4>1, <5>1
          <5>3. Len(<<>>) = 0
            OBVIOUS
          <5> QED
            BY <5>2, <5>3, Zenon
        <4> QED
          BY <3>1, <4>1
      <3> QED
        BY <2>4, <3>1, <3>2 DEF PublishEvents, Published, Return, Goto, IndInv, TypeOK
    <2>5. CASE StoreResult(r) \/ StoreError(r)
      BY <2>5 DEF StoreResult, StoreError, Return, Goto, IndInv, TypeOK
    <2> QED
      BY <2>1, <2>2, <2>3, <2>4, <2>5
  <1>5. ControlAt(r)' /\ SnapshotAt(r)'
    BY <1>1, <1>2, <1>3, <1>4 DEF ControlAt, SnapshotAt
  <1>6. StockedAt(r)'
    BY <1>1, <1>2, ItemsAssumption DEF StockedAt, Quiet
  <1>7. \A p \in Stocked : Held(r, p)' = Held(r, p)
    BY <1>1 DEF Held
  <1> QED
    BY <1>1, <1>2, <1>5, <1>6, <1>7, QuietLedger DEF Self

\* The handler starts to give back from the first line what the loop took.
LEMMA FailureSelf ==
  ASSUME IndInv, TypeOK', NEW r \in Requests, LogFailure(r) \/ RefundPayment(r)
  PROVE  Self(r)'
  <1>1. /\ Quiet /\ pc[r] \in {"fail", "refund"} /\ steps' = steps
        /\ ControlAt(r) /\ StockedAt(r) /\ tx[r].order # None
    BY DEF LogFailure, RefundPayment, Quiet, database, locals, IndInv,
       RequestInv, ControlAt
  <1>2. tx'[r].order # None
    BY <1>1 DEF LogFailure, RefundPayment, Write, IndInv, TypeOK
  <1>3. Items[r] \in Seq(OrderItem) /\ Len(Items[r]) \in Nat /\ Len(Items[r]) >= 1
    BY ItemsAssumption
  <1>4. CASE LogFailure(r) /\ steps[r] < 2
    <2>1. idx'[r] = idx[r] /\ pc[r] = "fail" /\ pc'[r] = "cancel" /\ steps'[r] < 2
      <3>1. /\ pc \in [Requests -> PC] /\ idx \in [Requests -> Nat \ {0}]
            /\ ~(steps[r] >= 3) /\ ~(steps[r] = 2) /\ ~(steps[r] >= 2)
        BY <1>4 DEF IndInv, TypeOK
      <3> QED
        BY <1>1, <1>4, <3>1 DEF LogFailure, Goto
    <2>2. ControlAt(r)' /\ SnapshotAt(r)' /\ StockedAt(r)'
      BY <1>1, <1>2, <2>1 DEF ControlAt, SnapshotAt, StockedAt
    <2>3. \A p \in Stocked : Held(r, p)' = Held(r, p)
      BY <1>1, <2>1 DEF Held, IndInv, TypeOK
    <2> QED
      BY <1>1, <2>2, <2>3, QuietLedger DEF Self
  <1>5. CASE (LogFailure(r) /\ steps[r] >= 2) \/ RefundPayment(r)
    <2>1. /\ idx'[r] = 1 /\ pc'[r] \in {"refund", "release"} /\ steps[r] >= 2
          /\ pc[r] = "fail" => idx[r] = Len(Items[r]) + 1
          /\ pc[r] = "refund" => idx[r] = 1
      <3>1. CASE LogFailure(r) /\ steps[r] >= 2
        <4>1. /\ pc \in [Requests -> PC] /\ idx \in [Requests -> Nat \ {0}]
              /\ steps[r] >= 3 \/ steps[r] = 2
          BY <3>1 DEF IndInv, TypeOK
        <4>2. idx' = [idx EXCEPT ![r] = 1] /\ pc[r] = "fail"
          BY <3>1 DEF LogFailure
        <4>3. \/ pc' = [pc EXCEPT ![r] = "refund"]
              \/ pc' = [pc EXCEPT ![r] = "release"]
          BY <3>1, <4>1 DEF LogFailure, Goto
        <4> QED
          BY <1>1, <3>1, <4>1, <4>2, <4>3 DEF ControlAt
      <3>2. CASE RefundPayment(r)
        BY <1>1, <3>2 DEF RefundPayment, locals, Goto, ControlAt, IndInv, TypeOK
      <3> QED
        BY <1>5, <3>1, <3>2
    <2>2. StockedAt(r)' /\ Items[r][1].product \in Stocked
      BY <1>1, <1>3, <2>1 DEF StockedAt, Quiet
    <2>3. ControlAt(r)' /\ SnapshotAt(r)'
      BY <1>1, <1>2, <1>3, <2>1, <2>2 DEF ControlAt, SnapshotAt, Item
    <2>4. ASSUME NEW p \in Stocked PROVE Held(r, p)' = Held(r, p)
      <3>1. Wanted[r][0][p] = 0 /\ Wanted[r][Len(Items[r])][p] \in Int
        BY <1>3, WantedAssumption, WantedType
      <3>2. Held(r, p)' = Wanted[r][Len(Items[r])][p]
        BY <2>1, <3>1 DEF Held
      <3>3. Held(r, p) = Wanted[r][Len(Items[r])][p]
        BY <1>1, <1>3, <2>1, <3>1 DEF Held
      <3> QED
        BY <3>2, <3>3
    <2> QED
      BY <1>1, <2>2, <2>3, <2>4, QuietLedger DEF Self
  <1> QED
    BY <1>4, <1>5 DEF IndInv, TypeOK

\* The copy a line is released on is the row as the transaction sees it.
LEMMA ReleaseSelf ==
  ASSUME IndInv, TypeOK', NEW r \in Requests, ReleaseStock(r),
         CanRelease(Visible(r, Item(r).product), Item(r).qty)
  PROVE  Self(r)'
  <1>1. /\ Quiet /\ pc[r] = "release" /\ pc'[r] = "putback"
        /\ steps' = steps /\ idx' = idx /\ tx' = tx
        /\ stock'[r] = Release(Visible(r, Item(r).product), Item(r).qty)
        /\ ControlAt(r) /\ StockedAt(r) /\ tx[r].order # None
    BY DEF ReleaseStock, Quiet, database, Goto, IndInv, TypeOK, RequestInv,
       ControlAt
  <1>2. ControlAt(r)' /\ StockedAt(r)'
    BY <1>1 DEF ControlAt, StockedAt, Quiet, Item
  <1>3. SnapshotAt(r)'
    <2>1. Item(r)' = Item(r) /\ (\A p : Visible(r, p)' = Visible(r, p))
      BY <1>1 DEF Item, Visible, Quiet
    <2> QED
      BY <1>1, <2>1 DEF SnapshotAt
  <1>4. \A p \in Stocked : Held(r, p)' = Held(r, p)
    BY <1>1 DEF Held
  <1> QED
    BY <1>1, <1>2, <1>3, <1>4, QuietLedger DEF Self

\* Each released line takes out of the row what the line had put in.
LEMMA PutBackSelf ==
  ASSUME IndInv, TypeOK', NEW r \in Requests, UpdateReleased(r)
  PROVE  Self(r)'
  <1>1. /\ pc[r] = "putback" /\ steps' = steps /\ ControlAt(r) /\ StockedAt(r)
        /\ tx[r].order # None /\ row' = row
        /\ CanRelease(Visible(r, Item(r).product), Item(r).qty)
        /\ WriteStock(r, Item(r).product,
                      Release(Visible(r, Item(r).product), Item(r).qty))
    BY ReleaseIsGood DEF UpdateReleased, IndInv, RequestInv, ControlAt, SnapshotAt
  <1>2. /\ idx[r] \in Nat \ {0} /\ idx[r] <= Len(Items[r]) /\ Item(r).product \in Stocked
        /\ steps[r] >= 2 /\ Len(Items[r]) \in Nat
    BY <1>1, ItemsAssumption DEF ControlAt, IndInv, TypeOK
  <1>3. Item(r).qty \in Nat
    BY <1>2, ItemType DEF Item
  <1>4. /\ idx'[r] = idx[r] + 1
        /\ pc'[r] = IF idx[r] < Len(Items[r]) THEN "release" ELSE "cancel"
    BY DEF UpdateReleased, Goto, NextItem, IndInv, TypeOK
  <1>5. tx'[r].order # None
    BY <1>1 DEF UpdateReleased, Write, IndInv, TypeOK
  <1>6. StockedAt(r)' /\ SnapshotAt(r)'
    <2>1. \A p \in Stocked : lock[p] = r => lock'[p] = r
      BY <1>1 DEF WriteStock, IndInv, TypeOK
    <2> QED
      BY <1>1, <1>4, <2>1 DEF StockedAt, SnapshotAt
  <1>7. idx[r] < Len(Items[r]) => Items[r][idx[r] + 1].product \in Stocked
    BY <1>1, <1>2, ItemsAssumption DEF StockedAt
  <1>8. ControlAt(r)'
    BY <1>1, <1>2, <1>4, <1>5, <1>7 DEF ControlAt, Item
  <1>9. ASSUME NEW p \in Stocked PROVE LedgerAt(r, p)'
    <2> DEFINE n == Len(Items[r])
    <2>1. /\ Visible(r, p).reserved = row[p].reserved + Held(r, p)
          /\ Held(r, p) = Wanted[r][n][p] - Wanted[r][idx[r] - 1][p]
      BY <1>1 DEF IndInv, TxLedger, LedgerAt, Held
    <2>2. /\ row[p].reserved \in Int /\ Visible(r, p) \in StockItem
          /\ Wanted[r][n][p] \in Int
      <3>1. Wanted[r][n][p] \in Int
        <4>1. Len(Items[r]) \in 0 .. Len(Items[r])
          BY <1>2
        <4> QED
          BY <4>1, WantedType
      <3>2. Visible(r, p) \in StockItem
        BY VisibleType DEF IndInv
      <3> QED
        BY <3>1, <3>2 DEF IndInv, TypeOK, StockItem
    <2>3. Held(r, p)' = Wanted[r][n][p] - Wanted[r][idx[r]][p]
      <3>1. CASE idx[r] < n
        BY <1>2, <1>4, <3>1 DEF Held
      <3>2. CASE idx[r] = n
        BY <1>1, <1>2, <1>4, <2>2, <3>2 DEF Held
      <3> QED
        BY <1>2, <3>1, <3>2
    <2>4. CASE p = Item(r).product
      <3>1. /\ Release(Visible(r, p), Item(r).qty) \in StockItem
            /\ Release(Visible(r, p), Item(r).qty).reserved = Visible(r, p).reserved - Item(r).qty
        BY <1>1, <1>3, <2>2, <2>4, ReserveType DEF Release, StockItem
      <3>2. Visible(r, p)'.reserved = Visible(r, p).reserved - Item(r).qty
        BY <1>1, <2>4, <3>1, WriteVisible
      <3>3. /\ Wanted[r][idx[r]][p] = Wanted[r][idx[r] - 1][p] + Item(r).qty
            /\ Wanted[r][idx[r] - 1][p] \in Int
        BY <1>2, <2>4, WantedStep DEF Item
      <3> HIDE DEF n
      <3> QED
        BY <1>1, <1>3, <2>1, <2>2, <2>3, <3>2, <3>3 DEF LedgerAt
    <2>5. CASE p # Item(r).product
      <3>1. Release(Visible(r, Item(r).product), Item(r).qty) \in StockItem
        BY <1>1, <1>2, <1>3, VisibleType, ReserveType DEF IndInv
      <3>2. Visible(r, p)' = Visible(r, p)
        BY <1>1, <1>2, <2>5, <3>1, WriteVisible
      <3>3. Wanted[r][idx[r]][p] = Wanted[r][idx[r] - 1][p]
        BY <1>2, <2>5, WantedStep DEF Item
      <3> QED
        BY <1>1, <2>1, <2>3, <3>2, <3>3 DEF LedgerAt
    <2> QED
      BY <2>4, <2>5
  <1> QED
    BY <1>6, <1>8, <1>9 DEF Self

\* Cancelling the order and answering the client keep what is reserved.
LEMMA AnswerSelf ==
  ASSUME IndInv, TypeOK', NEW r \in Requests, CancelOrder(r) \/ Respond(r)
  PROVE  Self(r)'
  <1>1. /\ Quiet /\ idx' = idx /\ steps' = steps /\ ControlAt(r)
    BY DEF CancelOrder, Respond, Quiet, database, locals, IndInv, RequestInv
  <1>2. CASE CancelOrder(r)
    <2>1. pc[r] = "cancel" /\ pc'[r] = "rollback" /\ tx[r].order # None
      BY <1>1, <1>2 DEF CancelOrder, Goto, ControlAt, IndInv, TypeOK
    <2>2. tx'[r].order # None
      <3>1. Row(Cancel(order[r])) # None
        BY TransitionType, NoOrderAssumption
           DEF Cancel, OrderStatus, EventType, IndInv, TypeOK
      <3> QED
        BY <1>2, <2>1, <3>1 DEF CancelOrder, Write, IndInv, TypeOK
    <2>3. ControlAt(r)' /\ SnapshotAt(r)' /\ StockedAt(r)'
      BY <1>1, <2>1, <2>2 DEF ControlAt, SnapshotAt, StockedAt
    <2>4. \A p \in Stocked : Held(r, p)' = Held(r, p)
      BY <1>1, <2>1 DEF Held
    <2> QED
      BY <1>1, <2>1, <2>3, <2>4, QuietLedger DEF Self
  <1>3. CASE Respond(r)
    <2>1. /\ pc[r] = "respond" /\ tx' = tx
          /\ \/ pc'[r] = "commit"
             \/ pc'[r] = "done" /\ tx[r].order = None
      BY <1>1, <1>3, SwitchAssumption DEF Respond, Goto, ControlAt, IndInv,
         TypeOK
    <2>2. ControlAt(r)' /\ SnapshotAt(r)' /\ StockedAt(r)'
      BY <1>1, <2>1 DEF ControlAt, SnapshotAt, StockedAt
    <2>3. \A p \in Stocked : Held(r, p)' = Held(r, p)
      BY <1>1, <2>1 DEF Held
    <2> QED
      BY <1>1, <2>1, <2>2, <2>3, QuietLedger DEF Self
  <1> QED
    BY <1>2, <1>3

-----------------------------------------------------------------------------
\* The invariant is inductive.

\* A request that acts keeps its own part of the invariant.
LEMMA ActSelf ==
  ASSUME IndInv, TypeOK', NEW r \in Requests, Act(r)
  PROVE  Self(r)'
  <1>1. ASSUME NEW a, RaiseOut(r, a), idx' = idx PROVE Self(r)'
    BY <1>1, EndSelf DEF RaiseOut, Goto
  <1>2. CASE \/ CheckError(r) \/ GetInProgress(r) \/ GetError(r) \/ Rollback(r)
             \/ DbError(r) \/ CompensationError(r) \/ CancelError(r) \/ DeadlockAbort(r)
    BY <1>1, <1>2 DEF CheckError, GetInProgress, GetError, Rollback, DbError,
       CompensationError, CancelError, DeadlockAbort, locals
  <1>3. CASE Arrive(r) \/ GetCompleted(r)
    BY <1>3, CheckSelf
  <1>4. CASE FetchCached(r)
    <2>1. CASE saved[result[r]].order # None
      BY <1>4, <2>1, CheckSelf DEF FetchCached, Quiet, database
    <2>2. CASE saved[result[r]].order = None
      BY <1>1, <1>4, <2>2 DEF FetchCached, locals
    <2> QED
      BY <2>1, <2>2
  <1>5. CASE CreateOrder(r) \/ ReadStock(r) \/ RereadStock(r)
    BY <1>5, CreateSelf, ReadSelf
  <1>6. CASE UpdateStock(r) \/ ReupdateStock(r)
    BY <1>6, UpdateSelf
  <1>7. CASE \/ MarkStockReserved(r) \/ PayOrder(r) \/ ConfirmOrder(r)
             \/ PublishEvents(r) \/ StoreResult(r) \/ StoreError(r)
    BY <1>7, TailSelf
  <1>8. CASE LogFailure(r) \/ RefundPayment(r)
    BY <1>8, FailureSelf
  <1>12. CASE UpdateReleased(r)
    BY <1>12, PutBackSelf
  <1>9. CASE ReleaseStock(r)
    <2>1. CASE CanRelease(Visible(r, Item(r).product), Item(r).qty)
      BY <1>9, <2>1, ReleaseSelf
    <2>2. CASE ~CanRelease(Visible(r, Item(r).product), Item(r).qty)
      BY <1>1, <1>9, <2>2 DEF ReleaseStock
    <2> QED
      BY <2>1, <2>2
  <1>10. CASE CancelOrder(r) \/ Respond(r)
    BY <1>10, AnswerSelf
  <1>11. CASE Commit(r) \/ CommitError(r)
    <2>1. idx'[r] = idx[r]
      BY <1>11 DEF Commit, CommitError, locals
    <2>2. \/ Abort(r) /\ pc' = [pc EXCEPT ![r] = "done"]
          \/ /\ CommitRows(r)
             /\ \/ pc' = [pc EXCEPT ![r] = "done"]
                \/ pc' = [pc EXCEPT ![r] = "respond"] /\ ~RespondFirst
      BY <1>11, SwitchAssumption DEF Commit, CommitError, RaiseOut, Goto
    <2> QED
      BY <2>1, <2>2, EndSelf
  <1> QED
    BY <1>2, <1>3, <1>4, <1>5, <1>6, <1>7, <1>8, <1>9, <1>10, <1>11, <1>12
       DEF Act, Serve, Fault

\* A request that acts keeps the whole invariant.
LEMMA ActInv ==
  ASSUME IndInv, NEW r \in Requests, Act(r)
  PROVE  IndInv'
  <1>1. TypeOK'
    <2>1. [Next]_vars
      BY DEF Act, Next
    <2> QED
      BY <2>1, NextType DEF IndInv
  <1>2. Quiet \/ GoodWrite(r) \/ Abort(r) \/ CommitRows(r)
    BY FourWays, UpdateIsGood, ReleaseIsGood
  <1>3. \A s \in Requests \ {r} : Untouched(s)
    BY OthersUntouched DEF IndInv
  <1>4. ASSUME NEW s \in Requests PROVE Self(s)'
    <2>1. CASE s = r
      BY <1>1, <2>1, ActSelf
    <2>2. CASE s # r
      <3>1. s \in Requests \ {r} /\ Untouched(s)
        BY <1>3, <2>2
      <3>2. /\ SnapshotAt(s)' /\ ControlAt(s)' /\ StockedAt(s)'
            /\ \A p \in Stocked : LedgerAt(s, p)'
        BY <1>1, <1>2, <3>1, OthersInv
      <3> QED
        BY <3>2 DEF Self
    <2> QED
      BY <2>1, <2>2
  <1>5. NoOversell' /\ \A p \in Stocked : LockAt(p)'
    <2>1. \A s \in Requests \ {r} : tx'[s] = tx[s]
      BY <1>3 DEF Untouched
    <2>2. \/ Abort(r) \/ CommitRows(r)
          \/ (tx[r].order # None => tx'[r].order # None)
      BY OpenTx DEF IndInv
    <2>3. \/ Quiet \/ Abort(r) \/ CommitRows(r)
          \/ GoodWrite(r) /\ tx[r].order # None
      <3>1. UpdateStock(r) \/ ReupdateStock(r) \/ UpdateReleased(r) => tx[r].order # None
        BY DEF UpdateStock, ReupdateStock, UpdateReleased, IndInv, RequestInv,
           ControlAt
      <3> QED
        BY <3>1, FourWays, UpdateIsGood, ReleaseIsGood
    <2> QED
      BY <1>1, <2>1, <2>2, <2>3, RowsInv
  <1> QED
    BY <1>1, <1>4, <1>5 DEF IndInv, TxLedger, RequestInv, Self

\* A crash leaves the committed rows and no transaction.
LEMMA CrashInv ==
  ASSUME IndInv, TypeOK', ApiCrash
  PROVE  IndInv'
  <1>1. /\ row' = row /\ dirty' = row /\ idx' = idx
        /\ lock' = [p \in Stocked |-> None]
        /\ \A r \in Requests : tx'[r].order = None /\ pc'[r] \in {"check", "done"}
        /\ \A r \in Requests : pc'[r] = "check" => pc[r] = "check"
    BY DEF ApiCrash, NoRows, Active, locals
  <1>2. NoOversell'
    BY <1>1 DEF IndInv, NoOversell
  <1>3. \A p \in Stocked : LockAt(p)'
    BY <1>1 DEF LockAt
  <1>4. TxLedger'
    BY <1>1 DEF TxLedger, LedgerAt
  <1>5. ASSUME NEW r \in Requests PROVE SnapshotAt(r)' /\ ControlAt(r)' /\ StockedAt(r)'
    <2>1. ControlAt(r)
      BY DEF IndInv, RequestInv
    <2> QED
      BY <1>1, <2>1 DEF SnapshotAt, ControlAt, StockedAt
  <1> QED
    BY <1>2, <1>3, <1>4, <1>5 DEF IndInv, RequestInv

\* Expiring keys and stuttering touch nothing the invariant speaks of.
LEMMA IdleInv ==
  ASSUME IndInv, TypeOK', UNCHANGED <<pc, locals, tx, database>>
  PROVE  IndInv'
  <1>1. \A r \in Requests : /\ SnapshotAt(r)' /\ ControlAt(r)' /\ StockedAt(r)'
                            /\ \A p \in Stocked : LedgerAt(r, p)'
    BY DEF IndInv, TxLedger, LedgerAt, Held, RequestInv, SnapshotAt, ControlAt,
       StockedAt, Visible, Item, locals, database
  <1>2. NoOversell' /\ \A p \in Stocked : LockAt(p)'
    BY DEF IndInv, NoOversell, LockAt, database
  <1> QED
    BY <1>1, <1>2 DEF IndInv, TxLedger, RequestInv

\* No order row, no lock: nothing is held at the start.
LEMMA InitIndInv == Init => IndInv
  <1> SUFFICES ASSUME Init PROVE IndInv
    OBVIOUS
  <1>1. TypeOK
    BY InitTypeOK
  <1>2. NoOversell /\ \A p \in Stocked : LockAt(p)
    BY StockAssumption DEF Init, NoOversell, LockAt
  <1>3. TxLedger
    BY DEF Init, TxLedger, LedgerAt, NoRows
  <1>4. ASSUME NEW r \in Requests PROVE SnapshotAt(r) /\ ControlAt(r) /\ StockedAt(r)
    <2>1. /\ pc[r] = "check" /\ idx[r] = 1 /\ tx[r].order = None
          /\ Len(Items[r]) \in Nat
      BY ItemsAssumption DEF Init, NoRows
    <2> QED
      BY <2>1 DEF SnapshotAt, ControlAt, StockedAt
  <1> QED
    BY <1>1, <1>2, <1>3, <1>4 DEF IndInv, RequestInv

\* Every step of every request, of a crash and of Redis keeps the invariant.
LEMMA NextIndInv == IndInv /\ [Next]_vars => IndInv'
  <1> SUFFICES ASSUME IndInv, [Next]_vars PROVE IndInv'
    OBVIOUS
  <1>1. TypeOK'
    BY NextType DEF IndInv
  <1>2. ASSUME NEW r \in Requests, Arrive(r) \/ Serve(r) \/ Fault(r)
        PROVE  IndInv'
    BY <1>2, ActInv DEF Act
  <1>3. CASE ApiCrash
    BY <1>1, <1>3, CrashInv
  <1>4. ASSUME NEW k \in Keys, ExpireKey(k) PROVE IndInv'
    BY <1>1, <1>4, IdleInv DEF ExpireKey
  <1>5. CASE UNCHANGED vars
    BY <1>1, <1>5, IdleInv DEF vars
  <1> QED
    BY <1>2, <1>3, <1>4, <1>5 DEF Next, Terminating

-----------------------------------------------------------------------------
\* The inductive invariant holds in every reachable state: the control flow
\* of execute, the row locks and the optimistic snapshots fit together.
THEOREM IndInvariant == Spec => []IndInv
  <1> QED
    BY InitIndInv, NextIndInv, PTL DEF Spec

\* Every variable keeps its type, whatever the requests, the orders, the
\* stock and the faults.
THEOREM TypeCorrect == Spec => []TypeOK
  <1>1. IndInv => TypeOK
    BY DEF IndInv
  <1> QED
    BY <1>1, IndInvariant, PTL

\* No product is ever reserved beyond what is available, committed or not,
\* for any number of concurrent requests (StockItem.reserve,
\* update_with_version).
THEOREM NeverOversold == Spec => []NoOversell
  <1>1. IndInv => NoOversell
    BY DEF IndInv
  <1> QED
    BY <1>1, IndInvariant, PTL

\* No reservation is lost or counted twice inside a transaction, and the
\* compensation gives back exactly what was taken (_reserve_stock,
\* _release_stock, update_with_version).
THEOREM LedgerBalances == Spec => []TxLedger
  <1>1. IndInv => TxLedger
    BY DEF IndInv
  <1> QED
    BY <1>1, IndInvariant, PTL

\* A committed stock row changes only together with its version, which grows
\* (update_with_version, get_db_session).
THEOREM VersionsGrow == Spec => VersionBumps
  <1> DEFINE Bumps == \A p \in Stocked : row'[p] # row[p] => row'[p].version > row[p].version
  <1>1. ASSUME IndInv, [Next]_vars PROVE Bumps
    <2>1. ASSUME NEW r \in Requests, Arrive(r) \/ Serve(r) \/ Fault(r)
          PROVE  Bumps
      <3>1. Quiet \/ GoodWrite(r) \/ Abort(r) \/ CommitRows(r)
        BY <1>1, <2>1, FourWays, UpdateIsGood, ReleaseIsGood DEF Act
      <3>2. CASE CommitRows(r)
        BY <1>1, <3>2, NoneAssumption DEF CommitRows, IndInv, TypeOK, LockAt
      <3>3. CASE Quiet \/ GoodWrite(r) \/ Abort(r)
        BY <3>3 DEF Quiet, GoodWrite, Abort
      <3> QED
        BY <3>1, <3>2, <3>3
    <2>2. CASE ApiCrash
      BY <2>2 DEF ApiCrash
    <2>3. CASE (\E k \in Keys : ExpireKey(k)) \/ UNCHANGED vars
      BY <2>3 DEF ExpireKey, vars, database
    <2> QED
      BY <1>1, <2>1, <2>2, <2>3 DEF Next, Terminating
  <1> QED
    BY <1>1, IndInvariant, PTL DEF Spec, VersionBumps
=============================================================================
