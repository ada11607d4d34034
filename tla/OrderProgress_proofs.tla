------------------------ MODULE OrderProgress_proofs ------------------------
(***************************************************************************)
(* What the end of every request rests on, for any number of requests,     *)
(* lines and products: a request has finitely many steps left, of which    *)
(* each takes one away, and requests that all wait for rows wait in a      *)
(* circle.                                                                 *)
(***************************************************************************)
EXTENDS OrderSaga_proofs, Sums_proofs

-----------------------------------------------------------------------------
\* The steps left.

\* The order has lines, the loop is at one of them or past the last, and so
\* many events are to be published.
LEMMA LoopBounds ==
  ASSUME TypeOK, NEW r \in Requests, ControlAt(r)
  PROVE  /\ Len(Items[r]) \in Nat \ {0} /\ idx[r] \in Nat \ {0}
         /\ idx[r] <= Len(Items[r]) + 1 /\ Len(order[r].events) \in Nat
<1>1. order[r].events \in Seq(EventType)
  BY DEF TypeOK, Order
<1> QED BY <1>1, ItemsAssumption DEF TypeOK, ControlAt

\* Only a request that has ended has nothing left to do.
LEMMA RemainingIsNat ==
  ASSUME TypeOK, NEW r \in Requests, ControlAt(r)
  PROVE  /\ Remaining(r) \in Nat
         /\ pc[r] # "done" => Remaining(r) > 0
         /\ pc[r] = "done" => Remaining(r) = 0
<1>1. /\ Len(Items[r]) \in Nat \ {0} /\ idx[r] \in Nat \ {0} /\ idx[r] <= Len(Items[r]) + 1
      /\ Len(order[r].events) \in Nat
  BY LoopBounds
<1> DEFINE n == Len(Items[r])
           left == n + 1 - idx[r]
           e == Len(order[r].events)
<1>2. n \in Nat /\ left \in Nat /\ e \in Nat
  BY <1>1
<1>3. pc[r] \in PC
  BY DEF TypeOK
<1> HIDE DEF left, n, e
<1>4. n + 1 - idx[r] = left /\ Len(Items[r]) = n /\ Len(order[r].events) = e
  BY DEF left, n, e
<1>5. CASE pc[r] \in {"read", "update", "reread", "reupdate", "release", "putback"}
  <2>1. Remaining(r) \in {2 * n + 11 + e + 4 * left, 2 * n + 10 + e + 4 * left,
                          2 * n + 9 + e + 4 * left, 2 * n + 8 + e + 4 * left,
                          2 + 2 * left, 1 + 2 * left}
    BY <1>4, <1>5 DEF Remaining, StepsLeft
  <2> QED BY <1>2, <1>5, <2>1
<1>6. CASE pc[r] \in {"check", "create", "mark", "pay", "confirm", "publish",
                      "store", "fail", "refund"}
  <2>1. Remaining(r) \in {6 * n + 13 + e, 6 * n + 12 + e, 2 * n + 11 + e, 2 * n + 9 + e,
                          2 * n + 7 + e, 2 * n + 5 + e, 2 * n + 5, 2 * n + 4, 2 * n + 3}
    BY <1>4, <1>6 DEF Remaining, StepsLeft
  <2> QED BY <1>2, <1>6, <2>1
<1>7. CASE pc[r] \in {"get", "fetch", "cancel", "rollback", "commit", "respond", "done"}
  <2>1. CASE pc[r] = "done"
    BY <2>1 DEF Remaining, StepsLeft
  <2>2. CASE pc[r] # "done"
    <3>1. Remaining(r) \in {1, 2, 3, 4}
      BY <1>7, <2>2 DEF Remaining, StepsLeft
    <3> QED BY <2>2, <3>1
  <2> QED BY <2>1, <2>2
<1> QED BY <1>3, <1>5, <1>6, <1>7 DEF PC

\* A request that ends has nothing left.
LEMMA EndingCounts ==
  ASSUME TypeOK, NEW r \in Requests, ControlAt(r), pc[r] # "done", Goto(r, "done")
  PROVE  Remaining(r)' < Remaining(r)
<1>1. pc'[r] = "done"
  BY DEF Goto, TypeOK
<1>2. Remaining(r)' = 0
  BY <1>1 DEF Remaining, StepsLeft
<1> QED BY <1>2, RemainingIsNat

\* Up to the saga's first step.
LEMMA CheckCounts ==
  ASSUME TypeOK, NEW r \in Requests, ControlAt(r),
         \/ CheckAndStore(r) \/ StartUnkeyed(r) \/ CheckError(r) \/ GetCompleted(r)
         \/ GetInProgress(r) \/ GetError(r) \/ FetchCached(r) \/ CreateOrder(r)
  PROVE  Remaining(r)' < Remaining(r)
<1> DEFINE n == Len(Items[r])
           e == Len(order[r].events)
           f == Len(order'[r].events)
           i == idx[r]
           j == idx'[r]
<1>1. /\ n \in Nat \ {0} /\ i \in Nat \ {0}
      /\ e \in Nat
  BY LoopBounds
<1>2. CASE CheckAndStore(r) \/ StartUnkeyed(r)
  <2>1. pc[r] = "check" /\ pc'[r] \in {"create", "get"} /\ f = e
    BY <1>2 DEF CheckAndStore, StartUnkeyed, Goto, TypeOK, locals
  <2> QED
    <3>1. Remaining(r) = 6 * n + 13 + e
      BY <2>1 DEF Remaining, StepsLeft
    <3>2. Remaining(r)' \in {6 * n + 12 + f,
                             4}
      BY <2>1 DEF Remaining, StepsLeft
    <3> HIDE DEF n, e, f, i, j
    <3> QED BY <1>1, <2>1, <3>1, <3>2
<1>3. CASE GetCompleted(r)
  <2>1. pc[r] = "get" /\ pc'[r] = "fetch"
    BY <1>3 DEF GetCompleted, Goto, TypeOK
  <2> QED BY <2>1 DEF Remaining, StepsLeft
<1>4. CASE FetchCached(r) /\ Return(r)
  <2>1. pc[r] = "fetch" /\ pc'[r] = IF RespondFirst THEN "respond" ELSE "commit"
    BY <1>4 DEF FetchCached, Return, Goto, TypeOK
  <2> QED BY <2>1, SwitchAssumption DEF Remaining, StepsLeft
<1>5. CASE CreateOrder(r)
  <2>1. /\ pc[r] = "create" /\ pc'[r] = "read" /\ j = i /\ i = 1
        /\ f = e
    BY <1>5 DEF CreateOrder, ControlAt, Goto, TypeOK
  <2> QED
    <3>1. Remaining(r) = 6 * n + 12 + e
      BY <2>1 DEF Remaining, StepsLeft
    <3>2. Remaining(r)' = 2 * n + 11 + f + 4 * (n + 1 - j)
      BY <2>1 DEF Remaining, StepsLeft
    <3> HIDE DEF n, e, f, i, j
    <3> QED BY <1>1, <2>1, <3>1, <3>2
<1>6. CASE \/ CheckError(r) \/ GetInProgress(r) \/ GetError(r)
           \/ FetchCached(r) /\ ~Return(r)
  <2>1. pc[r] # "done" /\ Goto(r, "done")
    BY <1>6 DEF CheckError, GetInProgress, GetError, FetchCached, RaiseOut
  <2> QED BY <2>1, EndingCounts
<1> QED BY <1>2, <1>3, <1>4, <1>5, <1>6

\* The loop over the lines: an update goes to the next line, to the one retry
\* or to the handler.
LEMMA LoopCounts ==
  ASSUME TypeOK, NEW r \in Requests, ControlAt(r),
         ReadStock(r) \/ UpdateStock(r) \/ RereadStock(r) \/ ReupdateStock(r)
  PROVE  Remaining(r)' < Remaining(r)
<1> DEFINE n == Len(Items[r])
           e == Len(order[r].events)
           f == Len(order'[r].events)
           i == idx[r]
           j == idx'[r]
<1>1. /\ n \in Nat \ {0} /\ i \in Nat \ {0}
      /\ i <= n /\ e \in Nat /\ f = e
  BY LoopBounds DEF TryUpdate, ControlAt, ReadStock, UpdateStock, RereadStock, ReupdateStock
<1>2. CASE ReadStock(r)
  <2>1. /\ pc[r] = "read" /\ pc'[r] \in {"update", "fail"} /\ j = i
    BY <1>2 DEF ReadStock, Goto, TypeOK
  <2> QED
    <3>1. Remaining(r) = 2 * n + 11 + e + 4 * (n + 1 - i)
      BY <2>1 DEF Remaining, StepsLeft
    <3>2. Remaining(r)' \in {2 * n + 10 + f + 4 * (n + 1 - j),
                             2 * n + 4}
      BY <2>1 DEF Remaining, StepsLeft
    <3> HIDE DEF n, e, f, i, j
    <3> QED BY <1>1, <2>1, <3>1, <3>2
<1>3. CASE RereadStock(r)
  <2>1. /\ pc[r] = "reread" /\ pc'[r] \in {"reupdate", "fail"} /\ j = i
    BY <1>3 DEF RereadStock, Goto, TypeOK
  <2> QED
    <3>1. Remaining(r) = 2 * n + 9 + e + 4 * (n + 1 - i)
      BY <2>1 DEF Remaining, StepsLeft
    <3>2. Remaining(r)' \in {2 * n + 8 + f + 4 * (n + 1 - j),
                             2 * n + 4}
      BY <2>1 DEF Remaining, StepsLeft
    <3> HIDE DEF n, e, f, i, j
    <3> QED BY <1>1, <2>1, <3>1, <3>2
<1>4. ASSUME NEW label, TryUpdate(r, label)
      PROVE  \/ pc'[r] = label /\ j = i
             \/ pc'[r] = "read" /\ j = i + 1
             \/ pc'[r] = "mark" /\ j = i + 1
  BY <1>4 DEF TryUpdate, NextItem, Goto, TypeOK
<1>5. CASE UpdateStock(r)
  <2>1. /\ pc[r] = "update"
        /\ \/ pc'[r] = "reread" /\ j = i
           \/ pc'[r] = "read" /\ j = i + 1
           \/ pc'[r] = "mark" /\ j = i + 1
    BY <1>4, <1>5 DEF UpdateStock
  <2>2. CASE pc'[r] = "reread" /\ j = i
    <3>1. Remaining(r) = 2 * n + 10 + e + 4 * (n + 1 - i)
      BY <2>1, <2>2 DEF Remaining, StepsLeft
    <3>2. Remaining(r)' = 2 * n + 9 + f + 4 * (n + 1 - j)
      BY <2>1, <2>2 DEF Remaining, StepsLeft
    <3> HIDE DEF n, e, f, i, j
    <3> QED BY <1>1, <2>1, <2>2, <3>1, <3>2
  <2>3. CASE pc'[r] = "read" /\ j = i + 1
    <3>1. Remaining(r) = 2 * n + 10 + e + 4 * (n + 1 - i)
      BY <2>1, <2>3 DEF Remaining, StepsLeft
    <3>2. Remaining(r)' = 2 * n + 11 + f + 4 * (n + 1 - j)
      BY <2>1, <2>3 DEF Remaining, StepsLeft
    <3> HIDE DEF n, e, f, i, j
    <3> QED BY <1>1, <2>1, <2>3, <3>1, <3>2
  <2>4. CASE pc'[r] = "mark" /\ j = i + 1
    <3>1. Remaining(r) = 2 * n + 10 + e + 4 * (n + 1 - i)
      BY <2>1, <2>4 DEF Remaining, StepsLeft
    <3>2. Remaining(r)' = 2 * n + 11 + f
      BY <2>1, <2>4 DEF Remaining, StepsLeft
    <3> HIDE DEF n, e, f, i, j
    <3> QED BY <1>1, <2>1, <2>4, <3>1, <3>2
  <2> QED BY <2>1, <2>2, <2>3, <2>4
<1>6. CASE ReupdateStock(r)
  <2>1. /\ pc[r] = "reupdate"
        /\ \/ pc'[r] = "fail" /\ j = i
           \/ pc'[r] = "read" /\ j = i + 1
           \/ pc'[r] = "mark" /\ j = i + 1
    BY <1>4, <1>6 DEF ReupdateStock
  <2>2. CASE pc'[r] = "fail" /\ j = i
    <3>1. Remaining(r) = 2 * n + 8 + e + 4 * (n + 1 - i)
      BY <2>1, <2>2 DEF Remaining, StepsLeft
    <3>2. Remaining(r)' = 2 * n + 4
      BY <2>1, <2>2 DEF Remaining, StepsLeft
    <3> HIDE DEF n, e, f, i, j
    <3> QED BY <1>1, <2>1, <2>2, <3>1, <3>2
  <2>3. CASE pc'[r] = "read" /\ j = i + 1
    <3>1. Remaining(r) = 2 * n + 8 + e + 4 * (n + 1 - i)
      BY <2>1, <2>3 DEF Remaining, StepsLeft
    <3>2. Remaining(r)' = 2 * n + 11 + f + 4 * (n + 1 - j)
      BY <2>1, <2>3 DEF Remaining, StepsLeft
    <3> HIDE DEF n, e, f, i, j
    <3> QED BY <1>1, <2>1, <2>3, <3>1, <3>2
  <2>4. CASE pc'[r] = "mark" /\ j = i + 1
    <3>1. Remaining(r) = 2 * n + 8 + e + 4 * (n + 1 - i)
      BY <2>1, <2>4 DEF Remaining, StepsLeft
    <3>2. Remaining(r)' = 2 * n + 11 + f
      BY <2>1, <2>4 DEF Remaining, StepsLeft
    <3> HIDE DEF n, e, f, i, j
    <3> QED BY <1>1, <2>1, <2>4, <3>1, <3>2
  <2> QED BY <2>1, <2>2, <2>3, <2>4
<1> QED BY <1>2, <1>3, <1>5, <1>6

\* The steps after the reservation.
LEMMA StepCounts ==
  ASSUME TypeOK, NEW r \in Requests, ControlAt(r),
         \/ MarkStockReserved(r) \/ PayOrder(r) \/ ConfirmOrder(r)
         \/ PublishEvents(r) \/ StoreResult(r) \/ StoreError(r)
  PROVE  Remaining(r)' < Remaining(r)
<1> DEFINE n == Len(Items[r])
           e == Len(order[r].events)
           f == Len(order'[r].events)
           i == idx[r]
           j == idx'[r]
<1>1. n \in Nat \ {0} /\ e \in Nat
  BY LoopBounds
<1>2. ASSUME NEW allowed, NEW status \in OrderStatus, NEW event \in EventType,
             NEW entries, NEW label,
             CompleteStep(r, allowed, Transition(order[r], status, event), entries, label)
      PROVE  \/ pc'[r] = "fail"
             \/ pc'[r] = label /\ f = e + 1
  <2>1. order[r] \in Order /\ order[r].events \in Seq(EventType)
    BY DEF TypeOK, Order
  <2>2. Transition(order[r], status, event).events = Append(order[r].events, event)
    BY DEF Transition
  <2>3. Len(Transition(order[r], status, event).events) = e + 1
    BY <2>1, <2>2
  <2> QED BY <1>2, <2>3 DEF CompleteStep, Goto, TypeOK
<1>3. CASE MarkStockReserved(r)
  <2>1. /\ pc[r] = "mark"
        /\ \/ pc'[r] = "fail"
           \/ pc'[r] = "pay" /\ f = e + 1
    BY <1>2, <1>3 DEF MarkStockReserved, ReserveStock, OrderStatus, EventType
  <2> QED
    <3>1. Remaining(r) = 2 * n + 11 + e
      BY <2>1 DEF Remaining, StepsLeft
    <3>2. \/ Remaining(r)' = 2 * n + 4
          \/ Remaining(r)' = 2 * n + 9 + f /\ f = e + 1
      BY <2>1 DEF Remaining, StepsLeft
    <3> HIDE DEF n, e, f, i, j
    <3> QED BY <1>1, <2>1, <3>1, <3>2
<1>4. CASE PayOrder(r)
  <2>1. /\ pc[r] = "pay"
        /\ \/ pc'[r] = "fail"
           \/ pc'[r] = "confirm" /\ f = e + 1
    BY <1>2, <1>4 DEF PayOrder, ProcessPayment, OrderStatus, EventType
  <2> QED
    <3>1. Remaining(r) = 2 * n + 9 + e
      BY <2>1 DEF Remaining, StepsLeft
    <3>2. \/ Remaining(r)' = 2 * n + 4
          \/ Remaining(r)' = 2 * n + 7 + f /\ f = e + 1
      BY <2>1 DEF Remaining, StepsLeft
    <3> HIDE DEF n, e, f, i, j
    <3> QED BY <1>1, <2>1, <3>1, <3>2
<1>5. CASE ConfirmOrder(r)
  <2>1. /\ pc[r] = "confirm"
        /\ \/ pc'[r] = "fail"
           \/ pc'[r] = "publish" /\ f = e + 1
    BY <1>2, <1>5 DEF ConfirmOrder, Confirm, OrderStatus, EventType
  <2> QED
    <3>1. Remaining(r) = 2 * n + 7 + e
      BY <2>1 DEF Remaining, StepsLeft
    <3>2. \/ Remaining(r)' = 2 * n + 4
          \/ Remaining(r)' = 2 * n + 5 + f /\ f = e + 1
      BY <2>1 DEF Remaining, StepsLeft
    <3> HIDE DEF n, e, f, i, j
    <3> QED BY <1>1, <2>1, <3>1, <3>2
<1>6. CASE PublishEvents(r)
  <2>1. /\ pc[r] = "publish" /\ order[r].events \in Seq(EventType)
        /\ order[r].events # <<>> /\ order'[r].events = Tail(order[r].events)
    BY <1>6 DEF PublishEvents, ControlAt, TypeOK, Order
  <2>2. f = e - 1
    BY <2>1
  <2>3. \/ pc'[r] = "publish"
        \/ pc'[r] = "store"
        \/ pc'[r] = IF RespondFirst THEN "respond" ELSE "commit"
    BY <1>6 DEF PublishEvents, Published, Return, Goto, TypeOK
  <2>4. CASE pc'[r] = "publish"
    <3>1. Remaining(r) = 2 * n + 5 + e
      BY <2>1, <2>2, <2>4 DEF Remaining, StepsLeft
    <3>2. Remaining(r)' = 2 * n + 5 + f
      BY <2>1, <2>2, <2>4 DEF Remaining, StepsLeft
    <3> HIDE DEF n, e, f, i, j
    <3> QED BY <1>1, <2>1, <2>2, <2>4, <3>1, <3>2
  <2>5. CASE pc'[r] # "publish"
    <3>1. Remaining(r) = 2 * n + 5 + e
      BY <2>1 DEF Remaining, StepsLeft
    <3>2. Remaining(r)' = 2 * n + 5 \/ Remaining(r)' \in {1, 2}
      BY <2>3, <2>5, SwitchAssumption DEF Remaining, StepsLeft
    <3>3. e # 0
      BY <2>1
    <3> HIDE DEF n, e, f, i, j
    <3> QED BY <1>1, <3>1, <3>2, <3>3
  <2> QED BY <2>4, <2>5
<1>7. CASE StoreResult(r) \/ StoreError(r)
  <2>1. /\ pc[r] = "store"
        /\ pc'[r] \in {"fail", IF RespondFirst THEN "respond" ELSE "commit"}
    BY <1>7 DEF StoreResult, StoreError, Return, Goto, TypeOK
  <2>2. Remaining(r) = 2 * n + 5
    BY <2>1 DEF Remaining, StepsLeft
  <2>3. Remaining(r)' = 2 * n + 4 \/ Remaining(r)' \in {1, 2}
    BY <2>1, SwitchAssumption DEF Remaining, StepsLeft
  <2> HIDE DEF n
  <2> QED BY <1>1, <2>2, <2>3
<1> QED BY <1>3, <1>4, <1>5, <1>6, <1>7

\* The handler: one read and one update for each line, once.
LEMMA HandlerCounts ==
  ASSUME TypeOK, NEW r \in Requests, ControlAt(r),
         \/ LogFailure(r) \/ RefundPayment(r) \/ ReleaseStock(r)
         \/ UpdateReleased(r) \/ CancelOrder(r) \/ Rollback(r)
  PROVE  Remaining(r)' < Remaining(r)
<1> DEFINE n == Len(Items[r])
           e == Len(order[r].events)
           f == Len(order'[r].events)
           i == idx[r]
           j == idx'[r]
<1>1. n \in Nat \ {0} /\ i \in Nat \ {0} /\ steps[r] \in 0 .. 4
  BY LoopBounds DEF TypeOK
<1>2. CASE LogFailure(r)
  <2>1. /\ pc[r] = "fail"
        /\ pc'[r] \in {"refund", "release", "cancel"}
        /\ pc'[r] = "release" => j = 1
    BY <1>1, <1>2 DEF LogFailure, Goto, TypeOK
  <2> QED
    <3>1. Remaining(r) = 2 * n + 4
      BY <2>1 DEF Remaining, StepsLeft
    <3>2. \/ Remaining(r)' = 2 * n + 3
          \/ Remaining(r)' = 2 + 2 * (n + 1 - j) /\ j = 1
          \/ Remaining(r)' = 2
      BY <2>1 DEF Remaining, StepsLeft
    <3> HIDE DEF n, e, f, i, j
    <3> QED BY <1>1, <2>1, <3>1, <3>2
<1>3. CASE RefundPayment(r)
  <2>1. pc[r] = "refund" /\ pc'[r] = "release" /\ j = i /\ i = 1
    BY <1>3 DEF RefundPayment, ControlAt, Goto, TypeOK, locals
  <2> QED
    <3>1. Remaining(r) = 2 * n + 3
      BY <2>1 DEF Remaining, StepsLeft
    <3>2. Remaining(r)' = 2 + 2 * (n + 1 - j)
      BY <2>1 DEF Remaining, StepsLeft
    <3> HIDE DEF n, e, f, i, j
    <3> QED BY <1>1, <2>1, <3>1, <3>2
<1>4. CASE ReleaseStock(r) /\ ~Goto(r, "done")
  <2>1. /\ pc[r] = "release" /\ i <= n /\ j = i
        /\ pc'[r] = "putback"
    BY <1>4 DEF ReleaseStock, RaiseOut, ControlAt, Goto, TypeOK
  <2> QED
    <3>1. Remaining(r) = 2 + 2 * (n + 1 - i)
      BY <2>1 DEF Remaining, StepsLeft
    <3>2. Remaining(r)' = 1 + 2 * (n + 1 - j)
      BY <2>1 DEF Remaining, StepsLeft
    <3> HIDE DEF n, e, f, i, j
    <3> QED BY <1>1, <2>1, <3>1, <3>2
<1>7. CASE UpdateReleased(r)
  <2>1. /\ pc[r] = "putback" /\ i <= n /\ j = i + 1
        /\ pc'[r] = "release" \/ pc'[r] = "cancel"
    BY <1>7 DEF UpdateReleased, ControlAt, NextItem, Goto, TypeOK
  <2> QED
    <3>1. Remaining(r) = 1 + 2 * (n + 1 - i)
      BY <2>1 DEF Remaining, StepsLeft
    <3>2. Remaining(r)' \in {2 + 2 * (n + 1 - j),
                             2}
      BY <2>1 DEF Remaining, StepsLeft
    <3> HIDE DEF n, e, f, i, j
    <3> QED BY <1>1, <2>1, <3>1, <3>2
<1>5. CASE CancelOrder(r)
  <2>1. pc[r] = "cancel" /\ pc'[r] = "rollback"
    BY <1>5 DEF CancelOrder, Goto, TypeOK
  <2> QED BY <2>1 DEF Remaining, StepsLeft
<1>6. CASE Rollback(r) \/ (ReleaseStock(r) /\ Goto(r, "done"))
  <2>1. pc[r] # "done" /\ Goto(r, "done")
    BY <1>6 DEF Rollback, ReleaseStock, RaiseOut
  <2> QED BY <2>1, EndingCounts
<1> QED BY <1>2, <1>3, <1>4, <1>5, <1>6, <1>7

\* The end of the request.
LEMMA EndCounts ==
  ASSUME TypeOK, NEW r \in Requests, ControlAt(r),
         \/ Commit(r) \/ CommitError(r) \/ Respond(r) \/ DbError(r)
         \/ CompensationError(r) \/ CancelError(r) \/ DeadlockAbort(r)
  PROVE  Remaining(r)' < Remaining(r)
<1>1. CASE Commit(r)
  <2>1. pc[r] = "commit" /\ pc'[r] = IF RespondFirst THEN "done" ELSE "respond"
    BY <1>1 DEF Commit, Goto, TypeOK
  <2> QED BY <2>1, SwitchAssumption DEF Remaining, StepsLeft
<1>2. CASE Respond(r)
  <2>1. pc[r] = "respond" /\ pc'[r] = IF RespondFirst THEN "commit" ELSE "done"
    BY <1>2 DEF Respond, Goto, TypeOK
  <2> QED BY <2>1, SwitchAssumption DEF Remaining, StepsLeft
<1>3. CASE DeadlockAbort(r)
  <2>1. pc[r] # "done" /\ Goto(r, "done")
    BY <1>3 DEF DeadlockAbort, InDeadlock, WaitsFor, RaiseOut
  <2> QED BY <2>1, EndingCounts
<1>4. CASE CommitError(r) \/ DbError(r) \/ CompensationError(r) \/ CancelError(r)
  <2>1. pc[r] # "done" /\ Goto(r, "done")
    BY <1>4 DEF CommitError, DbError, CompensationError, CancelError, RaiseOut
  <2> QED BY <2>1, EndingCounts
<1> QED BY <1>1, <1>2, <1>3, <1>4

\* A request's own step takes one of its steps away, whatever happens in it.
LEMMA ActCounts ==
  ASSUME TypeOK, NEW r \in Requests, ControlAt(r), Act(r)
  PROVE  Remaining(r)' < Remaining(r)
<1>1. CASE \/ Arrive(r) \/ CheckError(r) \/ GetCompleted(r) \/ GetInProgress(r)
           \/ GetError(r) \/ FetchCached(r) \/ CreateOrder(r)
  BY <1>1, CheckCounts DEF Arrive
<1>2. CASE ReadStock(r) \/ UpdateStock(r) \/ RereadStock(r) \/ ReupdateStock(r)
  BY <1>2, LoopCounts
<1>3. CASE \/ MarkStockReserved(r) \/ PayOrder(r) \/ ConfirmOrder(r)
           \/ PublishEvents(r) \/ StoreResult(r) \/ StoreError(r)
  BY <1>3, StepCounts
<1>4. CASE \/ LogFailure(r) \/ RefundPayment(r) \/ ReleaseStock(r)
           \/ UpdateReleased(r) \/ CancelOrder(r) \/ Rollback(r)
  BY <1>4, HandlerCounts
<1>5. CASE \/ Commit(r) \/ CommitError(r) \/ Respond(r) \/ DbError(r)
           \/ CompensationError(r) \/ CancelError(r) \/ DeadlockAbort(r)
  BY <1>5, EndCounts
<1> QED BY <1>1, <1>2, <1>3, <1>4, <1>5 DEF Act, Serve, Fault

\* A request whose control does not move has as much left as before.
LEMMA StandingCounts ==
  ASSUME NEW r, pc'[r] = pc[r], idx'[r] = idx[r], order'[r] = order[r]
  PROVE  Remaining(r)' = Remaining(r)
BY DEF Remaining

\* No request goes back, and one of them goes on, unless the process dies or a
\* key expires: neither a retry nor a loop of execute is without end, whatever
\* the interleaving (_reserve_stock, _compensate, _release_stock).
THEOREM StepsCount == Spec => NoStepInVain
<1> DEFINE NoneBack == \A r \in Requests : Remaining(r)' <= Remaining(r)
           Goes == \E r \in Requests : Remaining(r)' < Remaining(r)
           Expires == \E k \in Keys : key[k].status # "absent" /\ key'[k].status = "absent"
           Counts == NoneBack /\ (Goes \/ crashes' > crashes \/ Expires)
           Left == \A r \in Requests : Remaining(r) \in Nat
<1>1. IndInv => Left
  BY RemainingIsNat DEF IndInv, RequestInv
<1>2. (IndInv => Left)'
  BY <1>1, PTL
<1>3. ASSUME IndInv, IndInv', Next
      PROVE  Counts \/ UNCHANGED vars
  <2>1. \A r \in Requests : ControlAt(r) /\ Remaining(r) \in Nat
    BY <1>3, RemainingIsNat DEF IndInv, RequestInv
  <2>2. ASSUME NEW r \in Requests, Act(r)
        PROVE  Counts
    <3>1. Remaining(r)' < Remaining(r)
      BY <1>3, <2>1, <2>2, ActCounts DEF IndInv
    <3>2. \A s \in Requests \ {r} : Remaining(s)' = Remaining(s)
      BY <1>3, <2>2, OthersUntouched, StandingCounts DEF IndInv, Untouched
    <3>3. Left'
      BY <1>3, <1>2
    <3>4. NoneBack
      BY <2>1, <3>1, <3>2, <3>3
    <3> QED BY <2>2, <3>1, <3>4
  <2>3. CASE ApiCrash
    <3>1. crashes \in Nat /\ crashes' = crashes + 1
      BY <1>3, <2>3, SwitchAssumption DEF ApiCrash, IndInv, TypeOK
    <3>2. ASSUME NEW r \in Requests PROVE Remaining(r)' <= Remaining(r)
      <4>1. /\ idx'[r] = idx[r] /\ order'[r] = order[r]
            /\ pc'[r] = pc[r] \/ pc'[r] = "done"
        BY <1>3, <2>3 DEF ApiCrash, locals
      <4>2. CASE pc'[r] = pc[r]
        BY <2>1, <4>1, <4>2, StandingCounts
      <4>3. CASE pc'[r] = "done"
        <5>1. Remaining(r)' = 0
          BY <4>3 DEF Remaining, StepsLeft
        <5> QED BY <2>1, <5>1
      <4> QED BY <4>1, <4>2, <4>3
    <3> QED BY <3>1, <3>2
  <2>4. ASSUME NEW k \in Keys, ExpireKey(k)
        PROVE  Counts
    <3>1. pc' = pc /\ idx' = idx /\ order' = order
      BY <2>4 DEF ExpireKey, locals
    <3>2. NoneBack
      BY <2>1, <3>1, StandingCounts
    <3>3. key[k].status # "absent" /\ key'[k].status = "absent"
      BY <1>3, <2>4 DEF ExpireKey, Absent, IndInv, TypeOK
    <3> QED BY <3>2, <3>3
  <2> QED BY <1>3, <2>2, <2>3, <2>4 DEF Next, Act, Terminating
<1>4. IndInv /\ IndInv' /\ [Next]_vars => [Counts]_vars
  BY <1>3
<1> QED BY <1>4, IndInvariant, PTL DEF Spec, NoStepInVain

-----------------------------------------------------------------------------
\* The waits.

\* The requests that have arrived.
Arrived == {r \in Requests : pc[r] # "check"}

\* One more request may arrive with a step.
LEMMA ArrivalsAreFew ==
  ASSUME TypeOK, IsFiniteSet(Arrived), [Next]_vars
  PROVE  IsFiniteSet(Arrived')
<1>1. ASSUME NEW r \in Requests, Act(r)
      PROVE  Arrived' \subseteq Arrived \cup {r}
  BY <1>1, OthersUntouched DEF Arrived, Untouched
<1>2. ASSUME ApiCrash \/ (\E k \in Keys : ExpireKey(k)) \/ UNCHANGED vars
      PROVE  Arrived' \subseteq Arrived
  BY <1>2 DEF Arrived, ApiCrash, Active, ExpireKey, vars
<1>3. (\E r \in Requests : Arrived' \subseteq Arrived \cup {r}) \/ Arrived' \subseteq Arrived
  BY <1>1, <1>2 DEF Next, Act, Terminating
<1> QED BY <1>3, FS_AddElement, FS_Subset

\* The requests that wait, if each waits for one of them, contain a circle.
LEMMA WaitersMeet ==
  ASSUME NEW A \in SUBSET Requests, IsFiniteSet(A), A # {},
         \A a \in A : \E b \in A : WaitsFor(a, b)
  PROVE  \E r \in A : InDeadlock(r)
<1> DEFINE Closed(S) == S # {} /\ \A a \in S : \E b \in S : WaitsFor(a, b)
           Sets == {S \in SUBSET A : Closed(S)}
<1>1. A \in Sets
  OBVIOUS
<1>2. Sets \in SUBSET SUBSET A /\ Sets # {}
  BY <1>1
<1>3. PICK S \in Sets : \A U \in Sets : U \subseteq S => U = S
  <2> HIDE DEF Sets
  <2> QED BY <1>2, MinimalException
<1> DEFINE AwaitedIn == {b \in S : \E a \in S : WaitsFor(a, b)}
<1>4. S \subseteq A /\ Closed(S)
  BY <1>3
<1>5. AwaitedIn \in Sets
  <2>1. AwaitedIn # {}
    BY <1>4
  <2>2. ASSUME NEW a \in AwaitedIn
        PROVE  \E b \in AwaitedIn : WaitsFor(a, b)
    BY <1>4, <2>2
  <2> QED BY <1>4, <2>1, <2>2
<1>6. AwaitedIn = S
  BY <1>3, <1>5
<1>7. \A a \in S : (\E b \in S : WaitsFor(a, b)) /\ (\E b \in S : WaitsFor(b, a))
  BY <1>4, <1>6
<1>8. PICK r \in S : TRUE
  BY <1>4
<1>9. InDeadlock(r)
  BY <1>4, <1>7, <1>8 DEF InDeadlock
<1> QED BY <1>4, <1>8, <1>9

\* The holder of a row is in its transaction.
LEMMA HolderIsActive ==
  ASSUME IndInv, NEW r \in Requests, NEW s \in Requests, WaitsFor(r, s)
  PROVE  Active(s)
<1>1. /\ Item(r).product \in Stocked
      /\ lock[Item(r).product] = s
  BY DEF IndInv, RequestInv, ControlAt, WaitsFor
<1>2. tx[s].order # None
  BY <1>1, NoneAssumption DEF IndInv, LockAt
<1> QED BY <1>2 DEF IndInv, RequestInv, ControlAt, Active

\* Nobody waits for a request that has ended, and not all that are under way
\* wait without PostgreSQL seeing a circle: with StepsCount, what the end of
\* every request rests on (update_with_version, get_db_session).
THEOREM WaitsAreBroken == Spec => []SomeoneGoesOn
<1>1. Init => IsFiniteSet(Arrived)
  <2>1. Init => Arrived = {}
    BY DEF Init, Arrived
  <2> QED BY <2>1, FS_EmptySet
<1>2. IndInv /\ IsFiniteSet(Arrived) /\ [Next]_vars => IsFiniteSet(Arrived)'
  BY ArrivalsAreFew DEF IndInv
<1>3. IndInv /\ IsFiniteSet(Arrived) => SomeoneGoesOn
  <2> SUFFICES ASSUME IndInv, IsFiniteSet(Arrived)
               PROVE  SomeoneGoesOn
    OBVIOUS
  <2>1. \A r, s \in Requests : WaitsFor(r, s) => Active(s)
    BY HolderIsActive
  <2> DEFINE Served == {r \in Requests : Active(r)}
  <2>2. IsFiniteSet(Served)
    <3>1. Served \subseteq Arrived
      BY DEF Active, Arrived
    <3> QED BY <3>1, FS_Subset
  <2>3. ASSUME Served # {}, \A r \in Served : \E s \in Requests : WaitsFor(r, s)
        PROVE  \E r \in Served : InDeadlock(r)
    BY <2>1, <2>2, <2>3, WaitersMeet
  <2> QED BY <2>1, <2>3 DEF SomeoneGoesOn
<1> QED BY <1>1, <1>2, <1>3, IndInvariant, PTL DEF Spec

==============================================================================
