-------------------------- MODULE MemorySaga_proofs --------------------------
(***************************************************************************)
(* Proofs about MemorySaga, for any orders, lines, keys and stock, and any *)
(* sequence of calls.                                                      *)
(***************************************************************************)
EXTENDS MemorySaga, Sums_proofs

-----------------------------------------------------------------------------
\* Lists of events and entries.

\* Two lists one after the other hold what both hold.
LEMMA ElementsOfBoth ==
  ASSUME NEW S, NEW s \in Seq(S), NEW t \in Seq(S)
  PROVE  Elements(s \o t) = Elements(s) \cup Elements(t)
  <1>1. /\ Len(s) \in Nat /\ Len(t) \in Nat
        /\ DOMAIN s = 1 .. Len(s) /\ DOMAIN t = 1 .. Len(t)
        /\ DOMAIN (s \o t) = 1 .. Len(s) + Len(t)
    OBVIOUS
  <1>2. \A i \in 1 .. Len(s) + Len(t) :
          (s \o t)[i] = IF i <= Len(s) THEN s[i] ELSE t[i - Len(s)]
    OBVIOUS
  <1>3. ASSUME NEW e \in Elements(s \o t) PROVE e \in Elements(s) \cup Elements(t)
    <2>1. PICK i \in 1 .. Len(s) + Len(t) : e = (s \o t)[i]
      BY <1>1 DEF Elements
    <2>2. CASE i <= Len(s)
      BY <1>1, <1>2, <2>1, <2>2 DEF Elements
    <2>3. CASE ~(i <= Len(s))
      <3>1. e = t[i - Len(s)] /\ i - Len(s) \in DOMAIN t
        BY <1>1, <1>2, <2>1, <2>3
      <3> QED
        BY <3>1 DEF Elements
    <2> QED
      BY <2>2, <2>3
  <1>4. ASSUME NEW e \in Elements(s) PROVE e \in Elements(s \o t)
    <2>1. PICK i \in 1 .. Len(s) : e = s[i]
      BY <1>1 DEF Elements
    <2>2. e = (s \o t)[i] /\ i \in DOMAIN (s \o t)
      BY <1>1, <1>2, <2>1
    <2> QED
      BY <2>2 DEF Elements
  <1>5. ASSUME NEW e \in Elements(t) PROVE e \in Elements(s \o t)
    <2>1. PICK i \in 1 .. Len(t) : e = t[i]
      BY <1>1 DEF Elements
    <2>2. Len(s) + i \in 1 .. Len(s) + Len(t) /\ ~(Len(s) + i <= Len(s))
      BY <1>1
    <2>3. e = (s \o t)[Len(s) + i] /\ Len(s) + i \in DOMAIN (s \o t)
      BY <1>1, <1>2, <2>1, <2>2
    <2> QED
      BY <2>3 DEF Elements
  <1> QED
    BY <1>3, <1>4, <1>5

LEMMA EventsOfBoth ==
  ASSUME NEW s \in Seq(EventType), NEW t \in Seq(EventType)
  PROVE  Elements(s \o t) = Elements(s) \cup Elements(t)
  BY ElementsOfBoth

LEMMA EntriesOfBoth ==
  ASSUME NEW s \in Seq(LogEntry), NEW t \in Seq(LogEntry)
  PROVE  Elements(s \o t) = Elements(s) \cup Elements(t)
  BY ElementsOfBoth

\* What is appended last is found last.
LEMMA LastOfThree ==
  ASSUME NEW s \in Seq(LogEntry), NEW t \in Seq(LogEntry), NEW e \in LogEntry
  PROVE  /\ s \o (t \o <<e>>) \in Seq(LogEntry)
         /\ (s \o (t \o <<e>>))[Len(s \o (t \o <<e>>))] = e
  <1>1. t \o <<e>> \in Seq(LogEntry) /\ Len(t \o <<e>>) = Len(t) + 1 /\ Len(t) \in Nat
    OBVIOUS
  <1>2. (t \o <<e>>)[Len(t) + 1] = e
    OBVIOUS
  <1> DEFINE u == t \o <<e>>
  <1>3. u \in Seq(LogEntry) /\ Len(u) = Len(t) + 1 /\ u[Len(u)] = e
    BY <1>1, <1>2
  <1> HIDE DEF u
  <1>4. s \o u \in Seq(LogEntry) /\ Len(s \o u) = Len(s) + Len(u) /\ Len(s) \in Nat
    BY <1>3
  <1>5. (s \o u)[Len(s) + Len(u)] = u[Len(u)]
    BY <1>1, <1>3
  <1> QED
    BY <1>3, <1>4, <1>5 DEF u

\* A transition method sets the status and adds one event.
LEMMA TransitionType ==
  ASSUME NEW o \in Order, NEW st \in OrderStatus, NEW e \in EventType
  PROVE  /\ Transition(o, st, e) \in Order
         /\ Transition(o, st, e).status = st
         /\ Transition(o, st, e).events = Append(o.events, e)
  BY DEF Transition, Order

-----------------------------------------------------------------------------
\* Reservations.

\* Every nonempty set of naturals has a least element.
LEMMA LeastNat ==
  ASSUME NEW T \in SUBSET Nat, T # {}
  PROVE  \E x \in T : \A y \in T : x <= y
  <1>1. PICK x \in T : \A y \in T : <<y, x>> \notin OpToRel(<, Nat)
    BY NatLessThanWellFounded, WFMin
  <1>2. \A y \in T : ~(y < x)
    BY <1>1 DEF OpToRel
  <1> QED
    BY <1>2

\* How often a product is named is a number.
LEMMA RepeatsType ==
  ASSUME NEW o \in Orders, NEW i \in 0 .. Len(Items[o]), NEW p
  PROVE  Repeats(o, i, p) \in Nat
  <1>1. Len(Items[o]) \in Nat
    BY OrdersAssumption
  <1>2. IsFiniteSet(1 .. i)
    BY <1>1, FS_Interval
  <1>3. IsFiniteSet({j \in 1 .. i : Items[o][j].product = p})
    BY <1>2, FS_Subset
  <1> QED
    BY <1>3, FS_CardinalityType DEF Repeats

\* A line that passes adds no more than is left.
LEMMA OneMoreLine ==
  ASSUME NEW r \in Nat, NEW a \in Nat, NEW v \in Nat, NEW q \in Nat, NEW w \in Nat,
         a - (r + v) >= q, w = v + q
  PROVE  r + w <= a
  OBVIOUS

\* Lines that pass one after the other fit into the stock together: the first
\* that would not fit does not pass.
LEMMA PassingFits ==
  ASSUME TypeOK, NoOversell, NEW o \in Orders, NEW n \in 0 .. Len(Items[o]),
         \A j \in 1 .. n : Passes(o, j), NEW p \in Stocked
  PROVE  stock[p].reserved + Wanted[o][n][p] <= stock[p].available
  <1> DEFINE over == {i \in 0 .. n : stock[p].reserved + Wanted[o][i][p] > stock[p].available}
  <1>1. /\ Items[o] \in Seq(OrderItem) /\ Len(Items[o]) \in Nat /\ n \in Nat
        /\ stock[p] \in StockItem /\ stock[p].reserved <= stock[p].available
        /\ stock[p].reserved \in Nat /\ stock[p].available \in Nat
    BY OrdersAssumption DEF TypeOK, NoOversell, StockItem
  <1>2. /\ Wanted[o] \in [0 .. Len(Items[o]) -> [Stocked -> Nat]]
        /\ Wanted[o][0][p] = 0
        /\ \A i \in 1 .. Len(Items[o]) :
             Wanted[o][i][p] = Wanted[o][i - 1][p]
                 + (IF Items[o][i].product = p THEN Items[o][i].qty ELSE 0)
    BY PrefixAssumption
  <1>3. ASSUME NEW i \in 0 .. n PROVE Wanted[o][i][p] \in Nat
    <2>1. i \in 0 .. Len(Items[o])
      BY <1>1
    <2>2. Wanted[o][i] \in [Stocked -> Nat]
      BY <1>2, <2>1
    <2> QED
      BY <2>2
  <1>4. SUFFICES ASSUME over # {} PROVE FALSE
    BY <1>1, <1>3
  <1>5. PICK x \in over : \A y \in over : x <= y
    <2>1. over \in SUBSET Nat
      BY <1>1
    <2> QED
      BY <1>4, <2>1, LeastNat
  <1>6. x \in 1 .. n /\ x - 1 \in 0 .. n /\ x \in 1 .. Len(Items[o])
    BY <1>1, <1>2
  <1>7. stock[p].reserved + Wanted[o][x - 1][p] <= stock[p].available
    <2>1. x - 1 \notin over
      BY <1>5, <1>6
    <2> QED
      BY <1>1, <1>3, <1>6, <2>1
  <1>8. CASE Items[o][x].product = p
    <2>1. Items[o][x].qty \in Nat
      <3>1. Items[o][x] \in OrderItem
        BY <1>1, <1>6
      <3> QED
        BY <3>1 DEF OrderItem
    <2>2. CanReserve(StockAfter(o, x - 1)[p], Items[o][x].qty)
      BY <1>6, <1>8 DEF Passes
    <2>3. /\ StockAfter(o, x - 1)[p].reserved = stock[p].reserved + Wanted[o][x - 1][p]
          /\ StockAfter(o, x - 1)[p].available = stock[p].available
      BY <1>1 DEF StockAfter, StockItem
    <2>4. stock[p].available - (stock[p].reserved + Wanted[o][x - 1][p]) >= Items[o][x].qty
      BY <2>2, <2>3 DEF CanReserve, EffectiveStock
    <2>5. Wanted[o][x][p] = Wanted[o][x - 1][p] + Items[o][x].qty
      BY <1>2, <1>6, <1>8
    <2>6. stock[p].reserved + Wanted[o][x][p] <= stock[p].available
      <3>1. Wanted[o][x - 1][p] \in Nat /\ Wanted[o][x][p] \in Nat
        BY <1>3, <1>6
      <3>2. stock[p].reserved \in Nat /\ stock[p].available \in Nat
        BY <1>1
      <3> QED
        BY <3>1, <3>2, <2>1, <2>4, <2>5, OneMoreLine
    <2> QED
      BY <1>1, <1>3, <1>6, <2>6
  <1>9. CASE Items[o][x].product # p
    <2>1. Wanted[o][x][p] = Wanted[o][x - 1][p] + 0
      BY <1>2, <1>6, <1>9
    <2> QED
      BY <1>1, <1>3, <1>6, <1>7, <2>1
  <1> QED
    BY <1>8, <1>9

\* The stock after the lines that passed is a stock, and not oversold.
LEMMA StockAfterFits ==
  ASSUME TypeOK, NoOversell, NEW o \in Orders, NEW n \in 0 .. Len(Items[o]),
         \A j \in 1 .. n : Passes(o, j), stock' = StockAfter(o, n)
  PROVE  stock' \in [Stocked -> StockItem] /\ NoOversell'
  <1>1. ASSUME NEW p \in Stocked
        PROVE  /\ StockAfter(o, n)[p] \in StockItem
               /\ StockAfter(o, n)[p].reserved <= StockAfter(o, n)[p].available
    <2>1. /\ stock[p] \in StockItem /\ stock[p].reserved \in Nat /\ stock[p].version \in Nat
      BY DEF TypeOK, StockItem
    <2>2. Wanted[o][n][p] \in Nat /\ Repeats(o, n, p) \in Nat
      <3>1. Wanted[o][n] \in [Stocked -> Nat]
        BY PrefixAssumption
      <3> QED
        BY <3>1, RepeatsType
    <2>3. StockAfter(o, n)[p] = [available |-> stock[p].available,
                                 reserved |-> stock[p].reserved + Wanted[o][n][p],
                                 version |-> stock[p].version + Repeats(o, n, p)]
      BY DEF StockAfter
    <2>4. stock[p].reserved + Wanted[o][n][p] <= stock[p].available
      BY PassingFits
    <2>5. /\ stock[p].reserved + Wanted[o][n][p] \in Nat
          /\ stock[p].version + Repeats(o, n, p) \in Nat /\ stock[p].available \in Nat
      <3>1. stock[p].available \in Nat
        BY <2>1 DEF StockItem
      <3>2. \A x, y \in Nat : x + y \in Nat
        OBVIOUS
      <3> QED
        BY <2>1, <2>2, <3>1, <3>2
    <2> QED
      BY <2>3, <2>4, <2>5 DEF StockItem
  <1>2. stock' \in [Stocked -> StockItem]
    BY <1>1 DEF StockAfter
  <1>3. NoOversell'
    BY <1>1 DEF NoOversell
  <1> QED
    BY <1>2, <1>3

-----------------------------------------------------------------------------
\* What the outcomes of a call do to the order and to the others.

\* The order of the call alone may have changed.
OthersStay(o) ==
  /\ \A a \in Orders \ {o} : /\ order'[a] = order[a] /\ outbox'[a] = outbox[a]
                             /\ log'[a] = log[a] /\ (a \in stored' <=> a \in stored)

\* The records of o agree.
Told(o) ==
  /\ Entry("confirm_order", "STARTED") \in Elements(log[o]) <=> o \in Fulfilled
  /\ IF o \in Fulfilled
       THEN Elements(outbox[o]) = {"OrderCreated", "StockReserved",
                                   "PaymentProcessed", "OrderConfirmed"}
       ELSE /\ order[o].status = "CANCELLED"
            /\ Elements(outbox[o]) = {"OrderCreated", "StockReleased"}
            /\ log[o][Len(log[o])].state = "FAILED"

\* What is appended for one order leaves the lists of the others alone.
LEMMA ExtendOutbox ==
  ASSUME TypeOK, NEW o \in Orders, NEW s \in Seq(EventType), outbox' = Extend(outbox, o, s)
  PROVE  /\ outbox' \in [Orders -> Seq(EventType)] /\ outbox'[o] = outbox[o] \o s
         /\ \A a \in Orders \ {o} : outbox'[a] = outbox[a]
  <1>1. outbox \in [Orders -> Seq(EventType)] /\ outbox[o] \o s \in Seq(EventType)
    BY DEF TypeOK
  <1>2. outbox' = [outbox EXCEPT ![o] = outbox[o] \o s]
    BY DEF Extend
  <1> QED
    BY <1>1, <1>2

LEMMA ExtendLog ==
  ASSUME TypeOK, NEW o \in Orders, NEW s \in Seq(LogEntry), log' = Extend(log, o, s)
  PROVE  /\ log' \in [Orders -> Seq(LogEntry)] /\ log'[o] = log[o] \o s
         /\ \A a \in Orders \ {o} : log'[a] = log[a]
  <1>1. log \in [Orders -> Seq(LogEntry)] /\ log[o] \o s \in Seq(LogEntry)
    BY DEF TypeOK
  <1>2. log' = [log EXCEPT ![o] = log[o] \o s]
    BY DEF Extend
  <1> QED
    BY <1>1, <1>2

\* The entries of a run that starts the named steps.
LEMMA StartedType ==
  /\ Started(<<"create_order">>) \in Seq(LogEntry)
  /\ Started(<<"create_order", "reserve_stock">>) \in Seq(LogEntry)
  /\ Started(<<"create_order", "reserve_stock", "process_payment",
               "confirm_order">>) \in Seq(LogEntry)
  /\ Entry("start", "FAILED") \in LogEntry /\ Entry("create_order", "FAILED") \in LogEntry
  /\ Entry("start", "FAILED").state = "FAILED"
  /\ Entry("create_order", "FAILED").state = "FAILED"
  BY DEF Started, Entry, LogEntry

\* Only the run of an order that is confirmed starts confirm_order.
LEMMA ConfirmStarted ==
  /\ Entry("confirm_order", "STARTED") \notin
       Elements(Started(<<"create_order">>) \o <<Entry("start", "FAILED")>>)
  /\ Entry("confirm_order", "STARTED") \notin
       Elements(Started(<<"create_order", "reserve_stock">>)
                  \o <<Entry("create_order", "FAILED")>>)
  /\ Entry("confirm_order", "STARTED") \in
       Elements(Started(<<"create_order", "reserve_stock", "process_payment",
                          "confirm_order">>))
  BY DEF Started, Entry, Elements

\* A duplicate leaves a confirmed order alone, and cancels a cancelled one
\* again.
LEMMA DuplicateKeeps ==
  ASSUME MemoryInv, NEW o \in Orders, NEW k, RefuseDuplicate(o, k)
  PROVE  /\ order' \in [Orders -> Order] /\ outbox' \in [Orders -> Seq(EventType)]
         /\ log' \in [Orders -> Seq(LogEntry)]
         /\ OthersStay(o) /\ stored' = stored /\ stock' = stock
         /\ o \in stored' /\ Told(o)' /\ (o \in Fulfilled => order'[o] = order[o])
         /\ (o \in Fulfilled' => o \in Fulfilled)
  <1>1. /\ order \in [Orders -> Order] /\ outbox \in [Orders -> Seq(EventType)]
        /\ log \in [Orders -> Seq(LogEntry)] /\ o \in stored /\ Told(o)
        /\ stored' = stored /\ stock' = stock /\ TypeOK
    BY DEF MemoryInv, TypeOK, EventsTellOutcome, Told, RefuseDuplicate
  <1> DEFINE new == Started(<<"create_order">>) \o <<Entry("start", "FAILED")>>
  <1>2. log' = Extend(log, o, new)
    BY DEF RefuseDuplicate
  <1>3. new \in Seq(LogEntry)
    BY StartedType
  <1>4. log[o] \in Seq(LogEntry) /\ (log[o] \o new)[Len(log[o] \o new)].state = "FAILED"
    BY <1>1, StartedType, LastOfThree
  <1> HIDE DEF new
  <1>5. /\ log' \in [Orders -> Seq(LogEntry)] /\ log'[o] = log[o] \o new
        /\ \A a \in Orders \ {o} : log'[a] = log[a]
    BY <1>1, <1>2, <1>3, ExtendLog
  <1>6. /\ log'[o][Len(log'[o])].state = "FAILED"
        /\ Entry("confirm_order", "STARTED") \in Elements(log'[o])
             <=> Entry("confirm_order", "STARTED") \in Elements(log[o])
    <2>1. Elements(log'[o]) = Elements(log[o]) \cup Elements(new)
      BY <1>3, <1>4, <1>5, EntriesOfBoth
    <2>2. Entry("confirm_order", "STARTED") \notin Elements(new)
      BY ConfirmStarted DEF new
    <2> QED
      BY <1>4, <1>5, <2>1, <2>2
  <1>7. CASE CanCancel(order[o])
    <2>1. /\ order' = [order EXCEPT ![o] = Cancel(@)]
          /\ outbox' = Extend(outbox, o, <<"StockReleased">>)
      BY <1>7 DEF RefuseDuplicate, CancelStored
    <2>2. o \notin Fulfilled
      BY <1>7 DEF Fulfilled, CanCancel
    <2>3. Cancel(order[o]) \in Order /\ Cancel(order[o]).status = "CANCELLED"
      BY <1>1, TransitionType DEF Cancel, OrderStatus, EventType
    <2>4. /\ order' \in [Orders -> Order] /\ order'[o].status = "CANCELLED"
          /\ \A a \in Orders \ {o} : order'[a] = order[a]
      BY <1>1, <2>1, <2>3
    <2>5. <<"StockReleased">> \in Seq(EventType)
      BY DEF EventType
    <2>6. /\ outbox' \in [Orders -> Seq(EventType)]
          /\ outbox'[o] = outbox[o] \o <<"StockReleased">>
          /\ \A a \in Orders \ {o} : outbox'[a] = outbox[a]
      BY <1>1, <2>1, <2>5, ExtendOutbox
    <2>7. Elements(outbox[o]) = {"OrderCreated", "StockReleased"}
      BY <1>1, <2>2 DEF Told
    <2>8. Elements(<<"StockReleased">>) = {"StockReleased"}
      BY DEF Elements
    <2>9. Elements(outbox'[o]) = Elements(outbox[o]) \cup Elements(<<"StockReleased">>)
      BY <1>1, <2>5, <2>6, EventsOfBoth
    <2>10. Elements(outbox'[o]) = {"OrderCreated", "StockReleased"}
      BY <2>7, <2>8, <2>9
    <2>11. o \notin Fulfilled'
      BY <2>4 DEF Fulfilled
    <2>12. Told(o)'
      BY <1>1, <1>6, <2>2, <2>4, <2>10, <2>11 DEF Told
    <2> QED
      BY <1>1, <1>5, <2>2, <2>4, <2>6, <2>11, <2>12 DEF OthersStay
  <1>8. CASE ~CanCancel(order[o])
    <2>1. order' = order /\ outbox' = outbox
      BY <1>8 DEF RefuseDuplicate, CancelStored
    <2>2. o \in Fulfilled
      BY <1>1, <1>8 DEF Told, CanCancel
    <2>3. o \in Fulfilled'
      BY <1>1, <2>1, <2>2 DEF Fulfilled
    <2>4. Told(o)'
      BY <1>1, <1>6, <2>1, <2>2, <2>3 DEF Told
    <2> QED
      BY <1>1, <1>5, <2>1, <2>2, <2>4 DEF OthersStay
  <1> QED
    BY <1>7, <1>8

\* An order that is placed is confirmed, with the events of a whole saga.
LEMMA PlaceKeeps ==
  ASSUME MemoryInv, NEW o \in Orders, NEW k, Place(o, k)
  PROVE  /\ order' \in [Orders -> Order] /\ outbox' \in [Orders -> Seq(EventType)]
         /\ log' \in [Orders -> Seq(LogEntry)]
         /\ stock' \in [Stocked -> StockItem] /\ NoOversell'
         /\ OthersStay(o) /\ stored' = stored \cup {o} /\ o \notin stored
         /\ o \in Fulfilled' /\ Told(o)'
  <1>1. /\ TypeOK /\ NoOversell /\ order \in [Orders -> Order] /\ o \notin stored
        /\ order[o] = NewOrder /\ outbox[o] = <<>> /\ log[o] = <<>>
        /\ stored' = stored \cup {o} /\ Items[o] \in Seq(OrderItem)
    BY OrdersAssumption DEF MemoryInv, TypeOK, UnsavedAt, Place, Save
  <1>2. stock' \in [Stocked -> StockItem] /\ NoOversell'
    <2>1. Len(Items[o]) \in 0 .. Len(Items[o]) /\ DOMAIN Items[o] = 1 .. Len(Items[o])
      BY <1>1
    <2>2. /\ \A j \in 1 .. Len(Items[o]) : Passes(o, j)
          /\ stock' = StockAfter(o, Len(Items[o]))
      BY <2>1 DEF Place
    <2> QED
      BY <1>1, <2>1, <2>2, StockAfterFits
  <1> DEFINE done == Confirmed(o)
             steps == <<"StockReserved", "PaymentProcessed", "OrderConfirmed">>
             all == <<"OrderCreated">> \o done.events \o done.events
  <1>3. /\ done = [status |-> "CONFIRMED", version |-> 3, events |-> steps]
        /\ done.status = "CONFIRMED" /\ done.events = steps
    <2>1. ReserveStock(NewOrder) =
            [status |-> "STOCK_RESERVED", version |-> 1, events |-> <<"StockReserved">>]
      BY DEF ReserveStock, Transition, NewOrder
    <2> DEFINE first == [status |-> "STOCK_RESERVED", version |-> 1,
                         events |-> <<"StockReserved">>]
               second == [status |-> "PAYMENT_PROCESSED", version |-> 2,
                          events |-> <<"StockReserved", "PaymentProcessed">>]
    <2>2. ProcessPayment(first) = second
      BY DEF ProcessPayment, Transition
    <2>3. Confirm(second) = [status |-> "CONFIRMED", version |-> 3, events |-> steps]
      BY DEF Confirm, Transition
    <2>4. done = Confirm(ProcessPayment(ReserveStock(NewOrder)))
      BY <1>1 DEF Confirmed
    <2> HIDE DEF done
    <2>5. done = [status |-> "CONFIRMED", version |-> 3, events |-> steps]
      BY <2>1, <2>2, <2>3, <2>4
    <2> QED
      BY <2>5
  <1>4. ClearEvents(done) = [status |-> "CONFIRMED", version |-> 3, events |-> <<>>]
    BY <1>3 DEF ClearEvents
  <1>5. ClearEvents(done) \in Order /\ ClearEvents(done).status = "CONFIRMED"
    BY <1>4 DEF Order, OrderStatus
  <1>6. order' = [order EXCEPT ![o] = ClearEvents(done)]
    BY DEF Place
  <1> HIDE DEF done
  <1>7. /\ order' \in [Orders -> Order] /\ order'[o].status = "CONFIRMED"
        /\ \A a \in Orders \ {o} : order'[a] = order[a]
    BY <1>1, <1>5, <1>6
  <1>8. /\ done.events \in Seq(EventType) /\ <<"OrderCreated">> \in Seq(EventType)
        /\ Elements(done.events) = {"StockReserved", "PaymentProcessed", "OrderConfirmed"}
        /\ Elements(<<"OrderCreated">>) = {"OrderCreated"}
    <2>1. DOMAIN steps = 1 .. 3
      OBVIOUS
    <2>2. steps[1] = "StockReserved" /\ steps[2] = "PaymentProcessed"
          /\ steps[3] = "OrderConfirmed" /\ steps \in Seq(EventType)
      BY DEF EventType
    <2>3. DOMAIN <<"OrderCreated">> = 1 .. 1 /\ <<"OrderCreated">>[1] = "OrderCreated"
          /\ <<"OrderCreated">> \in Seq(EventType)
      BY DEF EventType
    <2> HIDE DEF steps
    <2>4. Elements(steps) = {"StockReserved", "PaymentProcessed", "OrderConfirmed"}
      BY <2>1, <2>2 DEF Elements
    <2>5. Elements(<<"OrderCreated">>) = {"OrderCreated"}
      BY <2>3 DEF Elements
    <2> QED
      BY <1>3, <2>2, <2>3, <2>4, <2>5
  <1>9. outbox' = Extend(outbox, o, all) /\ all \in Seq(EventType)
    <2>1. outbox' = Extend(outbox, o, all)
      BY DEF Place, done
    <2>2. all \in Seq(EventType)
      BY <1>8
    <2> QED
      BY <2>1, <2>2
  <1>10. Elements(all) = {"OrderCreated", "StockReserved", "PaymentProcessed", "OrderConfirmed"}
    <2> DEFINE head == <<"OrderCreated">>
               tail == done.events
    <2>1. /\ head \in Seq(EventType) /\ tail \in Seq(EventType)
          /\ Elements(head) = {"OrderCreated"}
          /\ Elements(tail) = {"StockReserved", "PaymentProcessed", "OrderConfirmed"}
      BY <1>8
    <2>2. all = (head \o tail) \o tail
      OBVIOUS
    <2> HIDE DEF head, tail, all
    <2>3. head \o tail \in Seq(EventType) /\ Elements(head \o tail) = Elements(head) \cup Elements(tail)
      BY <2>1, EventsOfBoth
    <2>4. Elements((head \o tail) \o tail) = Elements(head \o tail) \cup Elements(tail)
      BY <2>1, <2>3, EventsOfBoth
    <2> QED
      BY <2>1, <2>2, <2>3, <2>4
  <1> HIDE DEF all
  <1>11. /\ outbox' \in [Orders -> Seq(EventType)] /\ outbox'[o] = outbox[o] \o all
         /\ \A a \in Orders \ {o} : outbox'[a] = outbox[a]
    BY <1>1, <1>9, ExtendOutbox
  <1>12. outbox'[o] = all
    BY <1>1, <1>9, <1>11
  <1>13. /\ log' \in [Orders -> Seq(LogEntry)]
         /\ \A a \in Orders \ {o} : log'[a] = log[a]
         /\ Entry("confirm_order", "STARTED") \in Elements(log'[o])
    <2> DEFINE run == Started(<<"create_order", "reserve_stock",
                                "process_payment", "confirm_order">>)
    <2>1. log' = Extend(log, o, run)
      BY DEF Place
    <2>2. run \in Seq(LogEntry) /\ Entry("confirm_order", "STARTED") \in Elements(run)
      BY StartedType, ConfirmStarted
    <2> HIDE DEF run
    <2>3. /\ log' \in [Orders -> Seq(LogEntry)] /\ log'[o] = log[o] \o run
          /\ \A a \in Orders \ {o} : log'[a] = log[a]
      BY <1>1, <2>1, <2>2, ExtendLog
    <2>4. log'[o] = run
      BY <1>1, <2>2, <2>3
    <2> QED
      BY <2>2, <2>3, <2>4
  <1>14. o \in Fulfilled'
    BY <1>1, <1>7 DEF Fulfilled
  <1>15. Told(o)'
    BY <1>10, <1>12, <1>13, <1>14 DEF Told
  <1>16. OthersStay(o)
    BY <1>1, <1>7, <1>11, <1>13 DEF OthersStay
  <1> QED
    BY <1>1, <1>2, <1>7, <1>11, <1>13, <1>14, <1>15, <1>16

\* An order that cannot be reserved is cancelled and its failure is recorded.
LEMMA FailureKeeps ==
  ASSUME MemoryInv, NEW o \in Orders, NEW k, FailToReserve(o, k)
  PROVE  /\ order' \in [Orders -> Order] /\ outbox' \in [Orders -> Seq(EventType)]
         /\ log' \in [Orders -> Seq(LogEntry)]
         /\ stock' \in [Stocked -> StockItem] /\ NoOversell'
         /\ OthersStay(o) /\ stored' = stored \cup {o} /\ o \notin stored /\ Told(o)'
         /\ o \notin Fulfilled'
  <1>1. /\ TypeOK /\ NoOversell /\ order \in [Orders -> Order] /\ o \notin stored
        /\ order[o] = NewOrder /\ outbox[o] = <<>> /\ log[o] = <<>>
        /\ stored' = stored \cup {o} /\ Items[o] \in Seq(OrderItem)
    BY OrdersAssumption DEF MemoryInv, TypeOK, UnsavedAt, FailToReserve, Save
  <1>2. stock' \in [Stocked -> StockItem] /\ NoOversell'
    <2>1. PICK i \in 1 .. Len(Items[o]) : FailsAt(o, i) /\ stock' = StockAfter(o, i - 1)
      BY <1>1 DEF FailToReserve
    <2>2. i - 1 \in 0 .. Len(Items[o]) /\ \A j \in 1 .. i - 1 : Passes(o, j)
      BY <1>1, <2>1 DEF FailsAt
    <2> QED
      BY <1>1, <2>1, <2>2, StockAfterFits
  <1>3. order' = [order EXCEPT ![o] = Cancel(order[o])]
    BY DEF FailToReserve
  <1>4. Cancel(order[o]) \in Order /\ Cancel(order[o]).status = "CANCELLED"
    BY <1>1, TransitionType DEF Cancel, OrderStatus, EventType
  <1>5. /\ order' \in [Orders -> Order] /\ order'[o].status = "CANCELLED"
        /\ \A a \in Orders \ {o} : order'[a] = order[a]
    BY <1>1, <1>3, <1>4
  <1> DEFINE two == <<"OrderCreated", "StockReleased">>
             new == Started(<<"create_order", "reserve_stock">>)
                      \o <<Entry("create_order", "FAILED")>>
  <1>6. /\ outbox' = Extend(outbox, o, two) /\ two \in Seq(EventType)
        /\ Elements(two) = {"OrderCreated", "StockReleased"}
    <2>1. outbox' = Extend(outbox, o, two) /\ two \in Seq(EventType)
      BY DEF FailToReserve, EventType
    <2>2. DOMAIN two = 1 .. 2 /\ two[1] = "OrderCreated" /\ two[2] = "StockReleased"
      OBVIOUS
    <2> HIDE DEF two
    <2> QED
      BY <2>1, <2>2 DEF Elements
  <1>7. log' = Extend(log, o, new) /\ new \in Seq(LogEntry)
    BY StartedType DEF FailToReserve
  <1>8. /\ (log[o] \o new)[Len(log[o] \o new)].state = "FAILED"
        /\ Entry("confirm_order", "STARTED") \notin Elements(new)
    BY <1>1, StartedType, LastOfThree, ConfirmStarted
  <1> HIDE DEF two, new
  <1>9. /\ outbox' \in [Orders -> Seq(EventType)] /\ outbox'[o] = two
        /\ \A a \in Orders \ {o} : outbox'[a] = outbox[a]
    <2>1. outbox[o] \o two = two
      BY <1>1, <1>6
    <2> QED
      BY <1>1, <1>6, <2>1, ExtendOutbox
  <1>10. /\ log' \in [Orders -> Seq(LogEntry)] /\ log'[o] = log[o] \o new
         /\ \A a \in Orders \ {o} : log'[a] = log[a]
    BY <1>1, <1>7, ExtendLog
  <1>11. o \notin Fulfilled'
    BY <1>5 DEF Fulfilled
  <1>12. Told(o)'
    <2>1. log[o] \o new = new
      BY <1>1, <1>7
    <2> QED
      BY <1>5, <1>6, <1>8, <1>9, <1>10, <1>11, <2>1 DEF Told
  <1>13. OthersStay(o)
    BY <1>1, <1>5, <1>9, <1>10 DEF OthersStay
  <1> QED
    BY <1>1, <1>2, <1>5, <1>9, <1>10, <1>11, <1>12, <1>13

\* The records of all orders agree when those of the call's order do.
LEMMA RecordsKeep ==
  ASSUME MemoryInv, NEW o \in Orders, OthersStay(o), o \in stored', Told(o)',
         stored' \subseteq Orders
  PROVE  EventsTellOutcome' /\ \A a \in Orders : UnsavedAt(a)'
  <1>1. ASSUME NEW a \in Orders \ {o}
        PROVE  /\ Told(a)' <=> Told(a)
               /\ UnsavedAt(a)' <=> UnsavedAt(a)
    <2>1. /\ order'[a] = order[a] /\ outbox'[a] = outbox[a] /\ log'[a] = log[a]
          /\ (a \in stored' <=> a \in stored)
      BY DEF OthersStay
    <2>2. a \in Fulfilled' <=> a \in Fulfilled
      BY <2>1 DEF Fulfilled
    <2> QED
      BY <2>1, <2>2 DEF Told, UnsavedAt
  <1>2. \A a \in stored : Told(a)
    BY DEF MemoryInv, EventsTellOutcome, Told
  <1>3. \A a \in Orders : UnsavedAt(a)
    BY DEF MemoryInv
  <1>4. \A a \in Orders : a \in stored' => Told(a)'
    BY <1>1, <1>2 DEF OthersStay
  <1>5. EventsTellOutcome'
    BY <1>4 DEF EventsTellOutcome, Told
  <1>6. \A a \in Orders : UnsavedAt(a)'
    BY <1>1, <1>3 DEF UnsavedAt
  <1> QED
    BY <1>5, <1>6

\* Confirmed orders stay as they are.
Settled == \A a \in Fulfilled : a \in stored' /\ order'[a] = order[a]

LEMMA CallSettles ==
  ASSUME MemoryInv, NEW o \in Orders, NEW k \in Keys \cup {None}, Execute(o, k)
  PROVE  Settled
  <1>1. stored \subseteq Orders
    BY DEF MemoryInv, TypeOK
  <1>2. CASE RefuseDuplicate(o, k)
    BY <1>1, <1>2, DuplicateKeeps DEF OthersStay, Settled, Fulfilled
  <1>3. CASE Place(o, k)
    BY <1>1, <1>3, PlaceKeeps DEF OthersStay, Settled, Fulfilled
  <1>4. CASE FailToReserve(o, k)
    BY <1>1, <1>4, FailureKeeps DEF OthersStay, Settled, Fulfilled
  <1>5. CASE ReturnCached(o, k) \/ RefuseKey(o, k)
    BY <1>5 DEF ReturnCached, RefuseKey, Settled, Fulfilled
  <1> QED
    BY <1>2, <1>3, <1>4, <1>5 DEF Execute

\* A key answers with one confirmed order, before and after a call.
LEMMA KeysKeep ==
  ASSUME MemoryInv, NEW o \in Orders, NEW k \in Keys \cup {None}, Execute(o, k), NEW j \in Keys
  PROVE  /\ KeyAt(j)' /\ key' \in [Keys -> KeyValue]
         /\ answered' \in [Keys -> SUBSET Orders]
  <1>1. /\ key \in [Keys -> KeyValue] /\ answered \in [Keys -> SUBSET Orders]
        /\ stored \subseteq Orders /\ KeyAt(j)
    BY DEF MemoryInv, TypeOK
  <1>2. Processing \in KeyValue /\ Completed(o) \in KeyValue
        /\ Processing.status = "processing"
        /\ Completed(o).status = "completed" /\ Completed(o).order = o
        /\ \A a : Completed(a).status = "completed" /\ Completed(a).order = a
    BY DEF Processing, Completed, KeyValue, KeyStatus
  <1>3. \A a \in Fulfilled : a \in Fulfilled'
    BY CallSettles DEF Settled, Fulfilled
  <1>4. CASE RefuseDuplicate(o, k) \/ FailToReserve(o, k)
    <2>1. /\ key' = [i \in Keys |-> IF i = k THEN Processing ELSE key[i]]
          /\ answered' = answered /\ Fresh(k)
      BY <1>4 DEF RefuseDuplicate, FailToReserve, StoreKey
    <2>2. CASE j = k
      <3>1. key[j].status = "absent" /\ key'[j] = Processing
        BY <2>1, <2>2 DEF Fresh
      <3>2. answered[j] = {}
        BY <1>1, <1>2, <3>1 DEF KeyAt
      <3> QED
        BY <1>1, <1>2, <2>1, <3>1, <3>2 DEF KeyAt
    <2>3. CASE j # k
      BY <1>1, <1>2, <1>3, <2>1, <2>3 DEF KeyAt
    <2> QED
      BY <2>2, <2>3
  <1>5. CASE Place(o, k)
    <2>1. /\ key' = [i \in Keys |-> IF i = k THEN Completed(o) ELSE key[i]]
          /\ answered' = [i \in Keys |-> IF i = k THEN answered[i] \cup {o} ELSE answered[i]]
          /\ Fresh(k)
      BY <1>5 DEF Place, StoreKey, Answer
    <2>2. o \in Fulfilled'
      BY <1>5, PlaceKeeps
    <2>3. CASE j = k
      <3>1. key[j].status = "absent" /\ key'[j] = Completed(o)
        BY <2>1, <2>3 DEF Fresh
      <3>2. answered[j] = {}
        BY <1>1, <1>2, <3>1 DEF KeyAt
      <3>3. answered'[j] = {o}
        BY <2>1, <2>3, <3>2
      <3> QED
        BY <1>1, <1>2, <2>1, <2>2, <3>1, <3>3 DEF KeyAt
    <2>4. CASE j # k
      BY <1>1, <1>2, <1>3, <2>1, <2>4 DEF KeyAt
    <2> QED
      BY <2>3, <2>4
  <1>6. CASE ReturnCached(o, k)
    <2>1. /\ key' = key /\ k \in Keys /\ key[k].status = "completed"
          /\ \/ answered' = answered
             \/ answered' = [i \in Keys |-> IF i = k THEN answered[i] \cup {key[k].order}
                                                     ELSE answered[i]]
      BY <1>6 DEF ReturnCached, Answer, Fresh
    <2>2. key[k] = Completed(key[k].order) /\ key[k].order \in Orders
      <3>1. key[k] \in KeyValue /\ key[k].order \in Fulfilled
        BY <1>1, <2>1 DEF MemoryInv, KeyAt
      <3>2. key[k] = [status |-> key[k].status, order |-> key[k].order]
        BY <3>1 DEF KeyValue
      <3> QED
        BY <1>1, <2>1, <3>1, <3>2 DEF Completed, Fulfilled
    <2> QED
      BY <1>1, <1>3, <2>1, <2>2 DEF KeyAt
  <1>7. CASE RefuseKey(o, k)
    BY <1>1, <1>3, <1>7 DEF RefuseKey, KeyAt
  <1> QED
    BY <1>4, <1>5, <1>6, <1>7 DEF Execute

\* A call keeps the invariant.
LEMMA CallKeeps ==
  ASSUME MemoryInv, NEW o \in Orders, NEW k \in Keys \cup {None}, Execute(o, k)
  PROVE  MemoryInv'
  <1>1. TypeOK /\ NoOversell /\ EventsTellOutcome /\ \A a \in Orders : UnsavedAt(a)
    BY DEF MemoryInv
  <1>2. calls' \in 0 .. MaxCalls
    BY <1>1, CallsAssumption DEF TypeOK, Execute
  <1>3. /\ stored' \subseteq Orders /\ order' \in [Orders -> Order]
        /\ outbox' \in [Orders -> Seq(EventType)] /\ log' \in [Orders -> Seq(LogEntry)]
        /\ stock' \in [Stocked -> StockItem] /\ NoOversell'
        /\ EventsTellOutcome' /\ \A a \in Orders : UnsavedAt(a)'
    <2>1. CASE ReturnCached(o, k) \/ RefuseKey(o, k)
      <3>1. UNCHANGED <<order, stored, stock, outbox, log>>
        BY <2>1 DEF ReturnCached, RefuseKey
      <3>2. EventsTellOutcome' /\ NoOversell'
        BY <1>1, <3>1 DEF EventsTellOutcome, NoOversell, Fulfilled
      <3>3. \A a \in Orders : UnsavedAt(a)'
        BY <1>1, <3>1 DEF UnsavedAt
      <3> QED
        BY <1>1, <3>1, <3>2, <3>3 DEF TypeOK
    <2>2. CASE RefuseDuplicate(o, k)
      <3>1. /\ order' \in [Orders -> Order] /\ outbox' \in [Orders -> Seq(EventType)]
            /\ log' \in [Orders -> Seq(LogEntry)]
            /\ OthersStay(o) /\ stored' = stored /\ stock' = stock
            /\ o \in stored' /\ Told(o)'
        BY <2>2, DuplicateKeeps
      <3>2. NoOversell' /\ stored' \subseteq Orders /\ stock' \in [Stocked -> StockItem]
        BY <1>1, <3>1 DEF NoOversell, TypeOK
      <3> QED
        BY <3>1, <3>2, RecordsKeep
    <2>3. CASE Place(o, k)
      <3>1. /\ order' \in [Orders -> Order] /\ outbox' \in [Orders -> Seq(EventType)]
            /\ log' \in [Orders -> Seq(LogEntry)]
            /\ stock' \in [Stocked -> StockItem] /\ NoOversell'
            /\ OthersStay(o) /\ stored' = stored \cup {o} /\ Told(o)'
        BY <2>3, PlaceKeeps
      <3>2. stored' \subseteq Orders
        BY <1>1, <3>1 DEF TypeOK
      <3> QED
        BY <3>1, <3>2, RecordsKeep
    <2>4. CASE FailToReserve(o, k)
      <3>1. /\ order' \in [Orders -> Order] /\ outbox' \in [Orders -> Seq(EventType)]
            /\ log' \in [Orders -> Seq(LogEntry)]
            /\ stock' \in [Stocked -> StockItem] /\ NoOversell'
            /\ OthersStay(o) /\ stored' = stored \cup {o} /\ Told(o)'
        BY <2>4, FailureKeeps
      <3>2. stored' \subseteq Orders
        BY <1>1, <3>1 DEF TypeOK
      <3> QED
        BY <3>1, <3>2, RecordsKeep
    <2> QED
      BY <2>1, <2>2, <2>3, <2>4 DEF Execute
  <1>4. /\ \A j \in Keys : KeyAt(j)'
        /\ key' \in [Keys -> KeyValue] /\ answered' \in [Keys -> SUBSET Orders]
    <2>1. CASE Keys = {}
      BY <1>1, <2>1 DEF TypeOK, Execute, ReturnCached, RefuseKey, RefuseDuplicate, Place,
         FailToReserve, StoreKey, Answer
    <2>2. CASE Keys # {}
      BY <2>2, KeysKeep
    <2> QED
      BY <2>1, <2>2
  <1> QED
    BY <1>2, <1>3, <1>4 DEF MemoryInv, TypeOK

-----------------------------------------------------------------------------
\* The units of the confirmed orders.

\* What every order asks for of p.
Asked(p) == [o \in Orders |-> Wanted[o][Len(Items[o])][p]]

\* Only finitely many orders are confirmed, and they have their units.
Backed == IsFiniteSet(Fulfilled) /\ ConfirmedHaveStock

LEMMA AskedType ==
  ASSUME NEW p \in Stocked, NEW o \in Orders
  PROVE  /\ Asked(p)[o] = Wanted[o][Len(Items[o])][p] /\ Asked(p)[o] \in Nat
         /\ \A i \in 0 .. Len(Items[o]) : Wanted[o][i][p] \in Nat
  <1>1. Len(Items[o]) \in Nat
    BY OrdersAssumption
  <1>2. \A i \in 0 .. Len(Items[o]) : Wanted[o][i] \in [Stocked -> Nat]
    BY PrefixAssumption
  <1>3. \A i \in 0 .. Len(Items[o]) : Wanted[o][i][p] \in Nat
    BY <1>2
  <1> QED
    BY <1>1, <1>3 DEF Asked

\* The reserved units after the first lines of an order.
LEMMA StockAfterAdds ==
  ASSUME NEW o \in Orders, NEW i, stock' = StockAfter(o, i), NEW p \in Stocked
  PROVE  stock'[p].reserved = stock[p].reserved + Wanted[o][i][p]
  BY DEF StockAfter

\* A call that confirms nothing takes no units away from the confirmed orders.
LEMMA NothingConfirmed ==
  ASSUME Backed, MemoryInv, Fulfilled' = Fulfilled,
         \A p \in Stocked : /\ stock'[p].reserved \in Nat
                            /\ stock'[p].reserved >= stock[p].reserved
  PROVE  Backed'
  <1>1. ASSUME NEW p \in Stocked
        PROVE  stock'[p].reserved >= InitialStock[p].reserved
                                       + SumFunctionOnSet(Asked(p), Fulfilled')
    <2>1. stock[p].reserved >= InitialStock[p].reserved
                                 + SumFunctionOnSet(Asked(p), Fulfilled)
      BY DEF Backed, ConfirmedHaveStock, Demand, Asked
    <2>2. stock[p].reserved \in Nat /\ InitialStock[p].reserved \in Nat
      BY SeedAssumption DEF MemoryInv, TypeOK, StockItem
    <2>3. \A a \in Fulfilled : Asked(p)[a] \in Nat
      BY AskedType DEF MemoryInv, TypeOK, Fulfilled
    <2>4. SumFunctionOnSet(Asked(p), Fulfilled) \in Nat
      BY <2>3, SumIsNat DEF Backed
    <2> QED
      BY <2>1, <2>2, <2>4
  <1> QED
    BY <1>1 DEF Backed, ConfirmedHaveStock, Demand, Asked

\* The order that is confirmed has brought its units.
LEMMA ConfirmedBrings ==
  ASSUME Backed, MemoryInv, NEW o \in Orders, NEW k, Place(o, k)
  PROVE  Backed'
  <1>1. Fulfilled' = Fulfilled \cup {o} /\ o \notin Fulfilled
    <2>1. /\ OthersStay(o) /\ stored' = stored \cup {o} /\ o \notin stored
          /\ o \in Fulfilled' /\ stored \subseteq Orders
      BY PlaceKeeps DEF MemoryInv, TypeOK
    <2> QED
      BY <2>1 DEF OthersStay, Fulfilled
  <1>2. IsFiniteSet(Fulfilled) /\ IsFiniteSet(Fulfilled')
    BY <1>1, FS_AddElement DEF Backed
  <1>3. ASSUME NEW p \in Stocked
        PROVE  stock'[p].reserved >= InitialStock[p].reserved
                                       + SumFunctionOnSet(Asked(p), Fulfilled')
    <2>1. stock'[p].reserved = stock[p].reserved + Asked(p)[o]
      BY StockAfterAdds, AskedType DEF Place
    <2>2. stock[p].reserved >= InitialStock[p].reserved
                                 + SumFunctionOnSet(Asked(p), Fulfilled)
      BY DEF Backed, ConfirmedHaveStock, Demand, Asked
    <2>3. \A a \in Fulfilled \cup {o} : Asked(p)[a] \in Nat
      BY AskedType DEF MemoryInv, TypeOK, Fulfilled
    <2>4. SumFunctionOnSet(Asked(p), Fulfilled') = SumFunctionOnSet(Asked(p), Fulfilled) + Asked(p)[o]
      BY <1>1, <1>2, <2>3, SumOfOneMore
    <2>5. SumFunctionOnSet(Asked(p), Fulfilled) \in Nat /\ Asked(p)[o] \in Nat
      BY <1>2, <2>3, SumIsNat
    <2>6. stock[p].reserved \in Nat /\ InitialStock[p].reserved \in Nat
      BY SeedAssumption DEF MemoryInv, TypeOK, StockItem
    <2> QED
      BY <2>1, <2>2, <2>4, <2>5, <2>6
  <1> QED
    BY <1>2, <1>3 DEF Backed, ConfirmedHaveStock, Demand, Asked

LEMMA CallBacks ==
  ASSUME Backed, MemoryInv, NEW o \in Orders, NEW k \in Keys \cup {None}, Execute(o, k)
  PROVE  Backed'
  <1>1. stored \subseteq Orders /\ \A p \in Stocked : stock[p].reserved \in Nat
    BY DEF MemoryInv, TypeOK, StockItem
  <1>2. CASE ReturnCached(o, k) \/ RefuseKey(o, k)
    <2>1. stock' = stock /\ Fulfilled' = Fulfilled
      BY <1>2 DEF ReturnCached, RefuseKey, Fulfilled
    <2> QED
      BY <1>1, <2>1, NothingConfirmed
  <1>3. CASE RefuseDuplicate(o, k)
    <2>1. /\ OthersStay(o) /\ stored' = stored /\ stock' = stock
          /\ (o \in Fulfilled => order'[o] = order[o]) /\ (o \in Fulfilled' => o \in Fulfilled)
      BY <1>3, DuplicateKeeps
    <2>2. Fulfilled' = Fulfilled
      BY <1>1, <2>1 DEF OthersStay, Fulfilled
    <2> QED
      BY <1>1, <2>1, <2>2, NothingConfirmed
  <1>4. CASE Place(o, k)
    BY <1>4, ConfirmedBrings
  <1>5. CASE FailToReserve(o, k)
    <2>1. /\ OthersStay(o) /\ stored' = stored \cup {o} /\ o \notin stored
          /\ o \notin Fulfilled'
      BY <1>5, FailureKeeps
    <2>2. Fulfilled' = Fulfilled
      BY <1>1, <2>1 DEF OthersStay, Fulfilled
    <2>3. PICK i \in DOMAIN Items[o] : stock' = StockAfter(o, i - 1)
      BY <1>5 DEF FailToReserve
    <2>4. i - 1 \in 0 .. Len(Items[o])
      BY OrdersAssumption
    <2>5. ASSUME NEW p \in Stocked
          PROVE  stock'[p].reserved \in Nat /\ stock'[p].reserved >= stock[p].reserved
      <3>1. stock'[p].reserved = stock[p].reserved + Wanted[o][i - 1][p]
        BY <2>3, StockAfterAdds
      <3>2. Wanted[o][i - 1][p] \in Nat /\ stock[p].reserved \in Nat
        BY <1>1, <2>4, AskedType
      <3> QED
        BY <3>1, <3>2
    <2> QED
      BY <2>2, <2>5, NothingConfirmed
  <1> QED
    BY <1>2, <1>3, <1>4, <1>5 DEF Execute

LEMMA InitBacked == Init => Backed
  <1> SUFFICES ASSUME Init PROVE Backed
    OBVIOUS
  <1>1. Fulfilled = {}
    BY DEF Init, Fulfilled
  <1>2. ASSUME NEW p \in Stocked
        PROVE  stock[p].reserved >= InitialStock[p].reserved
                                      + SumFunctionOnSet(Asked(p), Fulfilled)
    <2>1. SumFunctionOnSet(Asked(p), Fulfilled) = 0
      BY <1>1, SumOverNone
    <2>2. stock[p].reserved = InitialStock[p].reserved /\ InitialStock[p].reserved \in Nat
      BY SeedAssumption DEF Init, StockItem
    <2> QED
      BY <2>1, <2>2
  <1> QED
    BY <1>1, <1>2, FS_EmptySet DEF Backed, ConfirmedHaveStock, Demand, Asked

-----------------------------------------------------------------------------
\* The theorems.

LEMMA InitMemory == Init => MemoryInv
  <1> SUFFICES ASSUME Init PROVE MemoryInv
    OBVIOUS
  <1>1. NewOrder \in Order /\ Absent \in KeyValue /\ Absent.status = "absent"
    BY DEF NewOrder, Order, OrderStatus, Absent, KeyValue, KeyStatus
  <1>2. TypeOK
    BY <1>1, SeedAssumption, CallsAssumption DEF Init, TypeOK
  <1>3. NoOversell
    BY SeedAssumption DEF Init, NoOversell
  <1>4. EventsTellOutcome /\ \A o \in Orders : UnsavedAt(o)
    BY DEF Init, EventsTellOutcome, UnsavedAt
  <1>5. \A k \in Keys : KeyAt(k)
    BY <1>1 DEF Init, KeyAt
  <1> QED
    BY <1>2, <1>3, <1>4, <1>5 DEF MemoryInv

LEMMA NextMemory == MemoryInv /\ [Next]_vars => MemoryInv'
  <1> SUFFICES ASSUME MemoryInv, [Next]_vars PROVE MemoryInv'
    OBVIOUS
  <1>1. CASE Next
    BY <1>1, CallKeeps DEF Next
  <1>2. CASE UNCHANGED vars
    <2>1. TypeOK' /\ NoOversell'
      BY <1>2 DEF vars, MemoryInv, TypeOK, NoOversell
    <2>2. EventsTellOutcome'
      BY <1>2 DEF vars, MemoryInv, EventsTellOutcome, Fulfilled
    <2>3. \A o \in Orders : UnsavedAt(o)'
      BY <1>2 DEF vars, MemoryInv, UnsavedAt
    <2>4. \A k \in Keys : KeyAt(k)'
      BY <1>2 DEF vars, MemoryInv, KeyAt, Fulfilled
    <2> QED
      BY <2>1, <2>2, <2>3, <2>4 DEF MemoryInv
  <1> QED
    BY <1>1, <1>2

\* Orders, their events, the log, the keys and the stock of the in-memory
\* stores fit together after every sequence of calls (execute).
THEOREM MemoryInvariant == Spec => []MemoryInv
  BY InitMemory, NextMemory, PTL DEF Spec

\* Every store keeps what its class declares (Order, StockItem, the key's
\* value, the saga log).
THEOREM MemoryTypeCorrect == Spec => []TypeOK
  <1>1. MemoryInv => TypeOK
    BY DEF MemoryInv
  <1> QED
    BY <1>1, MemoryInvariant, PTL

\* The confirmed orders have their units, whatever calls failed in the middle
\* of their lines, were repeated or were compensated (_reserve_stock,
\* _compensate).
THEOREM ConfirmedAreBacked == Spec => []ConfirmedHaveStock
  <1>1. MemoryInv /\ Backed /\ [Next]_vars => Backed'
    <2>1. ASSUME MemoryInv, Backed, UNCHANGED vars PROVE Backed'
      BY <2>1 DEF vars, Backed, ConfirmedHaveStock, Fulfilled, Demand
    <2> QED
      BY <2>1, CallBacks DEF Next
  <1>2. Backed => ConfirmedHaveStock
    BY DEF Backed
  <1> QED
    BY <1>1, <1>2, InitBacked, MemoryInvariant, PTL DEF Spec

\* No product is reserved beyond what there is, also by calls that fail in the
\* middle of their lines (_reserve_stock, reserve).
THEOREM MemoryNeverOversold == Spec => []NoOversell
  <1>1. MemoryInv => NoOversell
    BY DEF MemoryInv
  <1> QED
    BY <1>1, MemoryInvariant, PTL

\* Which events an order has, and whether its log has confirm_order started,
\* tell how it ended, however often its call is repeated (_compensate,
\* log_step).
THEOREM RecordsTellOutcome == Spec => []EventsTellOutcome
  <1>1. MemoryInv => EventsTellOutcome
    BY DEF MemoryInv
  <1> QED
    BY <1>1, MemoryInvariant, PTL

\* A key answers with one confirmed order for ever or with none
\* (check_and_store, store_result, get_result).
THEOREM KeyAnswersOnce == Spec => []OneAnswerPerKey
  <1>1. MemoryInv => OneAnswerPerKey
    <2> SUFFICES ASSUME MemoryInv, NEW k \in Keys
                 PROVE  /\ answered[k] \subseteq Fulfilled
                        /\ \A a, b \in answered[k] : a = b
      BY DEF OneAnswerPerKey
    <2>1. \A a : Completed(a).status = "completed" /\ Completed(a).order = a
      BY DEF Completed
    <2>2. KeyAt(k)
      BY DEF MemoryInv
    <2> QED
      BY <2>1, <2>2 DEF KeyAt
  <1> QED
    BY <1>1, MemoryInvariant, PTL

\* A confirmed order is never touched again, not by the compensation of a
\* second call with the same object either (Order.cancel, _compensate).
THEOREM ConfirmationIsFinal == Spec => ConfirmedStays
  <1>1. MemoryInv /\ [Next]_vars =>
          [\A o \in Fulfilled : o \in stored' /\ order'[o] = order[o]]_vars
    BY CallSettles DEF Next, Settled
  <1> QED
    BY <1>1, MemoryInvariant, PTL DEF Spec, ConfirmedStays
=============================================================================
