----------------------------- MODULE Aggregates -----------------------------
(***************************************************************************)
(* The two aggregates of src/src/domain/aggregates.py as pure operators on *)
(* records: StockItem, which guards the quantities of one product, and     *)
(* Order, the status machine a saga drives.  A method that raises is a     *)
(* pair Can<Method> (its guard) and <Method> (its effect).  Prices, names, *)
(* addresses and timestamps are left out: no method branches on them.      *)
(***************************************************************************)
EXTENDS Integers, Sequences

StockItem == [available : Nat, reserved : Nat, version : Nat]

EffectiveStock(s) == s.available - s.reserved

\* Mutant: the check forgets what is reserved already.
CanReserveTotal(s, qty) == qty > 0 /\ s.available >= qty

CanReserve(s, qty) == qty > 0 /\ EffectiveStock(s) >= qty
Reserve(s, qty) == [s EXCEPT !.reserved = @ + qty]

CanRelease(s, qty) == qty > 0 /\ s.reserved >= qty
Release(s, qty) == [s EXCEPT !.reserved = @ - qty]

-----------------------------------------------------------------------------

OrderStatus == {"PENDING", "STOCK_RESERVED", "PAYMENT_PROCESSED", "CONFIRMED",
                "SHIPPED", "CANCELLED", "FAILED"}

EventType == {"OrderCreated", "StockReserved", "PaymentProcessed",
              "OrderConfirmed", "OrderCancelled", "StockReleased",
              "PaymentRefunded"}

\* `events' holds the types of the events the aggregate has emitted and
\* nobody has published yet.
Order == [status : OrderStatus, version : Nat, events : Seq(EventType)]

NewOrder == [status |-> "PENDING", version |-> 0, events |-> <<>>]

\* What every transition method does once its guard has passed.
Transition(o, status, event) ==
  [status |-> status, version |-> o.version + 1,
   events |-> Append(o.events, event)]

CanReserveStock(o) == o.status = "PENDING"
ReserveStock(o) == Transition(o, "STOCK_RESERVED", "StockReserved")

CanProcessPayment(o) == o.status = "STOCK_RESERVED"
ProcessPayment(o) == Transition(o, "PAYMENT_PROCESSED", "PaymentProcessed")

CanConfirm(o) == o.status = "PAYMENT_PROCESSED"
Confirm(o) == Transition(o, "CONFIRMED", "OrderConfirmed")

\* Mutant: a status that neither the enum nor its column has.
CancelAsRefunded(o) == Transition(o, "REFUNDED", "OrderCancelled")

\* Mutant: an order can be cancelled until it is shipped.
CanCancelUnshipped(o) == o.status # "SHIPPED"

CanCancel(o) == o.status \notin {"SHIPPED", "CONFIRMED"}
Cancel(o) == Transition(o, "CANCELLED", "OrderCancelled")

ClearEvents(o) == [o EXCEPT !.events = <<>>]
=============================================================================
