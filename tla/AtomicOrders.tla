----------------------------- MODULE AtomicOrders -----------------------------
(***************************************************************************)
(* What the order service promises: an order is placed in one step that    *)
(* takes all of its stock or does not happen, and an idempotency key       *)
(* places at most one order until it is forgotten.  A request that is      *)
(* under way then, and an order without a key, are not protected.          *)
(***************************************************************************)
EXTENDS Integers

CONSTANTS
  Requests, Keys, KeyOf, Stocked,
  Available,  \* Available[p]: units of product p there are
  Taken,      \* Taken[p]: units reserved at the start
  Demand,     \* Demand[r][p]: units of p that request r asks for
  Feasible    \* the requests that name only products there are

VARIABLES
  reserved,   \* reserved[p]: units reserved now
  orders,     \* requests whose order exists
  placed,     \* placed[k]: requests placed under key k since it was forgotten
  late        \* requests under way when their key was forgotten

Init ==
  /\ reserved = Taken
  /\ orders = {}
  /\ placed = [k \in Keys |-> {}]
  /\ late = {}

Place(r) ==
  /\ r \in Feasible \ orders
  /\ KeyOf[r] \in Keys /\ r \notin late => placed[KeyOf[r]] \subseteq late
  /\ \A p \in Stocked : reserved[p] + Demand[r][p] <= Available[p]
  /\ reserved' = [p \in Stocked |-> reserved[p] + Demand[r][p]]
  /\ orders' = orders \cup {r}
  /\ placed' = [k \in Keys |-> IF k = KeyOf[r] THEN placed[k] \cup {r} ELSE placed[k]]
  /\ UNCHANGED late

Forget(k) ==
  /\ placed' = [placed EXCEPT ![k] = {}]
  /\ \E S \in SUBSET {r \in Requests \ orders : KeyOf[r] = k} : late' = late \cup S
  /\ UNCHANGED <<reserved, orders>>

Next ==
  \/ \E r \in Requests : Place(r)
  \/ \E k \in Keys : Forget(k)

Spec == Init /\ [][Next]_<<reserved, orders, placed, late>>
=============================================================================
