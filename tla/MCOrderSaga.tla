---------------------------- MODULE MCOrderSaga ----------------------------
(***************************************************************************)
(* Instances of OrderSaga for TLC: the orders the requests carry, the keys *)
(* they send and the stock there is.                                       *)
(***************************************************************************)
EXTENDS OrderSaga, SequencesExt

CONSTANTS r1, r2, r3, k1, k2, k3, p1, p2, p3

Line(p, q) == [product |-> p, qty |-> q]
Units(n) == [available |-> n, reserved |-> 0, version |-> 0]

\* p1 has two units left, one of them reserved by an older order; p2 has
\* two; p3 has no row.
MCStock == p1 :> [available |-> 3, reserved |-> 1, version |-> 4] @@ p2 :> Units(2)

\* Two orders take the two products in opposite orders, which can deadlock;
\* the third makes p1 too scarce for all and moves its version once more.
Crossing == r1 :> <<Line(p1, 1), Line(p2, 1)>> @@ r2 :> <<Line(p2, 1), Line(p1, 1)>>
CrossingAndOne == Crossing @@ r3 :> <<Line(p1, 1)>>

\* The same product on two lines, a product without a row, too many units.
Oddities == r1 :> <<Line(p1, 1), Line(p1, 1)>> @@ r2 :> <<Line(p2, 1), Line(p3, 1)>>
              @@ r3 :> <<Line(p2, 1), Line(p1, 3)>>

\* One product each, for runs about keys.
Singles == [r \in Requests |-> <<Line(p1, 1)>>]

\* Every request under its own key, one of them without; two under the same; all.
OwnKeys == r1 :> k1 @@ r2 :> k2 @@ r3 :> k3
SomeKeys == r1 :> k1 @@ r2 :> k2 @@ r3 :> None
SharedKey == r1 :> k1 @@ r2 :> None @@ r3 :> k1
OneKey == [r \in Requests |-> k1]

\* Requests with the same order and the same key may be exchanged where no
\* liveness is asked.
RequestSymmetry == Permutations(Requests)

\* The prefix sums of Items that WantedAssumption describes.
MCWanted ==
  [r \in Requests |->
    [i \in 0 .. Len(Items[r]) |->
      [p \in Stocked |->
        FoldLeft(LAMBDA n, l : IF l.product = p THEN n + l.qty ELSE n,
                 0, SubSeq(Items[r], 1, i))]]]
=============================================================================
