--------------------------- MODULE MCOrderSystem ---------------------------
(***************************************************************************)
(* An instance of OrderSystem for TLC: two orders of one unit each whose   *)
(* events interleave in every way the sagas allow.                         *)
(***************************************************************************)
EXTENDS OrderSystem, TLC

CONSTANTS r1, r2, k1, p1

MCStock == p1 :> [available |-> 2, reserved |-> 0, version |-> 0]
MCItems == [r \in Requests |-> <<[product |-> p1, qty |-> 1]>>]
MCWanted == [r \in Requests |-> [i \in 0 .. 1 |-> [p \in Stocked |-> i]]]

\* One request with a key, one without.
MCKeyOf == r1 :> k1 @@ r2 :> None
=============================================================================
