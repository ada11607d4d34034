--------------------------- MODULE MCOutboxRelay ---------------------------
(***************************************************************************)
(* Instances of OutboxRelay for TLC: the rows of two orders interleave in  *)
(* time in every way, so that the order committed last can own the oldest  *)
(* event.                                                                  *)
(***************************************************************************)
EXTENDS OutboxRelay

CONSTANTS o1, o2

MCEvents == 1 .. 4
Pairs == kSubset(2, MCEvents)
=============================================================================
