---------------------------- MODULE MCMemorySaga ----------------------------
(***************************************************************************)
(* An instance of MemorySaga for TLC: an order that takes one product, one *)
(* that fails at its second line once the other has it, one that names a   *)
(* product nobody seeded, and one without lines.                           *)
(***************************************************************************)
EXTENDS MemorySaga, SequencesExt

CONSTANTS o1, o2, o3, o4, p1, p2, p3

Line(p, q) == [product |-> p, qty |-> q]

\* Two units of p1; one of the three of p2 is reserved already.
MCStock ==
  p1 :> [available |-> 2, reserved |-> 0, version |-> 0]
    @@ p2 :> [available |-> 3, reserved |-> 1, version |-> 7]

MCItems ==
  o1 :> <<Line(p1, 1), Line(p1, 1)>> @@ o2 :> <<Line(p2, 1), Line(p1, 1)>>
    @@ o3 :> <<Line(p2, 1), Line(p3, 1)>> @@ o4 :> <<>>

\* The prefix sums of Items that PrefixAssumption describes.
MCWanted ==
  [o \in Orders |->
    [i \in 0 .. Len(Items[o]) |->
      [p \in Stocked |->
        FoldLeft(LAMBDA n, l : IF l.product = p THEN n + l.qty ELSE n,
                 0, SubSeq(Items[o], 1, i))]]]
=============================================================================
