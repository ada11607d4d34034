\* Orders with the same product twice, with an unknown product, with too many
\* units: compensation starts at every place. Two have the same key: duplicates
\* end whatever becomes of the original. The reply leaves before the commit
\* (FastAPI from 0.118 on). The invariants the proofs use.
SPECIFICATION FairSpec
CONSTANTS
  r1 = r1
  r2 = r2
  r3 = r3
  k1 = k1
  k2 = k2
  k3 = k3
  p1 = p1
  p2 = p2
  p3 = p3
  None = None
  Requests = {r1, r2, r3}
  Keys = {k1}
  KeyOf <- SharedKey
  Products = {p1, p2, p3}
  Stocked = {p1, p2}
  InitialStock <- MCStock
  Items <- Oddities
  Wanted <- MCWanted
  RespondFirst = TRUE
  MaxCrashes = 1
  MaxOverdue = 1
INVARIANTS
  OutcomeInv
  IndInv
  RejectedLeavesNothing
  OutboxMatchesOrder
PROPERTIES
  EveryRequestEnds
