\* The same key three times: duplicates, retries after failures and crashes, a key
\* that expires at any time, one request outliving it.
SPECIFICATION Spec
CONSTANTS
  r1 = r1
  r2 = r2
  r3 = r3
  k1 = k1
  k2 = k2
  k3 = k3
  p1 = p1
  p2 = p2
  p3 = p3
  None = None
  Requests = {r1, r2, r3}
  Keys = {k1}
  KeyOf <- OneKey
  Products = {p1, p2, p3}
  Stocked = {p1, p2}
  InitialStock <- MCStock
  Items <- Singles
  Wanted <- MCWanted
  RespondFirst = FALSE
  MaxCrashes = 1
  MaxOverdue = 1
SYMMETRY RequestSymmetry
INVARIANTS
  OutcomeInv
  OneOrderPerKey
  AcceptedIsDurable
PROPERTIES
  PlacesAtomically
