\* The same order of reply and commit, asked what a 202 is worth.
SPECIFICATION Spec
CONSTANTS
  r1 = r1
  r2 = r2
  r3 = r3
  k1 = k1
  k2 = k2
  k3 = k3
  p1 = p1
  p2 = p2
  p3 = p3
  None = None
  Requests = {r1, r2}
  Keys = {k1}
  KeyOf <- OneKey
  Products = {p1, p2, p3}
  Stocked = {p1, p2}
  InitialStock <- MCStock
  Items <- Singles
  Wanted <- MCWanted
  RespondFirst = TRUE
  MaxCrashes = 0
  MaxOverdue = 0
INVARIANTS
  AcceptedIsDurable
