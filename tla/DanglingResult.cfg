\* What a request that fails after store_result leaves in Redis.
SPECIFICATION Spec
CONSTANTS
  r1 = r1
  r2 = r2
  r3 = r3
  k1 = k1
  k2 = k2
  k3 = k3
  p1 = p1
  p2 = p2
  p3 = p3
  None = None
  Requests = {r1, r2}
  Keys = {k1}
  KeyOf <- OneKey
  Products = {p1, p2, p3}
  Stocked = {p1, p2}
  InitialStock <- MCStock
  Items <- Singles
  Wanted <- MCWanted
  RespondFirst = FALSE
  MaxCrashes = 1
  MaxOverdue = 0
INVARIANTS
  CompletedKeyHasOrder
