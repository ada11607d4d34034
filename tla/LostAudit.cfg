\* What a compensated saga leaves in saga_logs.
SPECIFICATION Spec
CONSTANTS
  r1 = r1
  r2 = r2
  r3 = r3
  k1 = k1
  k2 = k2
  k3 = k3
  p1 = p1
  p2 = p2
  p3 = p3
  None = None
  Requests = {r1, r2, r3}
  Keys = {k1, k2, k3}
  KeyOf <- OwnKeys
  Products = {p1, p2, p3}
  Stocked = {p1, p2}
  InitialStock <- MCStock
  Items <- Oddities
  Wanted <- MCWanted
  RespondFirst = FALSE
  MaxCrashes = 0
  MaxOverdue = 0
INVARIANTS
  FailedSagaIsAudited
