\* The API and the worker together: every fault of the sagas, and the death of a
\* run.
SPECIFICATION FairSystem
CONSTANTS
  r1 = r1
  r2 = r2
  k1 = k1
  p1 = p1
  None = None
  Requests = {r1, r2}
  Keys = {k1}
  KeyOf <- MCKeyOf
  Products = {p1}
  Stocked = {p1}
  InitialStock <- MCStock
  Items <- MCItems
  Wanted <- MCWanted
  RespondFirst = FALSE
  MaxCrashes = 0
  MaxOverdue = 0
  Runs = {w1}
  BatchSize = 5
  MaxFailures = 0
  MaxErrors = 1
INVARIANTS
  TableInv
  OnlyConfirmedPublished
PROPERTIES
  SagaOrderKept
  ImplementsRelay
  AcceptedIsAnnounced
