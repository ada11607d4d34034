\* What a failed order keeps reserved without a transaction.
SPECIFICATION Spec
CONSTANTS
  o1 = o1
  o2 = o2
  o3 = o3
  o4 = o4
  p1 = p1
  p2 = p2
  p3 = p3
  None = None
  Orders = {o1, o2, o3, o4}
  Keys = {k1, k2}
  Products = {p1, p2, p3}
  Stocked = {p1, p2}
  InitialStock <- MCStock
  Items <- MCItems
  Wanted <- MCWanted
  MaxCalls = 3
INVARIANTS
  FailedHoldNothing
CHECK_DEADLOCK FALSE
