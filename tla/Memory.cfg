\* Every sequence of six calls with two keys or none: failures at each line,
\* repeated calls, taken keys. The bound on the calls stops the system.
SPECIFICATION Spec
CONSTANTS
  o1 = o1
  o2 = o2
  o3 = o3
  o4 = o4
  p1 = p1
  p2 = p2
  p3 = p3
  None = None
  Orders = {o1, o2, o3, o4}
  Keys = {k1, k2}
  Products = {p1, p2, p3}
  Stocked = {p1, p2}
  InitialStock <- MCStock
  Items <- MCItems
  Wanted <- MCWanted
  MaxCalls = 6
INVARIANTS
  MemoryInv
  TypeOK
  NoOversell
  ConfirmedHaveStock
  EventsTellOutcome
  OneAnswerPerKey
PROPERTIES
  ConfirmedStays
CHECK_DEADLOCK FALSE
