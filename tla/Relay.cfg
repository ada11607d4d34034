\* Overlapping runs with batches smaller than the backlog; exceptions are
\* caught, runs die, beat goes on.
SPECIFICATION FairSpec
CONSTANTS
  o1 = o1
  o2 = o2
  Orders = {o1, o2}
  Events <- MCEvents
  RowSets <- Pairs
  Runs = {w1, w2}
  BatchSize = 2
  MaxFailures = 1
  MaxErrors = 1
INVARIANTS
  TypeOK
  SentWasPublished
  RelayInv
  NoLockCycle
  SettledFromOldest
PROPERTIES
  OrderedPublication
  RunsGetShorter
  EveryEventSettled
