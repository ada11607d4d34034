\* What becomes of an event whose publication fails once.
SPECIFICATION FairSpec
CONSTANTS
  o1 = o1
  o2 = o2
  Orders = {o1, o2}
  Events <- MCEvents
  RowSets <- Pairs
  Runs = {w1}
  BatchSize = 2
  MaxFailures = 1
  MaxErrors = 0
PROPERTIES
  AtLeastOnce
