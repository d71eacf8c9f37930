SPECIFICATION FairSpec
CONSTANTS
  r1 = r1
  r2 = r2
  NoOwner = NoOwner
  Owners <- MCOwners
  MaxHistory = 2
  MaxFaults = 2
CHECK_DEADLOCK FALSE
INVARIANTS
  ReconcileHasGap
  CommitsChain
PROPERTIES
  CursorNeverRegresses
  ClosedBatchesFrozen
  Covers
  CatchesUp
