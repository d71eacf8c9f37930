SPECIFICATION Spec
CONSTANTS
  r1 = r1
  r2 = r2
  NoOwner = NoOwner
  Owners <- MCOwners
  MaxHistory = 3
  MaxFaults = 1
CHECK_DEADLOCK FALSE
SYMMETRY RunSymmetry
INVARIANTS
  HistoryBatchExact
  NoLiveMessageMissed
  DeletionSeenOrScannedOver
  ScanKeepsAnchor
