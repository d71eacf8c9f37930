SPECIFICATION FairSpec
CONSTANTS
  m1 = m1
  m2 = m2
  p1 = p1
  w1 = w1
  w2 = w2
  NoWorker = NoWorker
  Jobs <- MCJobs
  Roots <- MCRoots
  ChildrenOf <- MCChildrenOf
  Before <- MCBefore
  Workers <- MCWorkers
  MaxAttempts = 2
  Limit = 2
  MaxCalls = 1
CHECK_DEADLOCK FALSE
INVARIANTS
  AttemptsAccounted
  ResultOfLastAttempt
  ChildrenWithParent
  MessageOrder
PROPERTIES
  LiveLeaseKept
  ImplementsOutcomes
  EveryJobEnds
