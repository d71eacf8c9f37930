\* Two workers, an alert or a refresh of two attempts, three faults.
SPECIFICATION FairSpec
CONSTANTS
  w1 = w1
  w2 = w2
  alert = alert
  refresh = refresh
  Workers = {w1, w2}
  Jobs = {alert, refresh}
  MaySkip = {refresh}
  Gone = gone
  MaxJobs = 1
  MaxAttempts = 2
  MaxFaults = 3
INVARIANT SucceededIsDone
INVARIANT EffectsWithinAttempts
INVARIANT SharedOnlyWhenStale
INVARIANT AloneUnlessSeized
PROPERTY EndedStays
PROPERTY QueuedEnds
