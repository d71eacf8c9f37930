\* Two workers and no fault at all.
SPECIFICATION Spec
CONSTANTS
  w1 = w1
  w2 = w2
  alert = alert
  refresh = refresh
  Workers = {w1, w2}
  Jobs = {alert}
  MaySkip = {}
  Gone = gone
  MaxJobs = 1
  MaxAttempts = 1
  MaxFaults = 0
INVARIANT OneWorker
