SPECIFICATION Spec
CONSTANTS
    r1 = r1
    r2 = r2
    hosted = hosted
    ceremony = ceremony
    Runs = {r1, r2}
    WorkerOf <- TwoWorkers
    Production = TRUE
    MaxVersion = 2
    MaxRollbacks = 1
    MaxApprovals = 3
    MaxFaults = 1
INVARIANTS ApprovedTransitions
PROPERTY ShowsTruth
CHECK_DEADLOCK FALSE
