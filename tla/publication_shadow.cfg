SPECIFICATION FairSpec
CONSTANTS
    r1 = r1
    r2 = r2
    hosted = hosted
    ceremony = ceremony
    Runs = {r1, r2}
    WorkerOf <- SameWorker
    Production = FALSE
    MaxVersion = 3
    MaxRollbacks = 1
    MaxApprovals = 0
    MaxFaults = 1
INVARIANTS LinearHistory BuiltOnPredecessor
PROPERTIES EndedPairsStay EndedUnderLease ShowsTruth NewestCutSettles
CHECK_DEADLOCK FALSE
