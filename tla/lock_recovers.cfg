SPECIFICATION FairSpec
CONSTANTS
    Procs = {p1, p2, p3}
    NoFile = NoFile
    CrashPoints <- LockHeld
PROPERTY DeadFilesYield
CHECK_DEADLOCK FALSE
