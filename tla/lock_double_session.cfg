SPECIFICATION Spec
CONSTANTS
    Procs = {p1, p2, p3}
    NoFile = NoFile
    CrashPoints <- Anywhere
SYMMETRY Symmetric
INVARIANT OneSession
CHECK_DEADLOCK FALSE
