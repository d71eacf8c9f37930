SPECIFICATION Spec
CONSTANTS
    Procs = {p1, p2, p3, p4}
    NoFile = NoFile
    CrashPoints <- Unserialized
SYMMETRY Symmetric
INVARIANTS OneSession LiveLockStays
PROPERTY LiveSerializerStays
CHECK_DEADLOCK FALSE
