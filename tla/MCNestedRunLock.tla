-------------------------- MODULE MCNestedRunLock --------------------------
EXTENDS NestedRunLock, TLC

(* Where the processes of a run may die, apart from anywhere at all: in    *)
(* the session, or before they have given the serialization back.          *)
LockHeld == {"check_operation", "session"}
Anywhere == Points

Symmetric == Permutations(Procs)
============================================================================
