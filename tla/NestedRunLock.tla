---------------------------- MODULE NestedRunLock ----------------------------
(***************************************************************************)
(* The lock that keeps live-refresh to one TMS session on a host           *)
(* (lib/pikiio-live-refresh-lock.js, used by scripts/live-refresh.js): a   *)
(* run-lock file, changed only under a second file that serializes the     *)
(* processes that change it.  Either file is reclaimed when the process    *)
(* that wrote it is dead.                                                  *)
(*                                                                         *)
(* Every await of the code is a point where other processes move: each     *)
(* file operation is a step of its own.  A process runs live-refresh once, *)
(* and its pid is not used again.                                          *)
(*                                                                         *)
(* Abstracted: the contents of the files beyond who wrote them, the names  *)
(* of archived files, evidence of another host or schema, and failing      *)
(* writes, after which a process removes its file and exits.               *)
(***************************************************************************)
CONSTANTS
    Procs,          \* the processes that ever run live-refresh
    NoFile,
    CrashPoints     \* where a process may die

Purposes == {"acquire", "release"}

Points == {"open_operation", "write_operation", "read_operation", "archive_operation",
           "open_lock", "write_lock", "read_lock", "archive_lock", "reopen_lock",
           "check_operation", "unlink_operation", "session", "check_lock", "unlink_lock",
           "exited"}

(* Where a process has not opened the file at operationPath, or has given  *)
(* it back.                                                                *)
Unserialized == {"open_operation", "read_operation", "archive_operation", "session", "exited"}

ASSUME LockAssumption ==
    /\ CrashPoints \subseteq Points
    /\ NoFile \notin [by : Procs, purpose : Purposes, written : BOOLEAN]

VARIABLES
    operation,    \* the file at operationPath
    lock,         \* the file at lockPath
    pc,
    purpose,      \* what a process is serialized for
    outcome       \* where it goes when it gives the serialization back

vars == <<operation, lock, pc, purpose, outcome>>

Init ==
    /\ operation = NoFile
    /\ lock = NoFile
    /\ pc = [p \in Procs |-> "open_operation"]
    /\ purpose = [p \in Procs |-> "acquire"]
    /\ outcome = [p \in Procs |-> "exited"]

Alive(p) == pc[p] # "exited"

(* The file p opens now; nobody else ever opens one like it. *)
New(p) == [by |-> p, purpose |-> purpose[p], written |-> FALSE]
Mine(file, p) == file # NoFile /\ file.by = p /\ file.purpose = purpose[p]

Goto(p, point) == pc' = [pc EXCEPT ![p] = point]
-----------------------------------------------------------------------------
(* acquireSerialization *)
OpenOperation(p) ==
    /\ pc[p] = "open_operation"
    /\ IF operation = NoFile THEN operation' = New(p) /\ Goto(p, "write_operation")
                             ELSE UNCHANGED operation /\ Goto(p, "read_operation")
    /\ UNCHANGED <<lock, purpose, outcome>>

(* The handle writes its own file, wherever it has been moved to. *)
WriteOperation(p) ==
    /\ pc[p] = "write_operation"
    /\ operation' = IF Mine(operation, p) THEN [operation EXCEPT !.written = TRUE] ELSE operation
    /\ Goto(p, IF purpose[p] = "acquire" THEN "open_lock" ELSE "check_lock")
    /\ UNCHANGED <<lock, purpose, outcome>>

(* mutants: a file that has been there for long is reclaimed; the liveness *)
(* of its owner is taken the wrong way round                               *)
MutantReclaimableByAge(file) == file.written
MutantReclaimableLive(file) == file.written /\ Alive(file.by)

Reclaimable(file) == file.written /\ ~Alive(file.by)

(* The attempts of one call are bounded: a retry may be its end.  A file   *)
(* that is not written yet is ambiguous evidence, and also the end.        *)
ReadOperation(p) ==
    /\ pc[p] = "read_operation"
    /\ IF operation # NoFile /\ Reclaimable(operation) THEN Goto(p, "archive_operation")
       ELSE \/ Goto(p, "exited")
            \/ /\ operation # NoFile => operation.written
               /\ Goto(p, "open_operation")
    /\ UNCHANGED <<operation, lock, purpose, outcome>>

ArchiveOperation(p) ==
    /\ pc[p] = "archive_operation"
    /\ operation' = NoFile
    /\ Goto(p, "open_operation") \/ Goto(p, "exited")
    /\ UNCHANGED <<lock, purpose, outcome>>
-----------------------------------------------------------------------------
(* acquireNestedRunLock, serialized *)
GiveUp(p) ==
    /\ Goto(p, "check_operation")
    /\ outcome' = [outcome EXCEPT ![p] = "exited"]

CreateLock(p) == lock' = New(p) /\ Goto(p, "write_lock") /\ UNCHANGED outcome

OpenLock(p) ==
    /\ pc[p] = "open_lock"
    /\ IF lock = NoFile THEN CreateLock(p)
                        ELSE Goto(p, "read_lock") /\ UNCHANGED <<lock, outcome>>
    /\ UNCHANGED <<operation, purpose>>

ReadLock(p) ==
    /\ pc[p] = "read_lock"
    /\ IF lock = NoFile THEN Goto(p, "reopen_lock") /\ UNCHANGED outcome
       ELSE IF Reclaimable(lock) THEN Goto(p, "archive_lock") /\ UNCHANGED outcome
       ELSE GiveUp(p)
    /\ UNCHANGED <<operation, lock, purpose>>

ArchiveLock(p) ==
    /\ pc[p] = "archive_lock"
    /\ IF lock = NoFile THEN GiveUp(p) ELSE Goto(p, "reopen_lock") /\ UNCHANGED outcome
    /\ lock' = NoFile
    /\ UNCHANGED <<operation, purpose>>

ReopenLock(p) ==
    /\ pc[p] = "reopen_lock"
    /\ IF lock = NoFile THEN CreateLock(p) ELSE GiveUp(p) /\ UNCHANGED lock
    /\ UNCHANGED <<operation, purpose>>

WriteLock(p) ==
    /\ pc[p] = "write_lock"
    /\ lock' = IF Mine(lock, p) THEN [lock EXCEPT !.written = TRUE] ELSE lock
    /\ outcome' = [outcome EXCEPT ![p] = "session"]
    /\ Goto(p, "check_operation")
    /\ UNCHANGED <<operation, purpose>>
-----------------------------------------------------------------------------
(* releaseSerialization: a file that is gone is fine, another's is an      *)
(* error, after which the process exits and leaves what it has.            *)
CheckOperation(p) ==
    /\ pc[p] = "check_operation"
    /\ Goto(p, IF operation = NoFile THEN outcome[p]
               ELSE IF Mine(operation, p) THEN "unlink_operation" ELSE "exited")
    /\ UNCHANGED <<operation, lock, purpose, outcome>>

UnlinkOperation(p) ==
    /\ pc[p] = "unlink_operation"
    /\ operation' = NoFile
    /\ Goto(p, IF operation = NoFile THEN "exited" ELSE outcome[p])
    /\ UNCHANGED <<lock, purpose, outcome>>
-----------------------------------------------------------------------------
(* The session ends, well or not, and the run lock is released. *)
EndSession(p) ==
    /\ pc[p] = "session"
    /\ purpose' = [purpose EXCEPT ![p] = "release"]
    /\ outcome' = [outcome EXCEPT ![p] = "exited"]
    /\ Goto(p, "open_operation")
    /\ UNCHANGED <<operation, lock>>

HoldsLock(p) == lock # NoFile /\ lock.by = p /\ lock.written

CheckLock(p) ==
    /\ pc[p] = "check_lock"
    /\ Goto(p, IF HoldsLock(p) THEN "unlink_lock" ELSE "check_operation")
    /\ UNCHANGED <<operation, lock, purpose, outcome>>

UnlinkLock(p) ==
    /\ pc[p] = "unlink_lock"
    /\ lock' = NoFile
    /\ Goto(p, "check_operation")
    /\ UNCHANGED <<operation, purpose, outcome>>

Crash(p) ==
    /\ pc[p] \in CrashPoints \ {"exited"}
    /\ Goto(p, "exited")
    /\ UNCHANGED <<operation, lock, purpose, outcome>>

Step(p) ==
    \/ OpenOperation(p) \/ WriteOperation(p) \/ ReadOperation(p) \/ ArchiveOperation(p)
    \/ OpenLock(p) \/ ReadLock(p) \/ ArchiveLock(p) \/ ReopenLock(p) \/ WriteLock(p)
    \/ CheckOperation(p) \/ UnlinkOperation(p)
    \/ EndSession(p) \/ CheckLock(p) \/ UnlinkLock(p)

Next == \E p \in Procs : Step(p) \/ Crash(p)

Spec == Init /\ [][Next]_vars
FairSpec == Spec /\ \A p \in Procs : WF_vars(Step(p))
-----------------------------------------------------------------------------
File == [by : Procs, purpose : Purposes, written : BOOLEAN]

(* The files and the points are what they should be, and no process is     *)
(* sent to a session by giving its lock back.                              *)
TypeOK ==
    /\ operation \in File \union {NoFile}
    /\ lock \in File \union {NoFile}
    /\ pc \in [Procs -> Points]
    /\ purpose \in [Procs -> Purposes]
    /\ outcome \in [Procs -> {"session", "exited"}]
    /\ \A p \in Procs : outcome[p] = "session" => purpose[p] = "acquire"

(* "live-refresh is already running; refusing a second TMS session"        *)
(* (lib/pikiio-live-refresh-lock.js:290): there is never more than one     *)
(* process in its session.                                                 *)
InSession(p) == pc[p] = "session"
OneSession == \A p, q \in Procs : InSession(p) /\ InSession(q) => p = q

(* "a live run lock is never stolen"                                       *)
(* (tests/pikiio-live-refresh-lock.test.js:213): from the moment it is     *)
(* written to the end of its session, the run lock of a live process is at *)
(* lockPath.                                                               *)
Owns(p) == Alive(p) /\ (InSession(p) \/ outcome[p] = "session")
LiveLockStays == \A p \in Procs : Owns(p) => HoldsLock(p)

(* "a live serializer is never stolen"                                     *)
(* (tests/pikiio-live-refresh-lock.test.js:145): as long as the process    *)
(* that serialized itself is alive, only a step of its own changes the     *)
(* file at operationPath.                                                  *)
LiveSerializerStays ==
    [][ operation # NoFile /\ Alive(operation.by) /\ operation' # operation
          => pc'[operation.by] # pc[operation.by]
      ]_vars

(* A process that died serialized, or in its session, is in nobody's way:  *)
(* whoever comes across one of its files moves it out of the way           *)
(* (acquireSerialization and acquireNestedRunLock, the archiving renames). *)
DeadFile(file) == file # NoFile /\ file.written /\ ~Alive(file.by)
DeadFilesYield ==
    \A p \in Procs :
      /\ (pc[p] = "open_operation" /\ DeadFile(operation)) ~> ~DeadFile(operation)
      /\ (pc[p] = "open_lock" /\ DeadFile(lock)) ~> ~DeadFile(lock)
=============================================================================
