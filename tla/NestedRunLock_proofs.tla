------------------------- MODULE NestedRunLock_proofs -------------------------
(***************************************************************************)
(* What the run lock guarantees for any number of processes, as long as    *)
(* none of them dies between opening the file at operationPath and giving  *)
(* it back (DiesUnserialized).  Without that it guarantees none of this:   *)
(* the serialization itself can then be taken by two.                      *)
(*                                                                         *)
(* The argument: a process is serialized exactly while its file is at      *)
(* operationPath, so one is, and only that one changes the run lock; what  *)
(* it has found of the run lock is then still so when it acts on it.       *)
(***************************************************************************)
EXTENDS NestedRunLock, TLAPS

DiesUnserialized == CrashPoints \subseteq Unserialized

Serialized(p) == pc[p] \in Points \ Unserialized

(* The file at operationPath is that of the serialized process.  Nobody    *)
(* ever finds it dead.                                                     *)
Serialization ==
    /\ \A p \in Procs : Serialized(p) => Mine(operation, p)
    /\ operation # NoFile => Serialized(operation.by)
    /\ \A p \in Procs : pc[p] # "archive_operation"

(* What a process does with its serialization. *)
Purposeful ==
    \A p \in Procs :
        /\ pc[p] \in {"open_lock", "read_lock", "archive_lock", "reopen_lock", "write_lock"}
             => purpose[p] = "acquire"
        /\ pc[p] \in {"check_lock", "unlink_lock"} => purpose[p] = "release"

(* What it has found of the run lock. *)
Found ==
    \A p \in Procs :
        /\ pc[p] = "write_lock" => Mine(lock, p)
        /\ pc[p] = "archive_lock" => lock # NoFile /\ pc[lock.by] = "exited"
        /\ pc[p] = "unlink_lock" => HoldsLock(p)

IInv == TypeOK /\ Serialization /\ Purposeful /\ Found /\ LiveLockStays
-----------------------------------------------------------------------------
(* One process at most is serialized. *)
LEMMA OneSerialized ==
    ASSUME IInv, NEW p \in Procs, NEW q \in Procs, Serialized(p), Serialized(q)
    PROVE  p = q
  BY DEF IInv, Serialization, Mine

(* A file that is there is that of a process, and is not NoFile. *)
LEMMA FilesAreFiles ==
    /\ \A f \in File : f # NoFile /\ f.by \in Procs
    /\ \A p \in Procs : \A u \in Purposes : \A w \in BOOLEAN :
         [by |-> p, purpose |-> u, written |-> w] \in File
  BY LockAssumption DEF File

(* A step that touches neither file nor what a process is serialized for:  *)
(* the process goes where it is serialized as before, and claims nothing   *)
(* of the run lock that it has not found.                                  *)
LEMMA Moves ==
    ASSUME IInv, NEW p \in Procs, NEW point \in Points, Goto(p, point),
           UNCHANGED <<operation, lock, purpose, outcome>>,
           point \in Unserialized <=> pc[p] \in Unserialized,
           point # "archive_operation", point # "write_lock",
           point = "session" => outcome[p] = "session",
           pc[p] = "exited" => point = "exited",
           point \in {"open_lock", "read_lock", "archive_lock", "reopen_lock"}
             => purpose[p] = "acquire",
           point \in {"check_lock", "unlink_lock"} => purpose[p] = "release",
           point = "archive_lock" => lock # NoFile /\ pc[lock.by] = "exited",
           point = "unlink_lock" => HoldsLock(p)
    PROVE  IInv'
  <1>1. pc' \in [Procs -> Points] /\ pc'[p] = point /\ \A q \in Procs : q # p => pc'[q] = pc[q]
    BY DEF IInv, TypeOK, Goto
  <1>2. TypeOK'
    BY <1>1 DEF IInv, TypeOK
  <1>3. \A q \in Procs : Serialized(q)' <=> Serialized(q)
    BY <1>1 DEF Serialized, IInv, TypeOK
  <1>4. operation # NoFile => operation.by \in Procs
    BY FilesAreFiles DEF IInv, TypeOK
  <1>5. Serialization'
    BY <1>1, <1>3, <1>4 DEF IInv, Serialization, Mine
  <1>6. Purposeful'
    BY <1>1 DEF IInv, Purposeful
  <1>7. lock # NoFile => lock.by \in Procs
    BY FilesAreFiles DEF IInv, TypeOK
  <1>8. \A q \in Procs : pc[q] = "exited" => pc'[q] = "exited"
    BY <1>1
  <1>9. Found'
    BY <1>1, <1>7, <1>8 DEF IInv, Found, Mine, HoldsLock
  <1>10. LiveLockStays'
    BY <1>1, <1>8 DEF IInv, LiveLockStays, Owns, Alive, InSession, HoldsLock
  <1> QED BY <1>2, <1>5, <1>6, <1>9, <1>10 DEF IInv

(* A step that changes the file at operationPath and leaves the run lock   *)
(* alone: opening it, writing it, and giving it back.                      *)
LEMMA OperationSteps ==
    ASSUME IInv, NEW p \in Procs, OpenOperation(p) \/ WriteOperation(p) \/ UnlinkOperation(p)
    PROVE  IInv'
  <1>1. /\ pc \in [Procs -> Points] /\ purpose[p] \in Purposes /\ operation \in File \union {NoFile}
        /\ UNCHANGED <<lock, purpose, outcome>>
    BY DEF IInv, TypeOK, OpenOperation, WriteOperation, UnlinkOperation
  <1>2. CASE OpenOperation(p) /\ operation # NoFile
    <2>1. Goto(p, "read_operation") /\ UNCHANGED operation /\ pc[p] = "open_operation"
      BY <1>2 DEF OpenOperation
    <2> QED BY <1>1, <2>1, Moves DEF Points, Unserialized
  <1>3. CASE OpenOperation(p) /\ operation = NoFile
    <2>1. /\ operation' = New(p) /\ pc' = [pc EXCEPT ![p] = "write_operation"]
          /\ pc[p] = "open_operation"
      BY <1>3 DEF OpenOperation, Goto
    <2>2. operation' \in File /\ operation' # NoFile /\ Mine(operation', p) /\ operation'.by = p
      BY <1>1, <2>1, FilesAreFiles DEF New, Mine
    <2>3. \A q \in Procs : ~Serialized(q)
      BY <1>3 DEF IInv, Serialization, Mine
    <2>4. pc' \in [Procs -> Points] /\ pc'[p] = "write_operation"
          /\ \A q \in Procs : q # p => pc'[q] = pc[q]
      BY <1>1, <2>1 DEF Points
    <2>5. Serialization'
      BY <1>1, <2>2, <2>3, <2>4 DEF Serialization, Serialized, Mine, IInv, Points, Unserialized
    <2>6. TypeOK' /\ Purposeful'
      BY <1>1, <2>2, <2>4 DEF IInv, TypeOK, Purposeful
    <2>7. Found'
      <3>1. lock # NoFile => lock.by \in Procs
        BY FilesAreFiles DEF IInv, TypeOK
      <3> QED BY <1>1, <2>1, <2>4, <3>1 DEF IInv, Found, Mine, HoldsLock
    <2>8. LiveLockStays'
      BY <1>1, <2>1, <2>4 DEF IInv, LiveLockStays, Owns, Alive, InSession, HoldsLock
    <2> QED BY <2>5, <2>6, <2>7, <2>8 DEF IInv
  <1>4. CASE WriteOperation(p)
    <2>1. pc[p] = "write_operation" /\ Serialized(p) /\ Mine(operation, p)
      BY <1>4 DEF WriteOperation, IInv, Serialization, Serialized, Points, Unserialized
    <2> DEFINE point == IF purpose[p] = "acquire" THEN "open_lock" ELSE "check_lock"
    <2>2. operation' = [operation EXCEPT !.written = TRUE] /\ pc' = [pc EXCEPT ![p] = point]
      BY <1>4, <2>1 DEF WriteOperation, Goto
    <2>3. /\ operation' \in File /\ operation' # NoFile
          /\ operation'.by = operation.by /\ operation'.purpose = operation.purpose
      <3>1. operation \in File
        BY <1>1, <2>1 DEF Mine
      <3>2. operation' \in File /\ operation'.by = operation.by
            /\ operation'.purpose = operation.purpose
        BY <2>2, <3>1 DEF File
      <3> QED BY <3>2, FilesAreFiles
    <2>4. pc' \in [Procs -> Points] /\ pc'[p] = point /\ Serialized(p)'
          /\ \A q \in Procs : q # p => pc'[q] = pc[q]
      BY <1>1, <2>2 DEF Points, Serialized, Unserialized
    <2>5. \A q \in Procs : Serialized(q)' <=> Serialized(q)
      BY <2>1, <2>4 DEF Serialized
    <2>6. Serialization'
      BY <1>1, <2>1, <2>3, <2>4, <2>5, FilesAreFiles DEF Serialization, Mine, IInv
    <2>7. TypeOK' /\ Purposeful'
      BY <1>1, <2>3, <2>4 DEF IInv, TypeOK, Purposeful, Purposes
    <2>8. Found'
      <3>1. lock # NoFile => lock.by \in Procs
        BY FilesAreFiles DEF IInv, TypeOK
      <3> QED BY <1>1, <2>1, <2>4, <3>1 DEF IInv, Found, Mine, HoldsLock
    <2>9. LiveLockStays'
      BY <1>1, <2>1, <2>4 DEF IInv, LiveLockStays, Owns, Alive, InSession, HoldsLock
    <2> QED BY <2>6, <2>7, <2>8, <2>9 DEF IInv
  <1>5. CASE UnlinkOperation(p)
    <2>1. pc[p] = "unlink_operation" /\ Serialized(p) /\ Mine(operation, p)
      BY <1>5 DEF UnlinkOperation, IInv, Serialization, Serialized, Points, Unserialized
    <2>2. operation' = NoFile /\ pc' = [pc EXCEPT ![p] = outcome[p]]
      BY <1>5, <2>1 DEF UnlinkOperation, Goto, Mine
    <2>3. pc' \in [Procs -> Points] /\ pc'[p] = outcome[p] /\ outcome[p] \in {"session", "exited"}
          /\ \A q \in Procs : q # p => pc'[q] = pc[q]
      BY <1>1, <2>2 DEF Points, IInv, TypeOK
    <2>4. \A q \in Procs : ~Serialized(q)'
      <3>1. ~Serialized(p)'
        BY <2>3 DEF Serialized, Unserialized
      <3>2. \A q \in Procs : q # p => ~Serialized(q)
        BY <2>1, OneSerialized
      <3> QED BY <2>3, <3>1, <3>2 DEF Serialized
    <2>5. Serialization'
      BY <2>2, <2>3, <2>4 DEF Serialization, IInv
    <2>6. TypeOK' /\ Purposeful'
      BY <1>1, <2>2, <2>3 DEF IInv, TypeOK, Purposeful
    <2>7. Found'
      <3>1. lock # NoFile => lock.by \in Procs
        BY FilesAreFiles DEF IInv, TypeOK
      <3> QED BY <1>1, <2>1, <2>3, <3>1 DEF IInv, Found, Mine, HoldsLock
    <2>8. LiveLockStays'
      BY <1>1, <2>1, <2>3 DEF IInv, LiveLockStays, Owns, Alive, InSession, HoldsLock
    <2> QED BY <2>5, <2>6, <2>7, <2>8 DEF IInv
  <1> QED BY <1>2, <1>3, <1>4, <1>5

(* A step of the serialized process, which stays serialized: it may change *)
(* the run lock if there is none, or if it is its own or a dead one's.     *)
LEMMA Critical ==
    ASSUME IInv, NEW p \in Procs, Serialized(p), UNCHANGED <<operation, purpose>>,
           NEW point \in {"check_operation", "reopen_lock", "write_lock"}, Goto(p, point),
           NEW o \in {"session", "exited"}, outcome' = [outcome EXCEPT ![p] = o],
           lock' \in File \union {NoFile},
           lock' # lock => lock = NoFile \/ lock.by = p \/ pc[lock.by] = "exited",
           o = "session" \/ point # "check_operation" => purpose[p] = "acquire",
           o = "session" => HoldsLock(p)',
           point = "write_lock" => Mine(lock, p)'
    PROVE  IInv'
  <1>0. point \in Points \ Unserialized
    BY DEF Points, Unserialized
  <1>1. /\ pc' \in [Procs -> Points] /\ pc'[p] = point /\ Serialized(p)'
        /\ outcome' \in [Procs -> {"session", "exited"}] /\ outcome'[p] = o
        /\ \A q \in Procs : q # p => pc'[q] = pc[q] /\ outcome'[q] = outcome[q]
    BY <1>0 DEF IInv, TypeOK, Goto, Serialized
  <1>2. \A q \in Procs : q # p => pc[q] \notin {"write_lock", "archive_lock", "unlink_lock"}
    BY OneSerialized DEF Serialized, Points, Unserialized
  <1>3. TypeOK' /\ Purposeful'
    BY <1>1 DEF IInv, TypeOK, Purposeful
  <1>4. \A q \in Procs : Serialized(q)' <=> Serialized(q)
    BY <1>1 DEF Serialized
  <1>5. Serialization'
    <2>1. operation # NoFile => operation.by \in Procs
      BY FilesAreFiles DEF IInv, TypeOK
    <2> QED BY <1>1, <1>4, <2>1 DEF IInv, Serialization, Mine
  <1>6. Found'
    BY <1>1, <1>2 DEF IInv, Found, Mine
  <1>7. LiveLockStays'
    <2>1. SUFFICES ASSUME NEW q \in Procs, Owns(q)' PROVE HoldsLock(q)'
      BY DEF LiveLockStays
    <2>2. CASE q = p
      <3>1. ~InSession(p)'
        BY <1>1 DEF InSession
      <3> QED BY <1>1, <2>1, <2>2, <3>1 DEF Owns
    <2>3. CASE q # p
      <3>1. Owns(q) /\ pc[q] # "exited"
        BY <1>1, <2>1, <2>3 DEF Owns, Alive, InSession
      <3>2. HoldsLock(q)
        BY <3>1 DEF IInv, LiveLockStays
      <3>3. lock' = lock
        BY <2>3, <3>1, <3>2 DEF HoldsLock
      <3> QED BY <3>2, <3>3 DEF HoldsLock
    <2> QED BY <2>2, <2>3
  <1> QED BY <1>3, <1>5, <1>6, <1>7 DEF IInv

(* The steps on the run lock itself. *)
LEMMA LockSteps ==
    ASSUME IInv, NEW p \in Procs,
           \/ OpenLock(p) \/ ReadLock(p) \/ ArchiveLock(p) \/ ReopenLock(p) \/ WriteLock(p)
           \/ CheckLock(p) \/ UnlinkLock(p)
    PROVE  IInv'
  <1>1. Serialized(p) /\ UNCHANGED <<operation, purpose>>
    <2>1. pc[p] \in {"open_lock", "read_lock", "archive_lock", "reopen_lock", "write_lock",
                     "check_lock", "unlink_lock"} /\ UNCHANGED <<operation, purpose>>
      BY DEF OpenLock, ReadLock, ArchiveLock, ReopenLock, WriteLock, CheckLock, UnlinkLock
    <2> QED BY <2>1 DEF Serialized, Points, Unserialized
  <1>2. /\ lock \in File \union {NoFile} /\ purpose[p] \in Purposes
        /\ outcome \in [Procs -> {"session", "exited"}]
    BY DEF IInv, TypeOK
  <1>3. outcome[p] = "session" => purpose[p] = "acquire" /\ HoldsLock(p)
    BY <1>1 DEF IInv, TypeOK, LiveLockStays, Owns, Alive, Serialized, Unserialized
  <1>4. outcome[p] # "session" => outcome = [outcome EXCEPT ![p] = "exited"]
    BY <1>2
  <1>5. ASSUME lock' = lock, GiveUp(p) PROVE IInv'
    <2>1. Goto(p, "check_operation") /\ outcome' = [outcome EXCEPT ![p] = "exited"]
          /\ lock' \in File \union {NoFile}
      BY <1>2, <1>5 DEF GiveUp
    <2> QED BY <1>1, <1>5, <2>1, Critical
  <1>6. ASSUME lock = NoFile, CreateLock(p), purpose[p] = "acquire" PROVE IInv'
    <2>1. Goto(p, "write_lock") /\ lock' \in File /\ Mine(lock, p)'
      <3>1. Goto(p, "write_lock") /\ lock' = New(p) /\ purpose'[p] = purpose[p]
        BY <1>1, <1>6 DEF CreateLock
      <3> QED BY <1>2, <3>1, FilesAreFiles DEF New, Mine
    <2>2. outcome' = [outcome EXCEPT ![p] = "exited"]
      BY <1>3, <1>4, <1>6 DEF CreateLock, HoldsLock
    <2> QED BY <1>1, <1>6, <2>1, <2>2, Critical
  <1>7. CASE OpenLock(p) \/ ReopenLock(p)
    <2>1. purpose[p] = "acquire"
      BY <1>7 DEF OpenLock, ReopenLock, IInv, Purposeful
    <2>2. CASE OpenLock(p) /\ lock # NoFile
      <3>1. /\ Goto(p, "read_lock") /\ pc[p] = "open_lock"
            /\ UNCHANGED <<operation, lock, purpose, outcome>>
        BY <2>2 DEF OpenLock
      <3> QED BY <2>1, <3>1, Moves DEF Points, Unserialized
    <2> QED BY <1>5, <1>6, <1>7, <2>1, <2>2 DEF OpenLock, ReopenLock
  <1>8. CASE ReadLock(p)
    <2>1. purpose[p] = "acquire" /\ pc[p] = "read_lock"
      BY <1>8 DEF ReadLock, IInv, Purposeful
    <2>2. CASE lock = NoFile
      <3>1. Goto(p, "reopen_lock") /\ UNCHANGED <<operation, lock, purpose, outcome>>
        BY <1>8, <2>2 DEF ReadLock
      <3> QED BY <2>1, <3>1, Moves DEF Points, Unserialized
    <2>3. CASE lock # NoFile /\ Reclaimable(lock)
      <3>1. Goto(p, "archive_lock") /\ UNCHANGED <<operation, lock, purpose, outcome>>
        BY <1>8, <2>3 DEF ReadLock
      <3>2. pc[lock.by] = "exited"
        BY <2>3 DEF Reclaimable, Alive
      <3> QED BY <2>1, <2>3, <3>1, <3>2, Moves DEF Points, Unserialized
    <2>4. CASE lock # NoFile /\ ~Reclaimable(lock)
      BY <1>5, <1>8, <2>4 DEF ReadLock
    <2> QED BY <2>2, <2>3, <2>4
  <1>9. CASE ArchiveLock(p)
    <2>1. purpose[p] = "acquire" /\ lock # NoFile /\ pc[lock.by] = "exited"
      BY <1>9 DEF ArchiveLock, IInv, Purposeful, Found
    <2>2. lock' = NoFile /\ Goto(p, "reopen_lock") /\ outcome' = outcome
      BY <1>9, <2>1 DEF ArchiveLock
    <2>3. outcome' = [outcome EXCEPT ![p] = "exited"]
      BY <1>1, <1>3, <1>4, <2>1, <2>2 DEF HoldsLock, Serialized, Unserialized
    <2> QED BY <1>1, <2>1, <2>2, <2>3, Critical
  <1>10. CASE WriteLock(p)
    <2>1. purpose[p] = "acquire" /\ Mine(lock, p)
      BY <1>10 DEF WriteLock, IInv, Purposeful, Found
    <2>2. /\ lock' = [lock EXCEPT !.written = TRUE] /\ Goto(p, "check_operation")
          /\ outcome' = [outcome EXCEPT ![p] = "session"]
      BY <1>10, <2>1 DEF WriteLock
    <2>3. lock \in File /\ lock.by = p
      BY <1>2, <2>1 DEF Mine
    <2>4. lock' \in File /\ HoldsLock(p)'
      <3>1. lock' \in File /\ lock'.by = p /\ lock'.written
        BY <2>2, <2>3 DEF File
      <3> QED BY <3>1, FilesAreFiles DEF HoldsLock
    <2>5. lock' # lock => lock = NoFile \/ lock.by = p \/ pc[lock.by] = "exited"
      BY <2>3
    <2> QED BY <1>1, <2>1, <2>2, <2>4, <2>5, Critical
  <1>11. CASE CheckLock(p)
    <2>1. /\ pc[p] = "check_lock" /\ purpose[p] = "release"
          /\ UNCHANGED <<operation, lock, purpose, outcome>>
      BY <1>11 DEF CheckLock, IInv, Purposeful
    <2>2. CASE HoldsLock(p)
      <3>1. Goto(p, "unlink_lock")
        BY <1>11, <2>2 DEF CheckLock
      <3> QED BY <2>1, <2>2, <3>1, Moves DEF Points, Unserialized
    <2>3. CASE ~HoldsLock(p)
      <3>1. Goto(p, "check_operation")
        BY <1>11, <2>3 DEF CheckLock
      <3> QED BY <2>1, <3>1, Moves DEF Points, Unserialized
    <2> QED BY <2>2, <2>3
  <1>12. CASE UnlinkLock(p)
    <2>1. purpose[p] = "release" /\ lock.by = p
      BY <1>12 DEF UnlinkLock, IInv, Purposeful, Found, HoldsLock
    <2>2. lock' = NoFile /\ Goto(p, "check_operation") /\ outcome' = outcome
      BY <1>12 DEF UnlinkLock
    <2>3. outcome' = [outcome EXCEPT ![p] = "exited"]
      BY <1>3, <1>4, <2>1, <2>2
    <2> QED BY <1>1, <2>1, <2>2, <2>3, Critical
  <1> QED BY <1>7, <1>8, <1>9, <1>10, <1>11, <1>12

(* The end of a session: from here on the process asks for nothing but to  *)
(* give its run lock back.                                                 *)
LEMMA SessionEnds ==
    ASSUME IInv, NEW p \in Procs, EndSession(p)
    PROVE  IInv'
  <1>1. /\ pc[p] = "session" /\ pc' \in [Procs -> Points] /\ pc'[p] = "open_operation"
        /\ purpose' \in [Procs -> Purposes]
        /\ outcome' \in [Procs -> {"session", "exited"}] /\ outcome'[p] = "exited"
        /\ \A q \in Procs : q # p => /\ pc'[q] = pc[q] /\ purpose'[q] = purpose[q]
                                     /\ outcome'[q] = outcome[q]
        /\ UNCHANGED <<operation, lock>>
    BY DEF EndSession, Goto, IInv, TypeOK, Points, Purposes
  <1>2. TypeOK'
    BY <1>1 DEF IInv, TypeOK
  <1>3. ~Serialized(p) /\ ~Serialized(p)'
    BY <1>1 DEF Serialized, Unserialized
  <1>4. \A q \in Procs : q # p => (Serialized(q)' <=> Serialized(q))
    BY <1>1 DEF Serialized
  <1>5. Serialization'
    <2>1. operation # NoFile => operation.by \in Procs
      BY FilesAreFiles DEF IInv, TypeOK
    <2> QED BY <1>1, <1>3, <1>4, <2>1 DEF IInv, Serialization, Mine
  <1>6. Purposeful'
    BY <1>1 DEF IInv, Purposeful
  <1>7. Found'
    <2>1. lock # NoFile => lock.by \in Procs
      BY FilesAreFiles DEF IInv, TypeOK
    <2> QED BY <1>1, <2>1 DEF IInv, Found, Mine, HoldsLock
  <1>8. LiveLockStays'
    BY <1>1 DEF IInv, LiveLockStays, Owns, Alive, InSession, HoldsLock
  <1> QED BY <1>2, <1>5, <1>6, <1>7, <1>8 DEF IInv

(* The steps that change nothing but where the process is: reading the     *)
(* evidence at operationPath, checking it before it is removed, dying.     *)
(* Nobody finds a dead serializer.                                         *)
LEMMA QuietSteps ==
    ASSUME DiesUnserialized, IInv, NEW p \in Procs,
           \/ ReadOperation(p) \/ ArchiveOperation(p) \/ CheckOperation(p) \/ Crash(p)
    PROVE  IInv'
  <1>1. CASE ReadOperation(p)
    <2>1. ~(operation # NoFile /\ Reclaimable(operation))
      BY DEF IInv, Serialization, Serialized, Reclaimable, Alive, Unserialized
    <2>2. PICK point \in {"exited", "open_operation"} : Goto(p, point)
      BY <1>1, <2>1 DEF ReadOperation
    <2>3. pc[p] = "read_operation" /\ UNCHANGED <<operation, lock, purpose, outcome>>
      BY <1>1 DEF ReadOperation
    <2> QED BY <2>2, <2>3, Moves DEF Points, Unserialized
  <1>2. CASE ArchiveOperation(p)
    BY <1>2 DEF ArchiveOperation, IInv, Serialization
  <1>3. CASE CheckOperation(p)
    <2>1. pc[p] = "check_operation" /\ UNCHANGED <<operation, lock, purpose, outcome>>
      BY <1>3 DEF CheckOperation
    <2>2. Mine(operation, p)
      BY <2>1 DEF IInv, Serialization, Serialized, Points, Unserialized
    <2>3. Goto(p, "unlink_operation")
      BY <1>3, <2>2 DEF CheckOperation, Mine
    <2> QED BY <2>1, <2>3, Moves DEF Points, Unserialized
  <1>4. CASE Crash(p)
    <2>1. pc[p] \in Unserialized /\ Goto(p, "exited")
          /\ UNCHANGED <<operation, lock, purpose, outcome>>
      BY <1>4 DEF Crash, DiesUnserialized
    <2> QED BY <2>1, Moves DEF Points, Unserialized
  <1> QED BY <1>1, <1>2, <1>3, <1>4

(* The invariant holds where no process has done anything.                 *)
LEMMA InitInv == Init => IInv
  <1> SUFFICES ASSUME Init PROVE IInv
    OBVIOUS
  <1>1. /\ operation = NoFile /\ lock = NoFile
        /\ pc = [p \in Procs |-> "open_operation"]
        /\ purpose = [p \in Procs |-> "acquire"] /\ outcome = [p \in Procs |-> "exited"]
    BY DEF Init
  <1>2. TypeOK
    BY <1>1 DEF TypeOK, Points, Purposes
  <1>3. \A p \in Procs : ~Serialized(p)
    BY <1>1 DEF Serialized, Unserialized
  <1>4. Serialization /\ Purposeful /\ Found /\ LiveLockStays
    BY <1>1, <1>3 DEF Serialization, Purposeful, Found, LiveLockStays, Owns, InSession
  <1> QED BY <1>2, <1>4 DEF IInv

(* The invariant is inductive, if no process dies serialized.              *)
LEMMA NextInv ==
    ASSUME DiesUnserialized, IInv, [Next]_vars
    PROVE  IInv'
  <1>1. ASSUME NEW p \in Procs, Step(p) PROVE IInv'
    BY <1>1, OperationSteps, LockSteps, SessionEnds, QuietSteps DEF Step
  <1>2. ASSUME NEW p \in Procs, Crash(p) PROVE IInv'
    BY <1>2, QuietSteps
  <1>3. CASE UNCHANGED vars
    BY <1>3 DEF vars, IInv, TypeOK, Serialization, Serialized, Purposeful, Found, Mine, HoldsLock,
                LiveLockStays, Owns, Alive, InSession
  <1> QED BY <1>1, <1>2, <1>3 DEF Next

(* The strengthening holds of every reachable state.                       *)
THEOREM Invariance == DiesUnserialized => (Spec => []IInv)
  <1> SUFFICES ASSUME DiesUnserialized PROVE Spec => []IInv
    OBVIOUS
  <1>1. IInv /\ [Next]_vars => IInv'
    BY NextInv
  <1> QED BY <1>1, InitInv, PTL DEF Spec
-----------------------------------------------------------------------------
(* The files and the points are what they should be.                       *)
THEOREM TypeCorrect == DiesUnserialized => (Spec => []TypeOK)
  <1>1. IInv => TypeOK
    BY DEF IInv
  <1> QED BY <1>1, Invariance, PTL

(* The run lock of a live process stays at lockPath from the moment it is  *)
(* written to the end of its session, however many processes look for      *)
(* locks to reclaim.                                                       *)
THEOREM LiveLockIsNeverStolen == DiesUnserialized => (Spec => []LiveLockStays)
  <1>1. IInv => LiveLockStays
    BY DEF IInv
  <1> QED BY <1>1, Invariance, PTL

(* There is one session at a time: two would both have their run lock at   *)
(* lockPath.                                                               *)
THEOREM OneSessionAtATime == DiesUnserialized => (Spec => []OneSession)
  <1>1. IInv => OneSession
    <2> SUFFICES ASSUME IInv, NEW p \in Procs, NEW q \in Procs, InSession(p), InSession(q)
                 PROVE  p = q
      BY DEF OneSession
    <2>1. Owns(p) /\ Owns(q)
      BY DEF Owns, Alive, InSession
    <2>2. HoldsLock(p) /\ HoldsLock(q)
      BY <2>1 DEF IInv, LiveLockStays
    <2> QED BY <2>2 DEF HoldsLock
  <1> QED BY <1>1, Invariance, PTL

(* The file of a live process at operationPath is changed by its own steps *)
(* only: whoever else would have to be serialized.                         *)
THEOREM LiveSerializerIsNeverStolen == DiesUnserialized => (Spec => LiveSerializerStays)
  <1> SUFFICES ASSUME DiesUnserialized PROVE Spec => LiveSerializerStays
    OBVIOUS
  <1> DEFINE A == operation # NoFile /\ Alive(operation.by) /\ operation' # operation
                    => pc'[operation.by] # pc[operation.by]
  <1>1. IInv /\ [Next]_vars => [A]_vars
    <2> SUFFICES ASSUME IInv, Next, operation # NoFile, operation' # operation
                 PROVE  pc'[operation.by] # pc[operation.by]
      OBVIOUS
    <2>1. PICK p \in Procs : Step(p) \/ Crash(p)
      BY DEF Next
    <2>2. WriteOperation(p) \/ UnlinkOperation(p)
      BY <2>1 DEF Step, Crash, OpenOperation, ReadOperation, ArchiveOperation, OpenLock, ReadLock,
                  ArchiveLock, ReopenLock, WriteLock, CheckOperation, EndSession, CheckLock,
                  UnlinkLock, IInv, Serialization
    <2>3. operation.by = p
      BY <2>2 DEF WriteOperation, UnlinkOperation, IInv, Serialization, Serialized, Mine, Points,
                  Unserialized
    <2>4. pc'[p] # pc[p]
      BY <2>2 DEF WriteOperation, UnlinkOperation, Goto, IInv, TypeOK
    <2> QED BY <2>3, <2>4
  <1>2. Spec => [][A]_vars
    BY <1>1, Invariance, PTL DEF Spec
  <1> QED BY <1>2 DEF LiveSerializerStays
===============================================================================
