------------------------- MODULE AgentWorker_proofs -------------------------
(* What holds of the agent worker for every number of workers, jobs,        *)
(* attempts and faults.                                                      *)
EXTENDS AgentWorker, FiniteSetTheorems, TLAPS

Pcs == {"off", "open", "write", "read", "probe", "remove", "reopen",
        "claim", "handle", "complete", "fail", "leave"}

Working == {"handle", "complete", "fail"}

(* The types, without the bound on effects, which the attempts give.        *)
Types ==
  /\ job \in [Jobs -> Rows]
  /\ file \in [by : Ids \cup {None}, written : BOOLEAN]
  /\ pc \in [Workers -> Pcs]
  /\ saw \in [Workers -> Ids \cup {None}]
  /\ at \in [Workers -> Jobs \cup {None}]
  /\ late \in SUBSET Calls
  /\ effects \in [Jobs -> Nat]
  /\ stale \in SUBSET Jobs
  /\ seized \in BOOLEAN
  /\ faults \in 0 .. MaxFaults
  /\ \A w \in Workers : pc[w] \in Working => at[w] \in Jobs

(* A row that can be claimed has an attempt left, and only a running job is *)
(* locked by somebody.                                                       *)
RowOK(row) ==
  /\ row \in Rows
  /\ row.status = "queued" => row.attempts < MaxAttempts
  /\ row.status = "absent" => row.attempts = 0
  /\ row.status # "running" => row.by = None
  /\ row.status = "running" => row.attempts > 0

RowsOK == \A j \in Jobs : RowOK(job[j])

-----------------------------------------------------------------------------
(* The recovery of a row and the end of a running one keep rows well formed,*)
(* with the same number of attempts, and queue or end the job.               *)
LEMMA AgainRow ==
  ASSUME NEW row, RowOK(row), row.status = "running"
  PROVE  /\ RowOK(AgainOrFailed(row))
         /\ AgainOrFailed(row).attempts = row.attempts
         /\ AgainOrFailed(row).status \in {"queued", "failed"}
<1>1. row.attempts \in 0 .. MaxAttempts /\ MaxAttempts \in Nat
  BY AttemptsAssumption DEF RowOK, Rows
<1>2. CASE row.attempts < MaxAttempts
  BY <1>1, <1>2 DEF RowOK, Rows, AgainOrFailed, Row, Statuses
<1>3. CASE ~(row.attempts < MaxAttempts)
  BY <1>1, <1>3 DEF RowOK, Rows, AgainOrFailed, Row, Statuses
<1> QED
  BY <1>2, <1>3

(* The end of a running job leaves a well formed row with the same         *)
(* attempts.                                                               *)
LEMMA EndedRow ==
  ASSUME NEW row, RowOK(row), row.status = "running", NEW kind \in {"complete", "fail"}
  PROVE  /\ RowOK(EndedAs(row, kind))
         /\ EndedAs(row, kind).attempts = row.attempts
         /\ EndedAs(row, kind).status \in {"queued", "failed", "succeeded"}
         /\ EndedAs(row, kind).status = "succeeded" <=> kind = "complete"
<1>1. CASE kind = "complete"
  BY <1>1 DEF RowOK, Rows, EndedAs, Row, Statuses
<1>2. CASE kind = "fail"
  BY <1>2, AgainRow DEF EndedAs
<1> QED
  BY <1>1, <1>2

(* A claim locks a queued row for its worker and counts one attempt. *)
LEMMA ClaimedRow ==
  ASSUME NEW row, RowOK(row), row.status = "queued", NEW w \in Workers
  PROVE  /\ RowOK(Claimed(row, w))
         /\ Claimed(row, w).attempts = row.attempts + 1
         /\ Claimed(row, w).status = "running"
         /\ Claimed(row, w).by = w
  BY AttemptsAssumption DEF RowOK, Rows, Claimed, Row, Statuses, Ids

(* The end of a process changes nothing of a row but the name of its       *)
(* holder.                                                                 *)
LEMMA OrphanedRow ==
  ASSUME NEW row, RowOK(row), NEW w \in Workers
  PROVE  /\ RowOK(Orphaned(row, w))
         /\ Orphaned(row, w).attempts = row.attempts
         /\ Orphaned(row, w).status = row.status
         /\ row.by # w => Orphaned(row, w) = row
         /\ row.by = w => row.status = "running" /\ Orphaned(row, w).by = Gone
  BY IdsAssumption DEF RowOK, Rows, Orphaned, Row, Ids, None

(* Recovery leaves a row alone, or queues or ends an expired one.            *)
LEMMA RecoveredRow ==
  ASSUME Types, RowsOK, NEW j \in Jobs
  PROVE  /\ RowOK(Recovered[j])
         /\ Recovered[j].attempts = job[j].attempts
         /\ ~Expired(job[j]) => Recovered[j] = job[j]
         /\ Expired(job[j]) => Recovered[j].status \in {"queued", "failed"}
  BY AgainRow DEF RowsOK, Recovered, Expired
-----------------------------------------------------------------------------
(* The end of a process keeps the types and the rows.                       *)
LEMMA ExitTypes ==
  ASSUME Types, RowsOK, NEW w \in Workers, Exit(w)
  PROVE  /\ job' \in [Jobs -> Rows]
         /\ RowsOK'
         /\ pc' \in [Workers -> Pcs]
         /\ saw' \in [Workers -> Ids \cup {None}]
         /\ at' \in [Workers -> Jobs \cup {None}]
         /\ late' \in SUBSET Calls
         /\ \A v \in Workers : pc'[v] \in Working => at'[v] \in Jobs
<1>1. job' = [j \in Jobs |-> Orphaned(job[j], w)]
  BY DEF Exit
<1>2. \A j \in Jobs : RowOK(Orphaned(job[j], w))
  BY OrphanedRow DEF RowsOK
<1>3. job' \in [Jobs -> Rows] /\ RowsOK'
  BY <1>1, <1>2 DEF RowsOK, RowOK
<1>4. /\ pc' \in [Workers -> Pcs]
      /\ saw' \in [Workers -> Ids \cup {None}]
      /\ at' \in [Workers -> Jobs \cup {None}]
  BY DEF Exit, Types, Pcs, Ids
<1>5. late' \in SUBSET Calls
  BY DEF Exit, Types, Calls, Call, Ids
<1>6. \A v \in Workers : pc'[v] \in Working => at'[v] \in Jobs
  BY DEF Exit, Types, Pcs, Working
<1> QED
  BY <1>3, <1>4, <1>5, <1>6

(* The recovery and the claim of one job keep the rows.                      *)
LEMMA ClaimRows ==
  ASSUME Types, RowsOK, NEW w \in Workers, NEW i \in Jobs, Recovered[i].status = "queued",
         job' = [Recovered EXCEPT ![i] = Claimed(Recovered[i], w)]
  PROVE  job' \in [Jobs -> Rows] /\ RowsOK'
<1>1. \A j \in Jobs : RowOK(Recovered[j])
  BY RecoveredRow
<1>2. RowOK(Claimed(Recovered[i], w))
  BY <1>1, ClaimedRow
<1>3. PICK row : row = Claimed(Recovered[i], w)
  OBVIOUS
<1>4. job' = [Recovered EXCEPT ![i] = row] /\ RowOK(row)
  BY <1>2, <1>3
<1>5. job' = [j \in Jobs |-> IF j = i THEN row ELSE Recovered[j]]
  BY <1>4 DEF Recovered
<1>6. \A j \in Jobs : RowOK(job'[j])
  BY <1>1, <1>4, <1>5
<1>7. \A j \in Jobs : job'[j] \in Rows
  BY <1>6 DEF RowOK
<1> QED
  BY <1>5, <1>6, <1>7 DEF RowsOK

(* The end of a running job keeps the rows.                                  *)
LEMMA EndRows ==
  ASSUME Types, RowsOK, NEW i \in Jobs, job[i].status = "running",
         NEW kind \in {"complete", "fail"},
         job' = [job EXCEPT ![i] = EndedAs(job[i], kind)]
  PROVE  job' \in [Jobs -> Rows] /\ RowsOK'
<1>1. PICK row : row = EndedAs(job[i], kind)
  OBVIOUS
<1>2. RowOK(row)
  BY <1>1, EndedRow DEF RowsOK
<1> QED
  BY <1>1, <1>2 DEF RowsOK, RowOK, Types

(* What a worker can find in the lock file.                                  *)
LEMMA FileTypes ==
  /\ \A by \in Ids, written \in BOOLEAN : File(by, written) \in [by : Ids \cup {None}, written : BOOLEAN]
  /\ NoFile \in [by : Ids \cup {None}, written : BOOLEAN]
  /\ \A w \in Workers : w \in Ids
  /\ Gone \in Ids
  BY DEF File, NoFile, Ids

(* Every step keeps the types and the rows.                                  *)
LEMMA TypesStep ==
  ASSUME Types, RowsOK, [Next]_vars
  PROVE  Types' /\ RowsOK'
<1> USE DEF queue, lock
<1>0. CASE UNCHANGED vars
  BY <1>0 DEF vars, Types, RowsOK
<1>1. ASSUME NEW w \in Workers, Launch(w) \/ Open(w) \/ Write(w) \/ Read(w) \/ Remove(w)
      PROVE  Types' /\ RowsOK'
  <2>1. /\ UNCHANGED <<job, late, effects, stale, at, faults>>
        /\ pc' \in [Workers -> Pcs]
        /\ \A v \in Workers : pc'[v] \in Working => pc[v] \in Working
    BY <1>1 DEF Launch, Open, Write, Read, Remove, Types, Pcs, Working
  <2>2. file' \in [by : Ids \cup {None}, written : BOOLEAN]
    <3>1. file' \in {file, File(w, FALSE), File(w, TRUE), NoFile}
      BY <1>1 DEF Launch, Open, Write, Read, Remove
    <3>2. File(w, FALSE) \in [by : Ids \cup {None}, written : BOOLEAN]
      BY FileTypes
    <3>3. File(w, TRUE) \in [by : Ids \cup {None}, written : BOOLEAN]
      BY FileTypes
    <3> QED
      BY <3>1, <3>2, <3>3, FileTypes DEF Types
  <2>3. saw' \in [Workers -> Ids \cup {None}] /\ seized' \in BOOLEAN
    BY <1>1 DEF Launch, Open, Write, Read, Remove, Types
  <2> QED
    BY <2>1, <2>2, <2>3 DEF Types, RowsOK
<1>2. ASSUME NEW w \in Workers, OpenRefused(w) \/ Probe(w) \/ Leave(w) \/ Crash(w)
      PROVE  Types' /\ RowsOK'
  <2>1. /\ file' \in [by : Ids \cup {None}, written : BOOLEAN]
        /\ UNCHANGED <<effects, stale, seized>>
        /\ faults' \in 0 .. MaxFaults
    <3>1. CASE OpenRefused(w) \/ Probe(w) \/ Leave(w)
      BY <3>1, FileTypes DEF OpenRefused, Probe, Leave, Types
    <3>2. CASE Crash(w)
      <4>1. file.written \in BOOLEAN
        BY DEF Types
      <4>2. faults' \in 0 .. MaxFaults
        BY <3>2, FaultsAssumption DEF Crash, Types
      <4> QED
        BY <3>2, <4>1, <4>2, FileTypes DEF Crash, Types
    <3> QED
      BY <1>2, <3>1, <3>2
  <2>2. CASE Exit(w)
    BY <2>1, <2>2, ExitTypes DEF Types
  <2>3. CASE ~Exit(w)
    <3>1. /\ UNCHANGED <<job, late, saw, at>>
          /\ pc' \in [Workers -> Pcs]
          /\ \A v \in Workers : pc'[v] \in Working => pc[v] \in Working
      BY <1>2, <2>3 DEF OpenRefused, Probe, Leave, Crash, Types, Pcs, Working
    <3> QED
      BY <2>1, <3>1 DEF Types, RowsOK
  <2> QED
    BY <2>2, <2>3
<1>3. ASSUME NEW w \in Workers, Claim(w)
      PROVE  Types' /\ RowsOK'
  <2>1. PICK i \in Jobs : /\ Recovered[i].status = "queued"
                          /\ job' = [Recovered EXCEPT ![i] = Claimed(Recovered[i], w)]
                          /\ at' = [at EXCEPT ![w] = i]
    BY <1>3 DEF Claim
  <2>2. job' \in [Jobs -> Rows] /\ RowsOK'
    BY <2>1, ClaimRows
  <2> QED
    BY <1>3, <2>1, <2>2 DEF Claim, TakeBack, Types, Pcs, Working
<1>4. ASSUME NEW w \in Workers, ClaimNothing(w)
      PROVE  Types' /\ RowsOK'
  <2>1. job' \in [Jobs -> Rows] /\ RowsOK'
    BY <1>4, RecoveredRow DEF ClaimNothing, RowsOK, RowOK, Recovered
  <2> QED
    BY <1>4, <2>1 DEF ClaimNothing, TakeBack, Types
<1>5. ASSUME NEW w \in Workers, ClaimLost(w)
      PROVE  Types' /\ RowsOK'
  <2>1. job' \in [Jobs -> Rows] /\ RowsOK'
    <3>1. CASE job' = job
      BY <3>1 DEF Types, RowsOK
    <3>2. CASE job' # job
      <4>1. PICK i \in Jobs : /\ Recovered[i].status = "queued"
                              /\ job' = [Recovered EXCEPT ![i] = Claimed(Recovered[i], w)]
        BY <1>5, <3>2 DEF ClaimLost
      <4> QED
        BY <4>1, ClaimRows
    <3> QED
      BY <3>1, <3>2
  <2>2. pc' = [pc EXCEPT ![w] = "leave"] /\ UNCHANGED <<file, saw, seized, effects, at>>
    BY <1>5 DEF ClaimLost
  <2>3. late' \in SUBSET Calls /\ stale' \in SUBSET Jobs /\ faults' \in 0 .. MaxFaults
    BY <1>5, FaultsAssumption DEF ClaimLost, TakeBack, Types
  <2> QED
    BY <2>1, <2>2, <2>3 DEF Types, Pcs, Working
<1>6. ASSUME NEW w \in Workers, Restart(w)
      PROVE  Types' /\ RowsOK'
  BY <1>6, FaultsAssumption DEF Restart, Types, RowsOK, Pcs, Working
<1>7. ASSUME NEW w \in Workers, Handle(w)
      PROVE  Types' /\ RowsOK'
  <2>1. /\ UNCHANGED <<job, file, saw, at, late, stale, seized, faults>>
        /\ effects' \in [Jobs -> Nat]
    BY <1>7 DEF Handle, Types, Working
  <2>2. /\ pc' \in [Workers -> Pcs]
        /\ \A v \in Workers : pc'[v] \in Working => pc[v] \in Working
    BY <1>7 DEF Handle, Types, Pcs, Working
  <2> QED
    BY <2>1, <2>2 DEF Types, RowsOK
<1>8. ASSUME NEW w \in Workers, NEW kind \in {"complete", "fail"},
             Report(w, kind) \/ ReportLost(w, kind)
      PROVE  Types' /\ RowsOK'
  <2>1. at[w] \in Jobs /\ pc[w] = kind
    BY <1>8 DEF Report, ReportLost, Types, Working
  <2>2. job' = job \/ (LockedBy(at[w], w) /\ job' = [job EXCEPT ![at[w]] = EndedAs(job[at[w]], kind)])
    <3>1. CASE Report(w, kind)
      BY <3>1 DEF Report
    <3>2. CASE ReportLost(w, kind)
      BY <3>2 DEF ReportLost
    <3> QED
      BY <1>8, <3>1, <3>2
  <2>3. job' \in [Jobs -> Rows] /\ RowsOK'
    <3>1. CASE job' = job
      BY <3>1 DEF Types, RowsOK
    <3>2. CASE LockedBy(at[w], w) /\ job' = [job EXCEPT ![at[w]] = EndedAs(job[at[w]], kind)]
      BY <2>1, <3>2, EndRows DEF LockedBy
    <3> QED
      BY <2>2, <3>1, <3>2
  <2>4. late' \in SUBSET Calls
    <3>1. Call(kind, at[w], w) \in Calls /\ late \in SUBSET Calls
      BY <2>1 DEF Types, Calls, Call, Ids
    <3>2. late' = late \/ late' = late \cup {Call(kind, at[w], w)}
      BY <1>8 DEF Report, ReportLost, Call
    <3> QED
      BY <3>1, <3>2
  <2>5. /\ UNCHANGED <<file, saw, at, effects, stale, seized>>
        /\ faults' \in 0 .. MaxFaults
    <3>1. CASE Report(w, kind)
      BY <3>1 DEF Report, Types
    <3>2. CASE ReportLost(w, kind)
      BY <3>2, FaultsAssumption DEF ReportLost, Types
    <3> QED
      BY <1>8, <3>1, <3>2
  <2>6. /\ pc' \in [Workers -> Pcs]
        /\ \A v \in Workers : pc'[v] \in Working => pc[v] \in Working
    BY <1>8 DEF Report, ReportLost, Types, Pcs, Working, Next1
  <2> QED
    BY <2>3, <2>4, <2>5, <2>6 DEF Types
<1>9. ASSUME NEW c \in late, LateCall(c)
      PROVE  Types' /\ RowsOK'
  <2>1. c.job \in Jobs /\ c.kind \in {"complete", "fail"}
    BY DEF Types, Calls
  <2>2. job' \in [Jobs -> Rows] /\ RowsOK'
    <3>1. CASE job' = job
      BY <3>1 DEF Types, RowsOK
    <3>2. CASE LockedBy(c.job, c.by) /\ job' = [job EXCEPT ![c.job] = EndedAs(job[c.job], c.kind)]
      BY <2>1, <3>2, EndRows DEF LockedBy
    <3> QED
      BY <1>9, <3>1, <3>2 DEF LateCall
  <2> QED
    BY <1>9, <2>2 DEF LateCall, Types
<1>10. ASSUME NEW j \in Jobs, Queue(j) \/ Age(j)
       PROVE  Types' /\ RowsOK'
  <2>1. RowOK(Row("queued", 0, None, FALSE))
    BY AttemptsAssumption DEF RowOK, Row, Rows, Statuses
  <2>2. job[j].status = "running" => RowOK(Row("running", job[j].attempts, job[j].by, TRUE))
    BY DEF RowsOK, RowOK, Row, Rows, Statuses
  <2>3. PICK row : RowOK(row) /\ job' = [job EXCEPT ![j] = row]
    BY <1>10, <2>1, <2>2 DEF Queue, Age
  <2>4. job' \in [Jobs -> Rows] /\ RowsOK'
    BY <2>3 DEF RowsOK, RowOK, Types
  <2> QED
    BY <1>10, <2>4 DEF Queue, Age, Types
<1> QED
  BY <1>0, <1>1, <1>2, <1>3, <1>4, <1>5, <1>6, <1>7, <1>8, <1>9, <1>10
  DEF Next, Lock, Work, Fault
-----------------------------------------------------------------------------
(* The workers that still have the effect of their attempt before them.      *)
Doers(j) == {w \in Workers : pc[w] = "handle" /\ at[w] = j}

(* Every effect and every worker about to have one has its own attempt.      *)
EffectsOK == \A j \in Jobs : effects[j] + Cardinality(Doers(j)) <= job[j].attempts

(* The effects that a success of a job must have behind it.                  *)
Due(j) == IF j \in MaySkip THEN 0 ELSE 1

(* A success, reported or only called for, has its effect behind it.         *)
DoneOK ==
  /\ \A j \in Jobs : job[j].status = "succeeded" => effects[j] >= Due(j)
  /\ \A w \in Workers : pc[w] = "complete" => effects[at[w]] >= Due(at[w])
  /\ \A c \in late : c.kind = "complete" => effects[c.job] >= Due(c.job)

(* A worker whose failure report went unanswered does nothing more, and a    *)
(* worker that runs a job has its lock unless the job was taken back or has  *)
(* ended.                                                                    *)
OwnOK ==
  /\ \A c \in late : c.kind = "fail" /\ c.by \in Workers => pc[c.by] = "leave"
  /\ \A w \in Workers : \A j \in Jobs :
       Handling(w, j) => j \in stale \/ LockedBy(j, w) \/ job[j].status \in Ended

Safe == Types /\ RowsOK /\ EffectsOK /\ DoneOK /\ OwnOK /\ SharedOnlyWhenStale

(* Sets of workers are finite, and a part of one is not larger.              *)
LEMMA WorkerSets ==
  ASSUME NEW S, S \subseteq Workers, NEW R, R \subseteq S
  PROVE  /\ IsFiniteSet(S)
         /\ Cardinality(S) \in Nat
         /\ Cardinality(R) \in Nat
         /\ Cardinality(R) <= Cardinality(S)
<1>1. IsFiniteSet(S)
  BY WorkersAssumption, FS_Subset
<1>2. IsFiniteSet(R) /\ Cardinality(R) <= Cardinality(S)
  BY <1>1, FS_Subset
<1> QED
  BY <1>1, <1>2, FS_CardinalityType

(* A step that starts no attempt and has no effect keeps the account.        *)
LEMMA EffectsFrame ==
  ASSUME Types, EffectsOK, RowsOK, RowsOK', effects' = effects,
         \A j \in Jobs : job'[j].attempts >= job[j].attempts,
         \A w \in Workers : pc'[w] = "handle" => pc[w] = "handle" /\ at'[w] = at[w]
  PROVE  EffectsOK'
<1> SUFFICES ASSUME NEW j \in Jobs
             PROVE  effects[j] + Cardinality(Doers(j)') <= job'[j].attempts
  BY DEF EffectsOK
<1>1. Doers(j)' \subseteq Doers(j) /\ Doers(j) \subseteq Workers
  BY DEF Doers
<1>2. PICK S, R : S = Doers(j) /\ R = Doers(j)'
  OBVIOUS
<1>3. Cardinality(S) \in Nat /\ Cardinality(R) \in Nat /\ Cardinality(R) <= Cardinality(S)
  BY <1>1, <1>2, WorkerSets
<1>4. effects[j] + Cardinality(S) <= job[j].attempts
  BY <1>2 DEF EffectsOK
<1>5. effects[j] \in Nat /\ job[j].attempts \in Nat /\ job'[j].attempts \in Nat
  BY DEF Types, RowsOK, RowOK, Rows
<1>6. effects[j] + Cardinality(R) <= job'[j].attempts
  BY <1>3, <1>4, <1>5
<1> QED
  BY <1>2, <1>6

(* A step that starts no attempt and has no effect keeps everything, if what *)
(* it does to the rows and to the calls in flight is in order.               *)
LEMMA Frame ==
  ASSUME Safe, RowsOK', effects' = effects, stale \subseteq stale',
         \A j \in Jobs : /\ job'[j].attempts >= job[j].attempts
                         /\ job'[j].status = "succeeded" => effects[j] >= Due(j)
                         /\ job[j].status \in Ended => job'[j].status \in Ended,
         \A j \in Jobs, w \in Workers :
           LockedBy(j, w) /\ Handling(w, j) /\ pc'[w] \in {"handle", "complete"} =>
             \/ j \in stale'
             \/ job'[j].status = "running" /\ job'[j].by = w
             \/ job'[j].status \in Ended,
         \A w \in Workers : pc'[w] \in {"handle", "complete"} => pc'[w] = pc[w] /\ at'[w] = at[w],
         \A c \in late' : /\ c.kind = "complete" => effects[c.job] >= Due(c.job)
                          /\ c.kind = "fail" /\ c.by \in Workers => pc'[c.by] = "leave"
  PROVE  EffectsOK' /\ DoneOK' /\ OwnOK' /\ SharedOnlyWhenStale'
<1>1. EffectsOK'
  BY EffectsFrame DEF Safe
<1>2. DoneOK'
  BY DEF Safe, DoneOK
<1>3. \A w \in Workers : \A j \in Jobs : Handling(w, j)' => Handling(w, j) /\ pc'[w] \in {"handle", "complete"}
  BY DEF Handling
<1>4. OwnOK'
  <2>1. \A c \in late' : c.kind = "fail" /\ c.by \in Workers => pc'[c.by] = "leave"
    OBVIOUS
  <2>2. ASSUME NEW w \in Workers, NEW j \in Jobs, Handling(w, j)'
        PROVE  j \in stale' \/ LockedBy(j, w)' \/ job'[j].status \in Ended
    BY <1>3, <2>2 DEF Safe, OwnOK, LockedBy
  <2> QED
    BY <2>1, <2>2 DEF OwnOK
<1>5. SharedOnlyWhenStale'
  BY <1>3 DEF Safe, SharedOnlyWhenStale
<1> QED
  BY <1>1, <1>2, <1>4, <1>5

(* The end of a process keeps everything: its calls in flight that may still *)
(* count are those of the job it holds.                                      *)
LEMMA ExitSafe ==
  ASSUME Safe, NEW w \in Workers, Exit(w), UNCHANGED <<effects, stale>>
  PROVE  EffectsOK' /\ DoneOK' /\ OwnOK' /\ SharedOnlyWhenStale'
<1>1. RowsOK'
  BY ExitTypes DEF Safe
<1>2. \A j \in Jobs : job'[j] = Orphaned(job[j], w)
  BY DEF Exit
<1>3. \A j \in Jobs : /\ job'[j].attempts = job[j].attempts
                      /\ job'[j].status = job[j].status
                      /\ job[j].by # w => job'[j] = job[j]
  BY <1>2, OrphanedRow DEF Safe, RowsOK
<1>4. \A j \in Jobs : /\ job'[j].attempts >= job[j].attempts
                      /\ job'[j].status = "succeeded" => effects[j] >= Due(j)
                      /\ job[j].status \in Ended => job'[j].status \in Ended
  BY <1>3 DEF Safe, RowsOK, RowOK, Rows, DoneOK
<1>5. /\ pc' = [pc EXCEPT ![w] = "off"]
      /\ at' = [at EXCEPT ![w] = None]
      /\ pc \in [Workers -> Pcs] /\ at \in [Workers -> Jobs \cup {None}]
  BY DEF Exit, Safe, Types
<1>6. \A v \in Workers : pc'[v] \in {"handle", "complete"} => v # w /\ pc'[v] = pc[v] /\ at'[v] = at[v]
  BY <1>5
<1>7. \A j \in Jobs, v \in Workers :
        LockedBy(j, v) /\ Handling(v, j) /\ pc'[v] \in {"handle", "complete"} =>
          job'[j].status = "running" /\ job'[j].by = v
  BY <1>3, <1>6 DEF LockedBy
<1>8. ASSUME NEW c \in late'
      PROVE  /\ c.kind = "complete" => effects[c.job] >= Due(c.job)
             /\ c.kind = "fail" /\ c.by \in Workers => pc'[c.by] = "leave"
  <2>1. CASE c \in late /\ c.by # w
    <3>1. c.by \in Workers => pc'[c.by] = pc[c.by]
      BY <1>5, <2>1
    <3> QED
      BY <2>1, <3>1 DEF Safe, DoneOK, OwnOK
  <2>2. CASE \E d \in late : c = Call(d.kind, d.job, Gone)
    BY <2>2, IdsAssumption DEF Safe, DoneOK, Call
  <2> QED
    BY <2>1, <2>2 DEF Exit
<1> QED
  BY <1>1, <1>4, <1>6, <1>7, <1>8, Frame

(* What recovery does to the row of a job that a worker runs, or that ended. *)
LEMMA RecoveredKeeps ==
  ASSUME Safe, TakeBack, NEW j \in Jobs
  PROVE  /\ Recovered[j].attempts = job[j].attempts /\ job[j].attempts \in Nat
         /\ Recovered[j].status = "succeeded" => effects[j] >= Due(j)
         /\ job[j].status \in Ended => Recovered[j] = job[j]
         /\ job[j].status = "running" => Recovered[j] = job[j] \/ j \in stale'
         /\ Recovered[j].status = "queued" => job[j].status = "queued" \/ j \in stale'
<1>1. /\ Recovered[j].attempts = job[j].attempts
      /\ ~Expired(job[j]) => Recovered[j] = job[j]
      /\ Expired(job[j]) => Recovered[j].status \in {"queued", "failed"}
  BY RecoveredRow DEF Safe
<1>2. Expired(job[j]) => j \in stale'
  BY DEF TakeBack
<1>3. job[j].attempts \in Nat
  BY DEF Safe, RowsOK, RowOK, Rows
<1> QED
  BY <1>1, <1>2, <1>3 DEF Safe, DoneOK, Expired, Ended

(* A claim that finds nothing, or whose answer is lost, keeps everything.    *)
LEMMA IdleClaimSafe ==
  ASSUME Safe, RowsOK', NEW w \in Workers, ClaimNothing(w) \/ ClaimLost(w)
  PROVE  EffectsOK' /\ DoneOK' /\ OwnOK' /\ SharedOnlyWhenStale'
<1>0. /\ pc \in [Workers -> Pcs] /\ job \in [Jobs -> Rows]
      /\ UNCHANGED <<effects, at>> /\ pc[w] = "claim"
      /\ pc' = pc \/ pc' = [pc EXCEPT ![w] = "leave"]
  BY DEF Safe, Types, ClaimNothing, ClaimLost
<1>1. \A v \in Workers : /\ pc'[v] \in {"handle", "complete"} => pc'[v] = pc[v] /\ at'[v] = at[v]
                         /\ pc[v] = "leave" => pc'[v] = "leave"
  BY <1>0
<1>2. late' \subseteq late
  BY DEF ClaimNothing, ClaimLost, TakeBack
<1>3. \A c \in late' : /\ c.kind = "complete" => effects[c.job] >= Due(c.job)
                       /\ c.kind = "fail" /\ c.by \in Workers => pc'[c.by] = "leave"
  BY <1>1, <1>2 DEF Safe, DoneOK, OwnOK
<1>4. CASE job' = job /\ stale' = stale
  BY <1>0, <1>1, <1>3, <1>4, Frame DEF Safe, RowsOK, RowOK, Rows, DoneOK, LockedBy
<1>5. CASE TakeBack /\ job' = Recovered
  BY <1>0, <1>1, <1>3, <1>5, RecoveredKeeps, Frame DEF TakeBack, LockedBy
<1>6. CASE /\ TakeBack
           /\ \E i \in Jobs : /\ Recovered[i].status = "queued"
                              /\ job' = [Recovered EXCEPT ![i] = Claimed(Recovered[i], w)]
  <2>1. PICK i \in Jobs : /\ Recovered[i].status = "queued"
                          /\ job' = [Recovered EXCEPT ![i] = Claimed(Recovered[i], w)]
    BY <1>6
  <2>2. PICK row : row = Claimed(Recovered[i], w)
    OBVIOUS
  <2>3. row.attempts = Recovered[i].attempts + 1 /\ row.status = "running"
    BY <2>1, <2>2, RecoveredRow, ClaimedRow DEF Safe
  <2>4. job'[i] = row /\ \A j \in Jobs : j # i => job'[j] = Recovered[j]
    BY <2>1, <2>2 DEF Recovered
  <2>5. \A j \in Jobs : /\ job'[j].attempts >= job[j].attempts
                        /\ job'[j].status = "succeeded" => effects[j] >= Due(j)
                        /\ job[j].status \in Ended => job'[j].status \in Ended
    BY <1>6, <2>1, <2>3, <2>4, RecoveredKeeps DEF Ended
  <2>6. \A j \in Jobs : job[j].status = "running" => job'[j] = job[j] \/ j \in stale'
    BY <1>6, <2>1, <2>4, RecoveredKeeps
  <2>7. stale \subseteq stale'
    BY <1>6 DEF TakeBack
  <2> QED
    BY <1>0, <1>1, <1>3, <2>5, <2>6, <2>7, Frame DEF LockedBy
<1> QED
  BY <1>4, <1>5, <1>6 DEF ClaimNothing, ClaimLost

(* A claim starts an attempt of its own, on a job that nobody runs or that   *)
(* was taken back.                                                           *)
LEMMA ClaimSafe ==
  ASSUME Safe, RowsOK', NEW w \in Workers, Claim(w)
  PROVE  EffectsOK' /\ DoneOK' /\ OwnOK' /\ SharedOnlyWhenStale'
<1>1. PICK i \in Jobs : /\ Recovered[i].status = "queued"
                        /\ job' = [Recovered EXCEPT ![i] = Claimed(Recovered[i], w)]
                        /\ at' = [at EXCEPT ![w] = i]
  BY DEF Claim
<1>2. /\ TakeBack /\ UNCHANGED effects /\ pc[w] = "claim"
      /\ pc' = [pc EXCEPT ![w] = "handle"]
      /\ pc \in [Workers -> Pcs] /\ at \in [Workers -> Jobs \cup {None}]
      /\ effects \in [Jobs -> Nat]
  BY DEF Claim, Safe, Types
<1>3. PICK row : row = Claimed(Recovered[i], w)
  OBVIOUS
<1>4. row.attempts = Recovered[i].attempts + 1 /\ row.status = "running" /\ row.by = w
  BY <1>1, <1>3, RecoveredRow, ClaimedRow DEF Safe
<1>5. job'[i] = row /\ \A j \in Jobs : j # i => job'[j] = Recovered[j]
  BY <1>1, <1>3 DEF Recovered
<1>6. /\ pc'[w] = "handle" /\ at'[w] = i
      /\ \A v \in Workers : v # w => pc'[v] = pc[v] /\ at'[v] = at[v]
  BY <1>2, <1>1
<1>7. EffectsOK'
  <2> SUFFICES ASSUME NEW j \in Jobs
               PROVE  effects[j] + Cardinality(Doers(j)') <= job'[j].attempts
    BY <1>2 DEF EffectsOK
  <2>1. PICK S, R : S = Doers(j) /\ R = Doers(j)'
    OBVIOUS
  <2>2. S \subseteq Workers /\ w \notin S
    BY <1>2, <2>1 DEF Doers
  <2>3. /\ IsFiniteSet(S) /\ Cardinality(S) \in Nat
        /\ Cardinality(S \cup {w}) = Cardinality(S) + 1
    BY <2>2, WorkerSets, FS_AddElement
  <2>4. R = IF j = i THEN S \cup {w} ELSE S
    <3>1. \A v \in Workers : v \in R <=> (v = w /\ j = i) \/ (v # w /\ v \in S)
      BY <1>6, <2>1 DEF Doers
    <3>2. R \subseteq Workers
      BY <2>1 DEF Doers
    <3> QED
      BY <2>2, <3>1, <3>2
  <2>5. effects[j] + Cardinality(S) <= job[j].attempts /\ effects[j] \in Nat
    BY <1>2, <2>1 DEF EffectsOK, Safe
  <2>6. job[j].attempts \in Nat /\ Recovered[j].attempts = job[j].attempts
    BY <1>2, RecoveredKeeps
  <2>7. job'[j].attempts = IF j = i THEN job[j].attempts + 1 ELSE job[j].attempts
    BY <1>4, <1>5, <2>6
  <2>8. effects[j] + Cardinality(R) <= job'[j].attempts
    BY <2>3, <2>4, <2>5, <2>6, <2>7
  <2> QED
    BY <2>1, <2>8
<1>8. late' \subseteq late
  BY <1>2 DEF TakeBack
<1>9. DoneOK'
  <2>1. \A j \in Jobs : job'[j].status = "succeeded" => effects[j] >= Due(j)
    BY <1>2, <1>4, <1>5, RecoveredKeeps
  <2>2. \A v \in Workers : pc'[v] = "complete" => effects[at'[v]] >= Due(at'[v])
    BY <1>6 DEF Safe, DoneOK
  <2> QED
    BY <1>2, <1>8, <2>1, <2>2 DEF Safe, DoneOK
<1>10. \A j \in Jobs : job[j].status = "running" => job'[j] = job[j] \/ j \in stale'
  BY <1>1, <1>2, <1>5, RecoveredKeeps
<1>11. \A v \in Workers : \A j \in Jobs :
         Handling(v, j)' => (v = w /\ j = i) \/ (v # w /\ Handling(v, j))
  BY <1>6 DEF Handling
<1>12. stale \subseteq stale'
  BY <1>2 DEF TakeBack
<1>13. OwnOK'
  <2>1. \A c \in late' : c.kind = "fail" /\ c.by \in Workers => pc'[c.by] = "leave"
    BY <1>2, <1>6, <1>8 DEF Safe, OwnOK
  <2>2. ASSUME NEW v \in Workers, NEW j \in Jobs, Handling(v, j)'
        PROVE  j \in stale' \/ LockedBy(j, v)' \/ job'[j].status \in Ended
    <3>1. CASE v = w /\ j = i
      BY <1>4, <1>5, <3>1 DEF LockedBy
    <3>2. CASE Handling(v, j)
      <4>1. j \in stale \/ LockedBy(j, v) \/ job[j].status \in Ended
        BY <3>2 DEF Safe, OwnOK
      <4>2. job[j].status \in Ended => job'[j] = job[j]
        BY <1>1, <1>2, <1>5, RecoveredKeeps DEF Ended
      <4> QED
        BY <1>10, <1>12, <4>1, <4>2 DEF LockedBy
    <3> QED
      BY <1>11, <2>2, <3>1, <3>2
  <2> QED
    BY <2>1, <2>2 DEF OwnOK
<1>14. SharedOnlyWhenStale'
  <2>1. \A v \in Workers : Handling(v, i) => i \in stale'
    <3>1. job[i].status = "queued" \/ i \in stale'
      BY <1>1, <1>2, RecoveredKeeps
    <3> QED
      BY <1>12, <3>1 DEF Safe, OwnOK, LockedBy, Ended
  <2> QED
    BY <1>11, <1>12, <2>1 DEF Safe, SharedOnlyWhenStale
<1> QED
  BY <1>7, <1>9, <1>13, <1>14

(* An effect uses up the attempt of its worker.                              *)
LEMMA HandleSafe ==
  ASSUME Safe, RowsOK', NEW w \in Workers, Handle(w)
  PROVE  EffectsOK' /\ DoneOK' /\ OwnOK' /\ SharedOnlyWhenStale'
<1>1. PICK i \in Jobs : i = at[w]
  BY DEF Handle, Safe, Types, Working
<1>2. /\ UNCHANGED <<job, late, stale, at>> /\ pc[w] = "handle"
      /\ pc \in [Workers -> Pcs]
      /\ effects \in [Jobs -> Nat]
      /\ \/ /\ effects' = [effects EXCEPT ![i] = effects[i] + 1]
            /\ pc' = [pc EXCEPT ![w] = "complete"] \/ pc' = [pc EXCEPT ![w] = "fail"]
         \/ effects' = effects /\ pc' = [pc EXCEPT ![w] = "fail"]
         \/ i \in MaySkip /\ effects' = effects /\ pc' = [pc EXCEPT ![w] = "complete"]
  BY <1>1 DEF Handle, Safe, Types
<1>3. /\ pc'[w] \in {"complete", "fail"}
      /\ \A v \in Workers : v # w => pc'[v] = pc[v]
      /\ pc'[w] = "complete" => effects'[i] >= Due(i)
  BY <1>2 DEF Due
<1>4. \A j \in Jobs : /\ effects[j] \in Nat /\ effects'[j] \in Nat
                      /\ effects'[j] >= effects[j]
                      /\ effects'[j] <= IF j = i THEN effects[j] + 1 ELSE effects[j]
  BY <1>2
<1>5. EffectsOK'
  <2> SUFFICES ASSUME NEW j \in Jobs
               PROVE  effects'[j] + Cardinality(Doers(j)') <= job[j].attempts
    BY <1>2 DEF EffectsOK
  <2>1. PICK S, R : S = Doers(j) /\ R = Doers(j)'
    OBVIOUS
  <2>2. S \subseteq Workers /\ (j = i => w \in S)
    BY <1>1, <1>2, <2>1 DEF Doers
  <2>3. /\ Cardinality(S) \in Nat
        /\ j = i => Cardinality(S \ {w}) = Cardinality(S) - 1
    BY <2>2, WorkerSets, FS_RemoveElement
  <2>4. R = IF j = i THEN S \ {w} ELSE S
    BY <1>1, <1>2, <1>3, <2>1 DEF Doers
  <2>5. effects[j] + Cardinality(S) <= job[j].attempts /\ job[j].attempts \in Nat
    BY <2>1 DEF EffectsOK, Safe, RowsOK, RowOK, Rows
  <2>6. effects'[j] + Cardinality(R) <= job[j].attempts
    <3>1. CASE j = i
      BY <1>4, <2>3, <2>4, <2>5, <3>1
    <3>2. CASE j # i
      BY <1>4, <2>3, <2>4, <2>5, <3>2
    <3> QED
      BY <3>1, <3>2
  <2> QED
    BY <2>1, <2>6
<1>6. DoneOK'
  <2>1. \A j \in Jobs : effects[j] >= Due(j) => effects'[j] >= Due(j)
    BY <1>4 DEF Due
  <2>2. \A v \in Workers : pc[v] = "complete" => at[v] \in Jobs
    BY DEF Safe, Types, Working
  <2>3. \A c \in late : c.job \in Jobs
    BY DEF Safe, Types, Calls
  <2>4. \A v \in Workers : pc'[v] = "complete" => effects'[at'[v]] >= Due(at'[v])
    BY <1>1, <1>2, <1>3, <2>1, <2>2 DEF Safe, DoneOK
  <2> QED
    BY <1>2, <2>1, <2>3, <2>4 DEF Safe, DoneOK
<1>7. \A v \in Workers : \A j \in Jobs : Handling(v, j)' => Handling(v, j)
  BY <1>2, <1>3 DEF Handling
<1>8. OwnOK'
  <2>1. \A c \in late' : c.kind = "fail" /\ c.by \in Workers => pc'[c.by] = "leave"
    BY <1>2, <1>3 DEF Safe, OwnOK
  <2> QED
    BY <1>2, <1>7, <2>1 DEF Safe, OwnOK, LockedBy
<1>9. SharedOnlyWhenStale'
  BY <1>2, <1>7 DEF Safe, SharedOnlyWhenStale
<1> QED
  BY <1>5, <1>6, <1>8, <1>9

(* The report of an end, answered, unanswered or executed late, keeps        *)
(* everything: what it ends is the job of a worker that has reported it.     *)
LEMMA ReportSafe ==
  ASSUME Safe, RowsOK', NEW w \in Workers, NEW kind \in {"complete", "fail"},
         Report(w, kind) \/ ReportLost(w, kind)
  PROVE  EffectsOK' /\ DoneOK' /\ OwnOK' /\ SharedOnlyWhenStale'
<1>1. at[w] \in Jobs /\ pc[w] = kind
  BY DEF Report, ReportLost, Safe, Types, Working
<1>2. PICK i \in Jobs : i = at[w]
  BY <1>1
<1>3. PICK row : row = EndedAs(job[i], kind)
  OBVIOUS
<1>4. job' = job \/ (LockedBy(i, w) /\ job' = [job EXCEPT ![i] = row])
  <2>1. CASE Report(w, kind)
    BY <1>2, <1>3, <2>1 DEF Report
  <2>2. CASE ReportLost(w, kind)
    BY <1>2, <1>3, <2>2 DEF ReportLost
  <2> QED
    BY <2>1, <2>2
<1>5. late' \subseteq late \cup {Call(kind, i, w)} /\ (late' = late \/ ReportLost(w, kind))
  BY <1>2 DEF Report, ReportLost
<1>6. PICK next \in {"claim", "fail", "leave"} : pc' = [pc EXCEPT ![w] = next]
  BY DEF Report, ReportLost, Next1
<1>7. ReportLost(w, kind) => next = IF kind = "complete" THEN "fail" ELSE "leave"
  BY <1>6 DEF ReportLost, Next1, Safe, Types
<1>8. /\ UNCHANGED <<effects, stale, at>>
      /\ pc \in [Workers -> Pcs] /\ job \in [Jobs -> Rows]
  BY DEF Report, ReportLost, Safe, Types
<1>9. kind = "complete" => effects[i] >= Due(i)
  BY <1>1, <1>2 DEF Safe, DoneOK
<1>10. LockedBy(i, w) => /\ row.attempts = job[i].attempts
                         /\ row.status = "succeeded" => kind = "complete"
  BY <1>3, EndedRow DEF Safe, RowsOK, LockedBy
<1>11. \A j \in Jobs : /\ job'[j].attempts >= job[j].attempts
                       /\ job'[j].status = "succeeded" => effects[j] >= Due(j)
                       /\ job[j].status \in Ended => job'[j].status \in Ended
  BY <1>4, <1>8, <1>9, <1>10 DEF Safe, DoneOK, RowsOK, RowOK, Rows, LockedBy, Ended
<1>12. \A v \in Workers : /\ pc'[v] \in {"handle", "complete"} => v # w /\ pc'[v] = pc[v]
                          /\ v # w => pc'[v] = pc[v]
  BY <1>6, <1>8
<1>13. \A j \in Jobs, v \in Workers : LockedBy(j, v) /\ v # w => job'[j] = job[j]
  BY <1>4, <1>8 DEF LockedBy
<1>14. ASSUME NEW c \in late'
       PROVE  /\ c.kind = "complete" => effects[c.job] >= Due(c.job)
              /\ c.kind = "fail" /\ c.by \in Workers => pc'[c.by] = "leave"
  <2>1. CASE c \in late
    <3>1. c.kind = "complete" => effects[c.job] >= Due(c.job)
      BY <2>1 DEF Safe, DoneOK
    <3>2. c.kind = "fail" /\ c.by \in Workers => pc'[c.by] = "leave"
      BY <1>1, <1>12, <2>1 DEF Safe, OwnOK
    <3> QED
      BY <3>1, <3>2
  <2>2. CASE c \notin late
    <3>1. c = Call(kind, i, w) /\ ReportLost(w, kind)
      BY <1>5, <2>2
    <3>2. kind = "fail" => pc'[w] = "leave"
      BY <1>6, <1>7, <1>8, <3>1
    <3> QED
      BY <1>9, <3>1, <3>2 DEF Call
  <2> QED
    BY <2>1, <2>2
<1> QED
  BY <1>8, <1>11, <1>12, <1>13, <1>14, Frame DEF LockedBy

(* A call that is executed after its worker gave it up keeps everything. *)
LEMMA LateCallSafe ==
  ASSUME Safe, RowsOK', NEW c \in late, LateCall(c)
  PROVE  EffectsOK' /\ DoneOK' /\ OwnOK' /\ SharedOnlyWhenStale'
<1>1. c.job \in Jobs /\ c.kind \in {"complete", "fail"}
  BY DEF Safe, Types, Calls
<1>2. PICK i \in Jobs : i = c.job
  BY <1>1
<1>3. PICK row : row = EndedAs(job[i], c.kind)
  OBVIOUS
<1>4. job' = job \/ (LockedBy(i, c.by) /\ job' = [job EXCEPT ![i] = row])
  BY <1>2, <1>3 DEF LateCall
<1>5. UNCHANGED <<effects, stale, at, pc>> /\ late' \subseteq late /\ job \in [Jobs -> Rows]
  BY DEF LateCall, Safe, Types
<1>6. LockedBy(i, c.by) => /\ row.attempts = job[i].attempts
                           /\ row.status = "succeeded" <=> c.kind = "complete"
  BY <1>1, <1>3, EndedRow DEF Safe, RowsOK, LockedBy
<1>7. c.kind = "complete" => effects[i] >= Due(i)
  BY <1>2 DEF Safe, DoneOK
<1>8. \A j \in Jobs : /\ job'[j].attempts >= job[j].attempts
                      /\ job'[j].status = "succeeded" => effects[j] >= Due(j)
                      /\ job[j].status \in Ended => job'[j].status \in Ended
  BY <1>4, <1>5, <1>6, <1>7 DEF Safe, DoneOK, RowsOK, RowOK, Rows, LockedBy, Ended
<1>9. ASSUME NEW j \in Jobs, NEW w \in Workers, LockedBy(j, w), Handling(w, j)
      PROVE  \/ job'[j].status = "running" /\ job'[j].by = w
             \/ job'[j].status \in Ended
  <2>1. CASE job' = job \/ j # i
    BY <1>4, <1>5, <1>9, <2>1 DEF LockedBy
  <2>2. CASE job' # job /\ j = i
    <3>1. c.by = w /\ job'[j] = row
      BY <1>4, <1>5, <1>9, <2>2 DEF LockedBy
    <3>2. c.kind = "complete"
      BY <1>1, <1>9, <3>1 DEF Safe, OwnOK, Handling
    <3> QED
      BY <1>6, <1>9, <2>2, <3>1, <3>2 DEF Ended
  <2> QED
    BY <2>1, <2>2
<1>10. \A d \in late' : /\ d.kind = "complete" => effects[d.job] >= Due(d.job)
                        /\ d.kind = "fail" /\ d.by \in Workers => pc'[d.by] = "leave"
  BY <1>5 DEF Safe, DoneOK, OwnOK
<1> QED
  BY <1>5, <1>8, <1>9, <1>10, Frame

(* The steps on the lock file, a restart and the rows that are queued or age *)
(* keep everything.                                                          *)
LEMMA QuietSafe ==
  ASSUME Safe, RowsOK', UNCHANGED <<job, late, effects, stale, at>>,
         \A w \in Workers : /\ pc'[w] \in {"handle", "complete"} => pc'[w] = pc[w]
                            /\ pc[w] = "leave" => pc'[w] = "leave"
  PROVE  EffectsOK' /\ DoneOK' /\ OwnOK' /\ SharedOnlyWhenStale'
<1>1. \A j \in Jobs : /\ job'[j].attempts >= job[j].attempts
                      /\ job'[j].status = "succeeded" => effects[j] >= Due(j)
                      /\ job[j].status \in Ended => job'[j].status \in Ended
  BY DEF Safe, DoneOK, RowsOK, RowOK, Rows
<1>2. \A c \in late' : /\ c.kind = "complete" => effects[c.job] >= Due(c.job)
                       /\ c.kind = "fail" /\ c.by \in Workers => pc'[c.by] = "leave"
  BY DEF Safe, DoneOK, OwnOK
<1> QED
  BY <1>1, <1>2, Frame DEF LockedBy

(* A job that is queued, and a lock that grows old, keep everything. *)
LEMMA RowSafe ==
  ASSUME Safe, RowsOK', NEW i \in Jobs, Queue(i) \/ Age(i)
  PROVE  EffectsOK' /\ DoneOK' /\ OwnOK' /\ SharedOnlyWhenStale'
<1>1. /\ UNCHANGED <<late, effects, stale, at, pc>>
      /\ job \in [Jobs -> Rows]
  BY DEF Queue, Age, Safe, Types
<1>2. PICK row : /\ job' = [job EXCEPT ![i] = row]
                 /\ row.attempts = job[i].attempts
                 /\ job[i].status \notin Ended /\ row.status # "succeeded"
                 /\ job[i].status = "running" => row.status = "running" /\ row.by = job[i].by
  <2>1. CASE Queue(i)
    <3>1. job[i].attempts = 0 /\ job[i].status = "absent"
      BY <2>1 DEF Queue, Safe, RowsOK, RowOK
    <3>2. PICK r : r = Row("queued", 0, None, FALSE)
      OBVIOUS
    <3>3. job' = [job EXCEPT ![i] = r]
      BY <2>1, <3>2 DEF Queue
    <3>4. r.attempts = job[i].attempts /\ r.status = "queued" /\ job[i].status \notin Ended
      BY <3>1, <3>2 DEF Row, Ended
    <3> QED
      BY <3>1, <3>3, <3>4
  <2>2. CASE Age(i)
    <3>1. PICK r : r = Row("running", job[i].attempts, job[i].by, TRUE)
      OBVIOUS
    <3>2. job' = [job EXCEPT ![i] = r] /\ job[i].status = "running"
      BY <2>2, <3>1 DEF Age
    <3>3. /\ r.attempts = job[i].attempts /\ r.status = "running" /\ r.by = job[i].by
          /\ job[i].status \notin Ended
      BY <3>1, <3>2 DEF Row, Ended
    <3> QED
      BY <3>2, <3>3
  <2> QED
    BY <2>1, <2>2
<1>3. \A j \in Jobs : /\ job'[j].attempts >= job[j].attempts
                      /\ job'[j].status = "succeeded" => effects[j] >= Due(j)
                      /\ job[j].status \in Ended => job'[j].status \in Ended
  BY <1>1, <1>2 DEF Safe, DoneOK, RowsOK, RowOK, Rows
<1>4. \A j \in Jobs, w \in Workers :
        LockedBy(j, w) => job'[j].status = "running" /\ job'[j].by = w
  BY <1>1, <1>2 DEF LockedBy
<1>5. \A c \in late' : /\ c.kind = "complete" => effects[c.job] >= Due(c.job)
                       /\ c.kind = "fail" /\ c.by \in Workers => pc'[c.by] = "leave"
  BY <1>1 DEF Safe, DoneOK, OwnOK
<1> QED
  BY <1>1, <1>3, <1>4, <1>5, Frame

(* What every step keeps.                                                    *)
LEMMA SafeStep ==
  ASSUME Safe, [Next]_vars
  PROVE  Safe'
<1> USE DEF queue, lock
<1>1. Types' /\ RowsOK'
  BY TypesStep DEF Safe
<1>2. CASE UNCHANGED vars
  BY <1>1, <1>2, QuietSafe DEF Safe, vars
<1>3. ASSUME NEW w \in Workers,
             Launch(w) \/ Open(w) \/ Write(w) \/ Read(w) \/ Remove(w) \/ Restart(w)
      PROVE  Safe'
  <2>1. UNCHANGED <<job, late, effects, stale, at>> /\ pc \in [Workers -> Pcs]
    BY <1>3 DEF Launch, Open, Write, Read, Remove, Restart, Safe, Types
  <2>2. \A v \in Workers : /\ pc'[v] \in {"handle", "complete"} => pc'[v] = pc[v]
                           /\ pc[v] = "leave" => pc'[v] = "leave"
    BY <1>3, <2>1 DEF Launch, Open, Write, Read, Remove, Restart
  <2> QED
    BY <1>1, <2>1, <2>2, QuietSafe DEF Safe
<1>4. ASSUME NEW w \in Workers, OpenRefused(w) \/ Probe(w) \/ Leave(w) \/ Crash(w)
      PROVE  Safe'
  <2>1. UNCHANGED <<effects, stale>> /\ pc \in [Workers -> Pcs]
    BY <1>4 DEF OpenRefused, Probe, Leave, Crash, Safe, Types
  <2>2. CASE Exit(w)
    BY <1>1, <2>1, <2>2, ExitSafe DEF Safe
  <2>3. CASE ~Exit(w)
    <3>1. UNCHANGED <<job, late, at>>
      BY <1>4, <2>3 DEF OpenRefused, Probe, Leave, Crash
    <3>2. \A v \in Workers : /\ pc'[v] \in {"handle", "complete"} => pc'[v] = pc[v]
                             /\ pc[v] = "leave" => pc'[v] = "leave"
      BY <1>4, <2>1, <2>3 DEF OpenRefused, Probe, Leave, Crash
    <3> QED
      BY <1>1, <2>1, <3>1, <3>2, QuietSafe DEF Safe
  <2> QED
    BY <2>2, <2>3
<1>5. ASSUME NEW w \in Workers, Claim(w)
      PROVE  Safe'
  BY <1>1, <1>5, ClaimSafe DEF Safe
<1>6. ASSUME NEW w \in Workers, ClaimNothing(w) \/ ClaimLost(w)
      PROVE  Safe'
  BY <1>1, <1>6, IdleClaimSafe DEF Safe
<1>7. ASSUME NEW w \in Workers, Handle(w)
      PROVE  Safe'
  BY <1>1, <1>7, HandleSafe DEF Safe
<1>8. ASSUME NEW w \in Workers, NEW kind \in {"complete", "fail"},
             Report(w, kind) \/ ReportLost(w, kind)
      PROVE  Safe'
  BY <1>1, <1>8, ReportSafe DEF Safe
<1>9. ASSUME NEW c \in late, LateCall(c)
      PROVE  Safe'
  BY <1>1, <1>9, LateCallSafe DEF Safe
<1>10. ASSUME NEW i \in Jobs, Queue(i) \/ Age(i)
       PROVE  Safe'
  BY <1>1, <1>10, RowSafe DEF Safe
<1> QED
  BY <1>2, <1>3, <1>4, <1>5, <1>6, <1>7, <1>8, <1>9, <1>10 DEF Next, Lock, Work, Fault

(* The invariant holds initially. *)
LEMMA SafeInit == Init => Safe
<1> SUFFICES ASSUME Init PROVE Safe
  OBVIOUS
<1>1. Types
  <2>1. Row("absent", 0, None, FALSE) \in Rows
    BY AttemptsAssumption DEF Rows, Row, Statuses
  <2>2. job \in [Jobs -> Rows] /\ file \in [by : Ids \cup {None}, written : BOOLEAN]
    BY <2>1, FileTypes DEF Init
  <2>3. \A w \in Workers : pc[w] \notin Working
    BY DEF Init, Working
  <2>4. faults \in 0 .. MaxFaults /\ effects \in [Jobs -> Nat]
    BY FaultsAssumption DEF Init
  <2>5. /\ pc \in [Workers -> Pcs]
        /\ saw \in [Workers -> Ids \cup {None}]
        /\ at \in [Workers -> Jobs \cup {None}]
    BY DEF Init, Pcs
  <2> QED
    BY <2>2, <2>3, <2>4, <2>5 DEF Init, Types
<1>2. RowsOK
  BY AttemptsAssumption DEF Init, RowsOK, RowOK, Rows, Row, Statuses
<1>3. \A j \in Jobs : Doers(j) = {}
  BY DEF Init, Doers
<1>4. \A j \in Jobs : Cardinality(Doers(j)) = 0
  BY <1>3, FS_EmptySet
<1>5. EffectsOK
  BY <1>4 DEF Init, EffectsOK, Row
<1> QED
  BY <1>1, <1>2, <1>5 DEF Init, Safe, DoneOK, OwnOK, SharedOnlyWhenStale, Handling, Row

(* The invariant holds in every reachable state. *)
LEMMA SafeAlways == Spec => []Safe
<1>1. Safe /\ [Next]_vars => Safe'
  BY SafeStep
<1> QED
  BY SafeInit, <1>1, PTL DEF Spec

(* The account of attempts bounds the effects of a job. *)
LEMMA EffectsBound ==
  ASSUME Safe, NEW j \in Jobs
  PROVE  effects[j] <= job[j].attempts /\ effects[j] \in 0 .. MaxAttempts
<1>1. PICK S : S = Doers(j)
  OBVIOUS
<1>2. Cardinality(S) \in Nat
  BY <1>1, WorkerSets DEF Doers
<1>3. effects[j] \in Nat /\ job[j].attempts \in 0 .. MaxAttempts
  BY DEF Safe, Types, RowsOK, RowOK, Rows
<1>4. effects[j] + Cardinality(S) <= job[j].attempts
  BY <1>1 DEF Safe, EffectsOK
<1> QED
  BY <1>2, <1>3, <1>4, AttemptsAssumption

(* Every reachable state is well typed.                                      *)
THEOREM TypeCorrect == Spec => []TypeOK
<1>1. Safe => TypeOK
  <2> SUFFICES ASSUME Safe PROVE TypeOK
    OBVIOUS
  <2>1. effects \in [Jobs -> 0 .. MaxAttempts]
    BY EffectsBound DEF Safe, Types
  <2> QED
    BY <2>1 DEF Safe, Types, TypeOK, Pcs
<1> QED
  BY SafeAlways, <1>1, PTL

(* An alert or a closeout counts as succeeded only after it has been sent;   *)
(* of the jobs that may skip their effect the theorem says nothing.          *)
THEOREM SuccessIsReal == Spec => []SucceededIsDone
<1>1. Safe => SucceededIsDone
  BY DEF Safe, DoneOK, SucceededIsDone, Due
<1> QED
  BY SafeAlways, <1>1, PTL

(* No job has more effects than attempts, for any number of workers that     *)
(* share it.                                                                 *)
THEOREM EffectsArePaid == Spec => []EffectsWithinAttempts
<1>1. Safe => EffectsWithinAttempts
  BY EffectsBound DEF EffectsWithinAttempts
<1> QED
  BY SafeAlways, <1>1, PTL

(* Two workers run a job side by side only after a stale lock was taken back.*)
THEOREM SharedIsStale == Spec => []SharedOnlyWhenStale
<1>1. Safe => SharedOnlyWhenStale
  BY DEF Safe
<1> QED
  BY SafeAlways, <1>1, PTL
-----------------------------------------------------------------------------
(* While nobody has removed a lock file, whoever passed the exclusive open   *)
(* owns the file.                                                            *)
Owners == {"write", "claim", "handle", "complete", "fail", "leave"}

LockOK ==
  /\ pc \in [Workers -> Pcs]
  /\ ~seized => \A w \in Workers : /\ pc[w] \in Owners => file.by = w
                                   /\ pc[w] # "reopen"

(* Every step keeps the lock file with its owner until one is removed. *)
LEMMA LockStep ==
  ASSUME LockOK, Types', [Next]_vars
  PROVE  LockOK'
<1> USE DEF queue, lock
<1>1. pc' \in [Workers -> Pcs] /\ pc \in [Workers -> Pcs]
  BY DEF Types, LockOK
<1> SUFFICES ASSUME ~seized', NEW v \in Workers
             PROVE  (pc'[v] \in Owners => file'.by = v) /\ pc'[v] # "reopen"
  BY <1>1 DEF LockOK
<1>2. ~seized
  BY DEF Next, Lock, Work, Fault, Launch, Open, OpenRefused, Write, Read, Probe, Remove, Leave,
         Claim, ClaimNothing, Handle, Report, ClaimLost, Restart, Crash, ReportLost, LateCall,
         Queue, Age, vars
<1>3. \A w \in Workers : (pc[w] \in Owners => file.by = w) /\ pc[w] # "reopen"
  BY <1>2 DEF LockOK
<1>4. ASSUME file' = file, NEW w \in Workers, \A u \in Workers \ {w} : pc'[u] = pc[u],
             pc[w] \in Owners \/ pc'[w] \notin Owners, pc'[w] # "reopen"
      PROVE  (pc'[v] \in Owners => file'.by = v) /\ pc'[v] # "reopen"
  BY <1>3, <1>4
<1>5. CASE UNCHANGED <<file, pc>>
  BY <1>3, <1>5
<1>6. ASSUME NEW w \in Workers, Launch(w) \/ Read(w) \/ Restart(w) \/ ClaimLost(w) \/ Handle(w) \/ Claim(w)
      PROVE  (pc'[v] \in Owners => file'.by = v) /\ pc'[v] # "reopen"
  <2>1. file' = file /\ \A u \in Workers \ {w} : pc'[u] = pc[u]
    BY <1>1, <1>6 DEF Launch, Read, Restart, ClaimLost, Handle, Claim
  <2>2. (pc[w] \in Owners \/ pc'[w] \notin Owners) /\ pc'[w] # "reopen"
    BY <1>1, <1>6 DEF Launch, Read, Restart, ClaimLost, Handle, Claim, Owners
  <2> QED
    BY <1>4, <2>1, <2>2
<1>7. ASSUME NEW w \in Workers, NEW kind \in {"complete", "fail"},
             Report(w, kind) \/ ReportLost(w, kind)
      PROVE  (pc'[v] \in Owners => file'.by = v) /\ pc'[v] # "reopen"
  <2>1. PICK next \in {"claim", "fail", "leave"} : pc' = [pc EXCEPT ![w] = next]
    BY <1>7 DEF Report, ReportLost, Next1
  <2>2. file' = file /\ pc[w] = kind
    BY <1>7 DEF Report, ReportLost
  <2> QED
    BY <1>1, <1>3, <2>1, <2>2 DEF Owners
<1>8. ASSUME NEW w \in Workers, Open(w)
      PROVE  (pc'[v] \in Owners => file'.by = v) /\ pc'[v] # "reopen"
  <2>1. \A u \in Workers : pc[u] \notin Owners
    BY <1>3, <1>8, IdsAssumption DEF Open, NoFile, File, None
  <2> QED
    BY <1>1, <1>3, <1>8, <2>1 DEF Open, File
<1>9. ASSUME NEW w \in Workers, Write(w)
      PROVE  (pc'[v] \in Owners => file'.by = v) /\ pc'[v] # "reopen"
  BY <1>1, <1>3, <1>9 DEF Write, File, Owners
<1>10. ASSUME NEW w \in Workers, OpenRefused(w) \/ Probe(w)
       PROVE  (pc'[v] \in Owners => file'.by = v) /\ pc'[v] # "reopen"
  <2>1. file' = file /\ \A u \in Workers \ {w} : pc'[u] = pc[u]
    BY <1>1, <1>10 DEF OpenRefused, Probe, Exit
  <2>2. pc'[w] \notin Owners /\ pc'[w] # "reopen"
    BY <1>1, <1>10 DEF OpenRefused, Probe, Exit, Owners
  <2> QED
    BY <1>4, <2>1, <2>2
<1>11. ASSUME NEW w \in Workers, Leave(w) \/ Crash(w)
       PROVE  (pc'[v] \in Owners => file'.by = v) /\ pc'[v] # "reopen"
  <2>1. pc' = [pc EXCEPT ![w] = "off"]
    BY <1>11 DEF Leave, Crash, Exit
  <2>2. \A u \in Workers : pc[u] \in Owners /\ u # w => pc[w] \notin Owners /\ file.by # w
    BY <1>3
  <2>3. file.by # w /\ pc[w] \notin Owners => file' = file
    BY <1>11 DEF Leave, Crash, Owners
  <2> QED
    BY <1>1, <1>3, <2>1, <2>2, <2>3 DEF Owners
<1>12. ASSUME NEW w \in Workers, Remove(w)
       PROVE  FALSE
  BY <1>12 DEF Remove
<1> QED
  BY <1>5, <1>6, <1>7, <1>8, <1>9, <1>10, <1>11, <1>12
  DEF Next, Lock, Work, Fault, ClaimNothing, LateCall, Queue, Age, vars

(* Unless somebody has removed a lock file, one worker at most is inside.    *)
THEOREM LockedAlone == Spec => []AloneUnlessSeized
<1>1. Init => LockOK
  BY DEF Init, LockOK, Pcs, Owners
<1>2. Safe => Types
  BY DEF Safe
<1>3. LockOK /\ Types' /\ [Next]_vars => LockOK'
  BY LockStep
<1>4. LockOK => AloneUnlessSeized
  BY DEF LockOK, AloneUnlessSeized, Inside, Owners
<1> QED
  BY SafeAlways, <1>1, <1>2, <1>3, <1>4, PTL DEF Spec
-----------------------------------------------------------------------------
(* A step leaves the row of an ended job alone.                              *)
LEMMA EndedStep ==
  ASSUME Safe, [Next]_vars, NEW j \in Jobs, job[j].status \in Ended
  PROVE  job'[j] = job[j]
<1> USE DEF queue, lock
<1>1. /\ job[j].status \notin {"running", "absent", "queued"}
      /\ job[j].by = None
      /\ job \in [Jobs -> Rows]
  BY DEF Safe, Types, RowsOK, RowOK, Ended
<1>2. Recovered[j] = job[j]
  BY <1>1 DEF Recovered, Expired
<1>3. \A w \in Workers : Exit(w) => job'[j] = job[j]
  BY <1>1, IdsAssumption DEF Exit, Orphaned, None
<1>4. ASSUME NEW i \in Jobs, NEW w, Recovered[i].status = "queued",
             job' = [Recovered EXCEPT ![i] = Claimed(Recovered[i], w)]
      PROVE  job'[j] = job[j]
  BY <1>1, <1>2, <1>4 DEF Recovered
<1>5. ASSUME NEW i, NEW row, job' = [job EXCEPT ![i] = row], job[i].status \in {"running", "absent"}
      PROVE  job'[j] = job[j]
  BY <1>1, <1>5
<1>6. ASSUME NEW w \in Workers, Claim(w) \/ ClaimNothing(w) \/ ClaimLost(w)
      PROVE  job'[j] = job[j]
  <2>1. \/ job' = job \/ job' = Recovered
        \/ \E i \in Jobs : /\ Recovered[i].status = "queued"
                           /\ job' = [Recovered EXCEPT ![i] = Claimed(Recovered[i], w)]
    BY <1>6 DEF Claim, ClaimNothing, ClaimLost
  <2> QED
    BY <1>2, <1>4, <2>1
<1>7. ASSUME NEW w \in Workers, NEW kind \in {"complete", "fail"},
             Report(w, kind) \/ ReportLost(w, kind)
      PROVE  job'[j] = job[j]
  <2>1. job' # job => LockedBy(at[w], w) /\ job' = [job EXCEPT ![at[w]] = EndedAs(job[at[w]], kind)]
    <3>1. CASE Report(w, kind)
      BY <3>1 DEF Report
    <3>2. CASE ReportLost(w, kind)
      BY <3>2 DEF ReportLost
    <3> QED
      BY <1>7, <3>1, <3>2
  <2> QED
    BY <1>5, <2>1 DEF LockedBy
<1>8. ASSUME NEW c \in late, LateCall(c)
      PROVE  job'[j] = job[j]
  <2>1. job' # job => LockedBy(c.job, c.by) /\ job' = [job EXCEPT ![c.job] = EndedAs(job[c.job], c.kind)]
    BY <1>8 DEF LateCall
  <2> QED
    BY <1>5, <2>1 DEF LockedBy
<1>9. ASSUME NEW i \in Jobs, Queue(i) \/ Age(i)
      PROVE  job'[j] = job[j]
  BY <1>5, <1>9 DEF Queue, Age
<1> QED
  BY <1>3, <1>6, <1>7, <1>8, <1>9
  DEF Next, Lock, Work, Fault, Launch, Open, OpenRefused, Write, Read, Probe, Remove, Leave,
      Handle, Restart, Crash, vars

(* What ended a job is final.                                                *)
THEOREM EndIsFinal == Spec => EndedStays
<1>1. Safe /\ [Next]_vars => [\A j \in Jobs : job[j].status \in Ended => job'[j] = job[j]]_vars
  BY EndedStep
<1> QED
  BY SafeAlways, <1>1, PTL DEF Spec, EndedStays
=============================================================================
