--------------------- MODULE SourceProcessingJobs_proofs ---------------------
(***************************************************************************)
(* What the work queue guarantees for any number of jobs, workers and      *)
(* attempts, any shape of the children and any order of the messages.      *)
(*                                                                         *)
(* The safety properties speak of the rows and of the applied completions  *)
(* only.  They are not inductive one by one: that a completion is the one  *)
(* of the last attempt needs that leases are live on leased rows only and  *)
(* that a leased row has been attempted; that children come with their     *)
(* parent needs that a leased parent has none yet.  Rows is their common   *)
(* strengthening, and IInv adds the types of the claims and the calls.     *)
(***************************************************************************)
EXTENDS SourceProcessingJobs, TLAPS

Row == [state : States, attempts : 0..MaxAttempts, fence : 0..MaxAttempts,
        owner : Workers \union {NoWorker}, live : BOOLEAN,
        available : BOOLEAN, by : 0..MaxAttempts]

RowsTyped ==
    /\ job \in [Jobs -> Row]
    /\ \A j \in Jobs : (job[j].owner # NoWorker) <=> (job[j].state = "leased")
    /\ applied \subseteq Jobs \X (1..MaxAttempts)

CallsTyped ==
    /\ claims \in [Workers -> SUBSET Claims]
    /\ calls \subseteq Calls

(* A lease is live on a leased row only, and whatever left the queue was   *)
(* attempted.                                                              *)
LeaseOnLeased ==
    \A j \in Jobs :
        /\ job[j].live => job[j].state = "leased"
        /\ job[j].state \in {"leased", "succeeded"} => job[j].attempts > 0
        /\ job[j].state \in {"absent", "queued"} => job[j].attempts = 0

(* ResultOfLastAttempt, completion by completion. *)
Results ==
    \A j \in Jobs : \A f \in 1..MaxAttempts :
        <<j, f>> \in applied <=> job[j].state = "succeeded" /\ f = job[j].fence

Rows == /\ RowsTyped
        /\ LeaseOnLeased
        /\ AttemptsAccounted
        /\ Results
        /\ ChildrenWithParent
        /\ MessageOrder

IInv == Rows /\ CallsTyped
-----------------------------------------------------------------------------
(* The row of an attempt that is over: given up, or waiting with an        *)
(* attempt left.                                                           *)
LEMMA ReleasedRow ==
    ASSUME NEW row \in Row, NEW a \in BOOLEAN, row.attempts > 0
    PROVE  /\ Released(row, a) \in Row
           /\ Released(row, a).owner = NoWorker
           /\ Released(row, a).live = FALSE
           /\ Released(row, a).attempts = row.attempts
           /\ Released(row, a).fence = row.fence
           /\ IF row.attempts = MaxAttempts
              THEN Released(row, a).state = "dead_letter"
              ELSE Released(row, a).state = "retry_wait"
  <1> DEFINE new(s, v) == [row EXCEPT !.state = s, !.owner = NoWorker, !.live = FALSE,
                                      !.available = v]
  <1>1. Exhausted(row) <=> row.attempts = MaxAttempts
    BY WorkersAssumption DEF Exhausted, Row
  <1>2. CASE Exhausted(row)
    <2>1. Released(row, a) = new("dead_letter", TRUE)
      BY <1>2 DEF Released
    <2> QED BY <2>1, <1>1, <1>2 DEF Row, States
  <1>3. CASE ~Exhausted(row)
    <2>1. Released(row, a) = new("retry_wait", a)
      BY <1>3 DEF Released
    <2> QED BY <2>1, <1>1, <1>3 DEF Row, States
  <1> QED BY <1>2, <1>3

(* The row of a new attempt. *)
LEMMA LeasedRow ==
    ASSUME NEW row \in Row, NEW w \in Workers,
           row.attempts < MaxAttempts, row.fence = row.attempts
    PROVE  /\ Leased(row, w) \in Row
           /\ Leased(row, w).state = "leased"
           /\ Leased(row, w).owner = w
           /\ Leased(row, w).attempts = row.attempts + 1
           /\ Leased(row, w).fence = row.attempts + 1
  <1> DEFINE n == row.attempts + 1
  <1>1. n \in 0..MaxAttempts /\ row.fence + 1 = n
    BY WorkersAssumption DEF Row
  <1>2. Leased(row, w) = [row EXCEPT !.state = "leased", !.attempts = n, !.fence = n,
                                     !.owner = w, !.live = TRUE]
    BY <1>1 DEF Leased
  <1> HIDE DEF n
  <1>3. Leased(row, w) \in Row /\ Leased(row, w).attempts = n /\ Leased(row, w).fence = n
    <2>1. n \in 0..MaxAttempts
      BY <1>1
    <2>2. "leased" \in States
      BY DEF States
    <2> QED BY <1>2, <2>1, <2>2 DEF Row
  <1>4. Leased(row, w).state = "leased" /\ Leased(row, w).owner = w
    BY <1>2 DEF Row
  <1> QED BY <1>3, <1>4 DEF n

(* A job that is sealed, or inserted as a child. *)
LEMMA QueuedRow ==
    /\ Absent \in Row /\ Queued \in Row
    /\ Queued.state = "queued" /\ Queued.attempts = 0 /\ Queued.fence = 0
    /\ Queued.owner = NoWorker /\ Queued.live = FALSE
    /\ Absent.state = "absent" /\ Absent.attempts = 0 /\ Absent.fence = 0
    /\ Absent.owner = NoWorker /\ Absent.live = FALSE
  <1>1. /\ Absent \in Row
        /\ Absent.state = "absent" /\ Absent.attempts = 0 /\ Absent.fence = 0
        /\ Absent.owner = NoWorker /\ Absent.live = FALSE
    BY WorkersAssumption DEF Absent, Row, States
  <1>2. /\ Queued \in Row
        /\ Queued.state = "queued" /\ Queued.attempts = 0 /\ Queued.fence = 0
        /\ Queued.owner = NoWorker /\ Queued.live = FALSE
    <2> HIDE DEF Absent
    <2> QED BY <1>1 DEF Queued, Row, States
  <1> QED BY <1>1, <1>2
-----------------------------------------------------------------------------
(* What each conjunct of Rows asks of one row, and of the step of one row  *)
(* that is not completed.                                                  *)
RowOk(r) ==
    /\ r \in Row
    /\ (r.owner # NoWorker) <=> (r.state = "leased")
    /\ r.live => r.state = "leased"
    /\ r.state \in {"leased", "succeeded"} => r.attempts > 0
    /\ r.state \in {"absent", "queued"} => r.attempts = 0
    /\ r.fence = r.attempts
    /\ r.state \in {"queued", "retry_wait"} => r.attempts < MaxAttempts
    /\ r.state = "dead_letter" => r.attempts = MaxAttempts

Freed(j) == \A i \in Before[j] : job'[i].state \in Terminal

StepOk(j) ==
    /\ RowOk(job'[j])
    /\ job'[j].state = "succeeded" <=> job[j].state = "succeeded"
    /\ job[j].state = "succeeded" => job'[j].fence = job[j].fence
    /\ (job'[j].state = "absent" <=> job[j].state = "absent") \/ j \in Roots
    /\ job[j].state \in Terminal => job'[j].state \in Terminal
    /\ job'[j].attempts > 0 => job[j].attempts > 0 \/ Freed(j)

(* An attempt begins or ends: the job stays open, or is given up. *)
Open == {"queued", "leased", "retry_wait"}
AttemptStep(j) ==
    \/ job'[j].state = job[j].state
    \/ job[j].state \in Open /\ job'[j].state \in Open \union {"dead_letter"}

(* Every row of the queue is as it should be. *)
LEMMA RowsAreOk ==
    ASSUME Rows
    PROVE  \A j \in Jobs : RowOk(job[j])
  BY DEF Rows, RowsTyped, LeaseOnLeased, AttemptsAccounted, RowOk

(* A row that does not change takes a step that is allowed. *)
LEMMA SameRow ==
    ASSUME Rows, NEW j \in Jobs, job'[j] = job[j]
    PROVE  StepOk(j)
  BY RowsAreOk DEF StepOk

(* Steps that complete no job keep Rows, if they are allowed row by row.   *)
LEMMA RowByRow ==
    ASSUME Rows, applied' = applied, job' \in [Jobs -> Row],
           \A j \in Jobs : StepOk(j)
    PROVE  Rows'
  <1>1. RowsTyped' /\ LeaseOnLeased' /\ AttemptsAccounted'
    BY DEF Rows, RowsTyped, LeaseOnLeased, AttemptsAccounted, StepOk, RowOk
  <1>2. Results'
    BY DEF Rows, Results, StepOk
  <1>3. ChildrenWithParent'
    <2>1. SUFFICES ASSUME NEW j \in Jobs, NEW i \in ChildrenOf[j]
                   PROVE  job'[i].state # "absent" <=> job'[j].state = "succeeded"
      BY DEF ChildrenWithParent
    <2>2. i \in Jobs /\ i \notin Roots
      BY JobsAssumption
    <2> QED BY <2>2 DEF Rows, ChildrenWithParent, StepOk
  <1>4. MessageOrder'
    <2>1. SUFFICES ASSUME NEW j \in Jobs, job'[j].attempts > 0, NEW i \in Before[j]
                   PROVE  job'[i].state \in Terminal
      BY DEF MessageOrder
    <2>2. i \in Jobs
      BY JobsAssumption
    <2>3. job[j].attempts > 0 \/ Freed(j)
      BY <2>1 DEF StepOk
    <2>4. CASE job[j].attempts > 0
      <3>1. job[i].state \in Terminal
        BY <2>1, <2>4 DEF Rows, MessageOrder
      <3> QED BY <2>2, <3>1 DEF StepOk
    <2>5. CASE Freed(j)
      BY <2>1, <2>5 DEF Freed
    <2> QED BY <2>3, <2>4, <2>5
  <1> QED BY <1>1, <1>2, <1>3, <1>4 DEF Rows
-----------------------------------------------------------------------------
(* The functions of the database and of the clock, one lemma each. *)
LEMMA SealKeeps ==
    ASSUME Rows, NEW j \in Jobs, Seal(j)
    PROVE  Rows'
  <1>1. job' = [job EXCEPT ![j] = Queued] /\ applied' = applied /\ j \in Roots
        /\ job[j].state = "absent"
    BY DEF Seal
  <1>2. job' \in [Jobs -> Row] /\ job'[j] = Queued /\ \A i \in Jobs : i # j => job'[i] = job[i]
    BY <1>1, QueuedRow DEF Rows, RowsTyped
  <1>3. StepOk(j)
    BY <1>1, <1>2, QueuedRow, WorkersAssumption DEF StepOk, RowOk, Terminal
  <1> QED BY <1>1, <1>2, <1>3, SameRow, RowByRow

(* An attempt that ends without a result leaves a row that waits, or is    *)
(* given up.                                                               *)
LEMMA ReleaseStep ==
    ASSUME Rows, NEW j \in Jobs, NEW a \in BOOLEAN,
           job[j].state = "leased", job'[j] = Released(job[j], a)
    PROVE  StepOk(j) /\ AttemptStep(j)
  <1>1. /\ job[j] \in Row /\ job[j].attempts \in 0..MaxAttempts
        /\ job[j].attempts > 0 /\ job[j].fence = job[j].attempts
    BY RowsAreOk DEF RowOk, Row
  <1> DEFINE r == Released(job[j], a)
  <1>2. /\ r \in Row /\ r.owner = NoWorker /\ r.live = FALSE
        /\ r.attempts = job[j].attempts /\ r.fence = job[j].fence
        /\ IF job[j].attempts = MaxAttempts THEN r.state = "dead_letter"
                                            ELSE r.state = "retry_wait"
    BY <1>1, ReleasedRow
  <1>3. RowOk(r) /\ r.state \in {"dead_letter", "retry_wait"}
    <2> HIDE DEF r
    <2> QED BY <1>1, <1>2, WorkersAssumption DEF RowOk
  <1> QED BY <1>1, <1>3 DEF StepOk, AttemptStep, Open, Terminal

(* fail_source_processing_job keeps the rows, whoever calls it. *)
LEMMA FailKeeps ==
    ASSUME Rows, NEW j \in Jobs, NEW w \in Workers, NEW f, FailEffect(j, w, f)
    PROVE  Rows' /\ \A i \in Jobs : AttemptStep(i)
  <1>1. CASE Holds(j, w, f)
    <2>1. job' = [job EXCEPT ![j] = Released(@, FALSE)] /\ applied' = applied
      BY <1>1 DEF FailEffect
    <2>2. job[j] \in Row /\ job[j].attempts > 0 /\ job[j].state = "leased"
      BY <1>1, RowsAreOk DEF Holds, RowOk
    <2>3. Released(job[j], FALSE) \in Row
      BY <2>2, ReleasedRow
    <2>4. job' \in [Jobs -> Row] /\ job'[j] = Released(job[j], FALSE)
          /\ \A i \in Jobs : i # j => job'[i] = job[i]
      BY <2>1, <2>3 DEF Rows, RowsTyped
    <2>5. StepOk(j) /\ AttemptStep(j)
      BY <2>2, <2>4, ReleaseStep
    <2>6. \A i \in Jobs : AttemptStep(i)
      BY <2>4, <2>5 DEF AttemptStep
    <2> QED BY <2>1, <2>4, <2>5, <2>6, SameRow, RowByRow
  <1>2. CASE ~Holds(j, w, f)
    BY <1>2, SameRow, RowByRow DEF FailEffect, Rows, RowsTyped, AttemptStep
  <1> QED BY <1>1, <1>2

(* So do the clock's steps, the end of a lease and of a backoff. *)
LEMMA ClockKeeps ==
    ASSUME Rows, NEW j \in Jobs, LeaseExpires(j) \/ BackoffElapses(j)
    PROVE  Rows'
  <1>1. PICK v \in BOOLEAN, b \in BOOLEAN :
           /\ job' = [job EXCEPT ![j] = [@ EXCEPT !.live = v, !.available = b]]
           /\ v => job[j].live
           /\ applied' = applied
    <2>1. CASE LeaseExpires(j)
      <3>1. job' = [job EXCEPT ![j] = [@ EXCEPT !.live = FALSE, !.available = job[j].available]]
        BY <2>1 DEF LeaseExpires, Rows, RowsTyped, Row
      <3> QED BY <2>1, <3>1 DEF LeaseExpires, Rows, RowsTyped, Row
    <2>2. CASE BackoffElapses(j)
      <3>1. job' = [job EXCEPT ![j] = [@ EXCEPT !.live = job[j].live, !.available = TRUE]]
        BY <2>2 DEF BackoffElapses, Rows, RowsTyped, Row
      <3> QED BY <2>2, <3>1 DEF BackoffElapses, Rows, RowsTyped, Row
    <2> QED BY <2>1, <2>2
  <1>2. job' \in [Jobs -> Row] /\ \A i \in Jobs : i # j => job'[i] = job[i]
    BY <1>1 DEF Rows, RowsTyped, Row
  <1>3. StepOk(j)
    BY <1>1, <1>2, RowsAreOk DEF StepOk, RowOk, Row, Rows, RowsTyped
  <1> QED BY <1>1, <1>2, <1>3, SameRow, RowByRow
-----------------------------------------------------------------------------
(* A claim takes each row in at most two steps: what had expired is        *)
(* released, and what may be claimed is leased.                            *)
LEMMA ClaimStep ==
    ASSUME Rows, NEW w \in Workers, NEW skipped \in SUBSET Jobs, NEW taken \in SUBSET Jobs,
           \A j \in taken : j \notin skipped /\ Claimable(Reaped(skipped), j),
           job' = [j \in Jobs |-> IF j \in taken THEN Leased(Reaped(skipped)[j], w)
                                                ELSE Reaped(skipped)[j]],
           NEW j \in Jobs
    PROVE  /\ StepOk(j) /\ AttemptStep(j)
           /\ job'[j] \in Row
           /\ job[j].live => job'[j] = job[j]
           /\ j \in taken => job'[j].fence \in 1..MaxAttempts
  <1> DEFINE r == Reaped(skipped)[j]
  <1>1. RowOk(job[j])
    BY RowsAreOk
  <1>2. job'[j] = IF j \in taken THEN Leased(r, w) ELSE r
    OBVIOUS
  <1>3. r = IF Expired(j) /\ j \notin skipped THEN Released(job[j], TRUE) ELSE job[j]
    BY DEF Reaped
  <1>4. CASE j \notin taken /\ ~(Expired(j) /\ j \notin skipped)
    BY <1>1, <1>2, <1>3, <1>4, SameRow DEF RowOk, AttemptStep
  <1>5. CASE j \notin taken /\ Expired(j) /\ j \notin skipped
    <2>1. job'[j] = Released(job[j], TRUE) /\ job[j].state = "leased" /\ ~job[j].live
      BY <1>2, <1>3, <1>5 DEF Expired
    <2>2. StepOk(j) /\ AttemptStep(j)
      BY <2>1, ReleaseStep
    <2> QED BY <1>5, <2>1, <2>2 DEF StepOk, RowOk
  <1>6. CASE j \in taken
    <2>1. /\ r.state \in {"queued", "retry_wait"} /\ r.attempts < MaxAttempts
          /\ \A i \in Before[j] : Reaped(skipped)[i].state \in Terminal
      BY <1>6 DEF Claimable
    <2>2. Freed(j)
      <3>1. SUFFICES ASSUME NEW i \in Before[j]
                     PROVE  job'[i].state \in Terminal
        BY DEF Freed
      <3>2. i \in Jobs
        BY JobsAssumption
      <3>3. Reaped(skipped)[i].state \in Terminal
        BY <2>1
      <3>4. i \notin taken
        BY <3>3 DEF Claimable, Terminal
      <3> QED BY <3>2, <3>3, <3>4
    <2>3. /\ r \in Row /\ r.fence = r.attempts
          /\ job[j].state \in Open /\ ~job[j].live
      <3>1. CASE Expired(j) /\ j \notin skipped
        <4>1. /\ job[j] \in Row /\ job[j].attempts > 0 /\ job[j].fence = job[j].attempts
              /\ job[j].state = "leased" /\ ~job[j].live
          BY <1>1, <3>1 DEF Expired, RowOk
        <4>2. r = Released(job[j], TRUE)
          BY <1>3, <3>1
        <4>3. Released(job[j], TRUE) \in Row
              /\ Released(job[j], TRUE).attempts = job[j].attempts
              /\ Released(job[j], TRUE).fence = job[j].fence
          BY <4>1, ReleasedRow
        <4> QED BY <4>1, <4>2, <4>3 DEF Open
      <3>2. CASE ~(Expired(j) /\ j \notin skipped)
        <4>1. r = job[j]
          BY <1>3, <3>2
        <4> HIDE DEF r
        <4> QED BY <1>1, <2>1, <4>1 DEF RowOk, Open
      <3> QED BY <3>1, <3>2
    <2>4. /\ job'[j] = Leased(r, w) /\ Leased(r, w) \in Row
          /\ Leased(r, w).state = "leased" /\ Leased(r, w).owner = w
          /\ Leased(r, w).attempts = r.attempts + 1
          /\ Leased(r, w).fence = r.attempts + 1
      <3> HIDE DEF r
      <3> QED BY <1>2, <1>6, <2>1, <2>3, LeasedRow
    <2>5. r.attempts + 1 \in 1..MaxAttempts
      <3> HIDE DEF r
      <3> QED BY <2>1, <2>3, WorkersAssumption DEF Row
    <2>6. RowOk(job'[j]) /\ job'[j].state = "leased" /\ job'[j].fence \in 1..MaxAttempts
      <3> HIDE DEF r
      <3> DEFINE l == Leased(r, w)
      <3>1. /\ job'[j] = l /\ l \in Row /\ l.state = "leased" /\ l.owner \in Workers
            /\ l.attempts \in 1..MaxAttempts /\ l.fence = l.attempts
        BY <2>4, <2>5
      <3> HIDE DEF l
      <3> QED BY <3>1, WorkersAssumption DEF RowOk
    <2> QED BY <1>6, <2>2, <2>3, <2>6 DEF StepOk, AttemptStep, Open, Terminal, RowOk
  <1> QED BY <1>4, <1>5, <1>6
-----------------------------------------------------------------------------
(* claim_source_processing_jobs keeps the rows, whatever rows its locks    *)
(* make it skip, and leaves live leases alone.                             *)
LEMMA ClaimKeeps ==
    ASSUME Rows, NEW w \in Workers, NEW skipped \in SUBSET Jobs, ClaimSkipping(w, skipped),
           claims \in [Workers -> SUBSET Claims]
    PROVE  /\ Rows' /\ claims' \in [Workers -> SUBSET Claims]
           /\ \A j \in Jobs : job[j].live => job'[j] = job[j]
           /\ \A j \in Jobs : AttemptStep(j)
  <1> DEFINE rows == Reaped(skipped)
  <1>1. PICK taken \in SUBSET {j \in Jobs \ skipped : Claimable(rows, j)} :
           /\ job' = [j \in Jobs |-> IF j \in taken THEN Leased(rows[j], w) ELSE rows[j]]
           /\ claims' = [claims EXCEPT ![w] =
                 {[job |-> j, fence |-> job'[j].fence, stage |-> "work"] : j \in taken}]
    BY DEF ClaimSkipping
  <1>2. applied' = applied
    BY DEF ClaimSkipping
  <1>3. \A j \in Jobs : /\ StepOk(j) /\ AttemptStep(j) /\ job'[j] \in Row
                        /\ job[j].live => job'[j] = job[j]
                        /\ j \in taken => job'[j].fence \in 1..MaxAttempts
    BY <1>1, ClaimStep
  <1>4. job' \in [Jobs -> Row]
    BY <1>1, <1>3
  <1>5. Rows'
    BY <1>2, <1>3, <1>4, RowByRow
  <1>6. {[job |-> j, fence |-> job'[j].fence, stage |-> "work"] : j \in taken} \subseteq Claims
    BY <1>1, <1>3 DEF Claims
  <1>7. claims' \in [Workers -> SUBSET Claims]
    BY <1>1, <1>6
  <1> QED BY <1>3, <1>5, <1>7

(* The one step that completes a job: the children it inserts had not been *)
(* inserted, because the job had not succeeded.                            *)
LEMMA CompletedRows ==
    ASSUME Rows, NEW j \in Jobs, NEW w \in Workers, NEW f \in 1..MaxAttempts, Holds(j, w, f)
    PROVE  /\ \A i \in ChildrenOf[j] : i \in Jobs /\ i # j /\ job[i].state = "absent"
           /\ Completed(j, f) \in [Jobs -> Row]
           /\ \A i \in Jobs : RowOk(Completed(j, f)[i])
           /\ Completed(j, f)[j].state = "succeeded" /\ Completed(j, f)[j].fence = f
           /\ \A i \in ChildrenOf[j] : Completed(j, f)[i] = Queued
           /\ \A i \in Jobs : i # j /\ i \notin ChildrenOf[j] => Completed(j, f)[i] = job[i]
  <1> DEFINE done == [job[j] EXCEPT !.state = "succeeded", !.owner = NoWorker,
                                    !.live = FALSE, !.by = f]
  <1>1. RowOk(job[j]) /\ job[j].state = "leased" /\ job[j].fence = f
    BY RowsAreOk DEF Holds
  <1>2. \A i \in ChildrenOf[j] : i \in Jobs /\ i # j /\ job[i].state = "absent"
    BY <1>1, JobsAssumption DEF Rows, ChildrenWithParent
  <1>3. /\ done \in Row /\ done.state = "succeeded" /\ done.fence = f /\ done.owner = NoWorker
        /\ done.live = FALSE /\ done.attempts = job[j].attempts
    BY <1>1, WorkersAssumption DEF RowOk, Row, States
  <1>4. RowOk(done)
    <2> HIDE DEF done
    <2> QED BY <1>1, <1>3 DEF RowOk
  <1>5. RowOk(Queued)
    BY QueuedRow, WorkersAssumption DEF RowOk
  <1>6. \A i \in Jobs : Completed(j, f)[i] = IF i = j THEN done
                                            ELSE IF i \in ChildrenOf[j] THEN Queued ELSE job[i]
    BY <1>2 DEF Completed
  <1> HIDE DEF done
  <1>7. \A i \in Jobs : RowOk(Completed(j, f)[i])
    BY <1>4, <1>5, <1>6, RowsAreOk
  <1>8. Completed(j, f) \in [Jobs -> Row]
    <2>1. \A i \in Jobs : Completed(j, f)[i] \in Row
      BY <1>7 DEF RowOk
    <2>2. Completed(j, f) = [i \in Jobs |-> Completed(j, f)[i]]
      BY DEF Completed
    <2> QED BY <2>1, <2>2
  <1> QED BY <1>2, <1>3, <1>6, <1>7, <1>8

(* complete_source_processing_job keeps the rows, whether it is accepted   *)
(* or refused.                                                             *)
LEMMA CompleteKeeps ==
    ASSUME Rows, NEW j \in Jobs, NEW w \in Workers, NEW f \in 1..MaxAttempts,
           CompleteEffect(j, w, f)
    PROVE  Rows'
  <1>1. CASE ~Holds(j, w, f)
    BY <1>1, SameRow, RowByRow DEF CompleteEffect, Rows, RowsTyped
  <1>2. CASE Holds(j, w, f)
    <2>1. job' = Completed(j, f) /\ applied' = applied \union {<<j, f>>}
      BY <1>2 DEF CompleteEffect
    <2>2. /\ \A i \in ChildrenOf[j] : i \in Jobs /\ i # j /\ job[i].state = "absent"
          /\ job' \in [Jobs -> Row]
          /\ \A i \in Jobs : RowOk(job'[i])
          /\ job'[j].state = "succeeded" /\ job'[j].fence = f
          /\ \A i \in ChildrenOf[j] : job'[i] = Queued
          /\ \A i \in Jobs : i # j /\ i \notin ChildrenOf[j] => job'[i] = job[i]
      BY <1>2, <2>1, CompletedRows
    <2>3. RowOk(job[j]) /\ job[j].state = "leased"
      BY <1>2, RowsAreOk DEF Holds
    <2>4. RowsTyped' /\ LeaseOnLeased' /\ AttemptsAccounted'
      BY <2>1, <2>2 DEF Rows, RowsTyped, LeaseOnLeased, AttemptsAccounted, RowOk
    <2>5. Results'
      <3>1. SUFFICES ASSUME NEW i \in Jobs, NEW g \in 1..MaxAttempts
                     PROVE  <<i, g>> \in applied' <=> job'[i].state = "succeeded" /\ g = job'[i].fence
        BY DEF Results
      <3>2. <<i, g>> \in applied <=> job[i].state = "succeeded" /\ g = job[i].fence
        BY DEF Rows, Results
      <3>3. CASE i = j
        BY <2>1, <2>2, <2>3, <3>2, <3>3
      <3>4. CASE i # j /\ i \in ChildrenOf[j]
        BY <2>1, <2>2, <3>2, <3>4, QueuedRow
      <3>5. CASE i # j /\ i \notin ChildrenOf[j]
        BY <2>1, <2>2, <3>2, <3>5
      <3> QED BY <3>3, <3>4, <3>5
    <2>6. ChildrenWithParent'
      <3>1. SUFFICES ASSUME NEW k \in Jobs, NEW i \in ChildrenOf[k]
                     PROVE  job'[i].state # "absent" <=> job'[k].state = "succeeded"
        BY DEF ChildrenWithParent
      <3>2. /\ i \in Jobs
            /\ job[i].state # "absent" <=> job[k].state = "succeeded"
        BY JobsAssumption DEF Rows, ChildrenWithParent
      <3>3. CASE k = j
        BY <2>2, <3>3, QueuedRow
      <3>4. CASE k # j
        <4>1. i \notin ChildrenOf[j]
          BY <3>4, JobsAssumption
        <4>2. job'[i].state = "absent" <=> job[i].state = "absent"
          BY <2>2, <2>3, <3>2, <4>1
        <4>3. job'[k].state = "succeeded" <=> job[k].state = "succeeded"
          BY <2>2, <3>4, QueuedRow
        <4> QED BY <3>2, <4>2, <4>3
      <3> QED BY <3>3, <3>4
    <2>7. MessageOrder'
      <3>1. SUFFICES ASSUME NEW k \in Jobs, job'[k].attempts > 0, NEW i \in Before[k]
                     PROVE  job'[i].state \in Terminal
        BY DEF MessageOrder
      <3>2. i \in Jobs /\ i \notin ChildrenOf[j]
        BY JobsAssumption
      <3>3. job[k].attempts > 0
        BY <2>2, <2>3, <3>1, QueuedRow DEF RowOk
      <3>4. job[i].state \in Terminal
        BY <3>3 DEF Rows, MessageOrder
      <3> QED BY <2>2, <2>3, <3>2, <3>4 DEF Terminal
    <2> QED BY <2>4, <2>5, <2>6, <2>7 DEF Rows
  <1> QED BY <1>1, <1>2
-----------------------------------------------------------------------------
(* The invariant holds of an empty queue. *)
LEMMA InitInv == Init => IInv
  <1> SUFFICES ASSUME Init PROVE IInv
    OBVIOUS
  <1>1. RowsTyped /\ LeaseOnLeased /\ AttemptsAccounted
    BY QueuedRow DEF Init, RowsTyped, LeaseOnLeased, AttemptsAccounted
  <1>2. Results
    BY QueuedRow DEF Init, Results
  <1>3. ChildrenWithParent /\ MessageOrder
    BY QueuedRow, JobsAssumption DEF Init, ChildrenWithParent, MessageOrder
  <1>4. CallsTyped
    BY DEF Init, CallsTyped
  <1> QED BY <1>1, <1>2, <1>3, <1>4 DEF IInv, Rows

(* The invariant is inductive: every step of the workers, of late calls    *)
(* and of the clock keeps it.                                              *)
LEMMA NextInv == IInv /\ [Next]_vars => IInv'
  <1> SUFFICES ASSUME IInv, [Next]_vars PROVE IInv'
    OBVIOUS
  <1> USE DEF IInv
  <1>1. \A w \in Workers : \A c \in claims[w] :
           c \in Claims /\ c.job \in Jobs /\ c.fence \in 1..MaxAttempts
    BY DEF CallsTyped, Claims
  <1>2. ASSUME NEW w \in Workers, Claim(w) PROVE IInv'
    BY <1>2, ClaimKeeps DEF Claim, ClaimSkipping, CallsTyped
  <1>3. ASSUME NEW w \in Workers, NEW c \in claims[w], WorkFails(w, c) PROVE IInv'
    <2>1. Rows'
      BY <1>3, SameRow, RowByRow DEF WorkFails, Rows, RowsTyped
    <2>2. CallsTyped'
      BY <1>1, <1>3 DEF WorkFails, Failing, CallsTyped, Claims
    <2> QED BY <2>1, <2>2
  <1>4. ASSUME NEW w \in Workers, NEW c \in claims[w], Complete(w, c) PROVE IInv'
    <2>1. Rows'
      BY <1>1, <1>4, CompleteKeeps DEF Complete
    <2>2. CallsTyped'
      BY <1>1, <1>4 DEF Complete, Drop, Failing, CallsTyped, Claims
    <2> QED BY <2>1, <2>2
  <1>5. ASSUME NEW w \in Workers, NEW c \in claims[w], Fail(w, c) PROVE IInv'
    <2>1. Rows'
      BY <1>1, <1>5, FailKeeps DEF Fail
    <2>2. CallsTyped'
      BY <1>5 DEF Fail, Drop, CallsTyped
    <2> QED BY <2>1, <2>2
  <1>6. ASSUME NEW w \in Workers, Abandon(w) PROVE IInv'
    <2>1. Rows'
      BY <1>6, SameRow, RowByRow DEF Abandon, Rows, RowsTyped
    <2>2. CallsTyped'
      BY <1>1, <1>6 DEF Abandon, CallsTyped, Claims, Calls
    <2> QED BY <2>1, <2>2
  <1>7. ASSUME NEW c \in calls, LateCall(c) \/ CallLost(c) PROVE IInv'
    <2>1. c \in Calls /\ c.job \in Jobs /\ c.worker \in Workers /\ c.fence \in 1..MaxAttempts
      BY DEF CallsTyped, Calls
    <2>2. CASE LateCall(c)
      BY <2>1, <2>2, CompleteKeeps, FailKeeps DEF LateCall, CallsTyped
    <2>3. CASE CallLost(c)
      BY <2>3, SameRow, RowByRow DEF CallLost, CallsTyped, Rows, RowsTyped
    <2> QED BY <1>7, <2>2, <2>3
  <1>8. ASSUME NEW j \in Jobs, Seal(j) \/ LeaseExpires(j) \/ BackoffElapses(j) PROVE IInv'
    <2>1. Rows'
      BY <1>8, SealKeeps, ClockKeeps
    <2>2. CallsTyped'
      BY <1>8 DEF Seal, LeaseExpires, BackoffElapses, CallsTyped
    <2> QED BY <2>1, <2>2
  <1>9. CASE UNCHANGED vars
    BY <1>9, SameRow, RowByRow DEF vars, CallsTyped, Rows, RowsTyped
  <1> QED BY <1>2, <1>3, <1>4, <1>5, <1>6, <1>7, <1>8, <1>9 DEF Next, Work

(* The strengthening holds of every reachable state. *)
THEOREM Invariance == Spec => []IInv
  <1> QED BY InitInv, NextInv, PTL DEF Spec
-----------------------------------------------------------------------------
(* Rows, claims and calls stay in their types, and a row has an owner      *)
(* exactly while it is leased.                                             *)
THEOREM TypeCorrect == Spec => []TypeOK
  <1>1. IInv => TypeOK
    BY DEF IInv, Rows, RowsTyped, CallsTyped, TypeOK, Row
  <1> QED BY <1>1, Invariance, PTL

(* No waiting job is stranded without attempts, none is given up early:    *)
(* claim, fail and the reaping of expired leases agree on the count.       *)
THEOREM AttemptsAlwaysAccounted == Spec => []AttemptsAccounted
  <1>1. IInv => AttemptsAccounted
    BY DEF IInv, Rows
  <1> QED BY <1>1, Invariance, PTL

(* However workers overlap and calls are repeated or late, the result of a *)
(* job is that of its last attempt, and there is one.                      *)
THEOREM OneResultPerJob == Spec => []ResultOfLastAttempt
  <1>1. IInv => ResultOfLastAttempt
    <2>1. SUFFICES ASSUME IInv, NEW j \in Jobs
                   PROVE  {f \in 1..MaxAttempts : <<j, f>> \in applied} =
                            IF job[j].state = "succeeded" THEN {job[j].fence} ELSE {}
      BY DEF ResultOfLastAttempt
    <2>2. RowOk(job[j])
      BY <2>1, RowsAreOk DEF IInv
    <2>3. job[j].state = "succeeded" => job[j].fence \in 1..MaxAttempts
      BY <2>2, WorkersAssumption DEF RowOk, Row
    <2> QED BY <2>1, <2>3 DEF IInv, Rows, Results
  <1> QED BY <1>1, Invariance, PTL

(* The next stage starts with its parent's success, whatever the chain of  *)
(* stages.                                                                 *)
THEOREM ChildrenComeWithParent == Spec => []ChildrenWithParent
  <1>1. IInv => ChildrenWithParent
    BY DEF IInv, Rows
  <1> QED BY <1>1, Invariance, PTL

(* Materializations of a message are attempted in the order they were      *)
(* sealed in.                                                              *)
THEOREM MessagesInOrder == Spec => []MessageOrder
  <1>1. IInv => MessageOrder
    BY DEF IInv, Rows
  <1> QED BY <1>1, Invariance, PTL
-----------------------------------------------------------------------------
(* Only its holder, or the clock, takes a job whose lease is live. *)
THEOREM LeaseIsExclusive == Spec => LiveLeaseKept
  <1> DEFINE Kept(j) == \/ job'[j] \in {job[j], [job[j] EXCEPT !.live = FALSE]}
                       \/ HolderAcks(j)
  <1>1. IInv /\ [Next]_vars => [\A j \in Jobs : job[j].live => Kept(j)]_vars
    <2> SUFFICES ASSUME IInv, Next, NEW j \in Jobs, job[j].live
                 PROVE  Kept(j)
      BY DEF vars
    <2>1. RowOk(job[j]) /\ job[j].state = "leased" /\ job \in [Jobs -> Row]
      BY RowsAreOk DEF IInv, Rows, RowsTyped, RowOk
    <2>2. ASSUME NEW k \in Jobs, NEW w \in Workers, NEW f \in 1..MaxAttempts,
                 CompleteEffect(k, w, f), job'[j] # job[j]
          PROVE  Holds(k, w, f) /\ k = j /\ f = job[j].fence
      <3>1. Holds(k, w, f) /\ job' = Completed(k, f)
        BY <2>2 DEF CompleteEffect
      <3>2. \A i \in ChildrenOf[k] : job[i].state = "absent"
        BY <3>1, CompletedRows DEF IInv
      <3>3. k = j
        BY <2>1, <2>2, <3>1, <3>2 DEF Completed
      <3> QED BY <3>1, <3>3 DEF Holds
    <2>3. ASSUME NEW k \in Jobs, NEW w \in Workers, NEW f,
                 FailEffect(k, w, f), job'[j] # job[j]
          PROVE  Holds(k, w, f) /\ k = j /\ f = job[j].fence
      BY <2>1, <2>3 DEF FailEffect, Holds
    <2>4. ASSUME NEW w \in Workers, Claim(w) PROVE Kept(j)
      BY <2>4, ClaimKeeps DEF Claim, IInv, CallsTyped
    <2>5. ASSUME NEW w \in Workers, NEW c \in claims[w], WorkFails(w, c) \/ Complete(w, c) \/ Fail(w, c)
          PROVE  Kept(j)
      <3>1. c.job \in Jobs /\ c.fence \in 1..MaxAttempts
        BY DEF IInv, CallsTyped, Claims
      <3>2. SUFFICES ASSUME job'[j] # job[j] PROVE HolderAcks(j)
        OBVIOUS
      <3>3. (c.job = j /\ c.fence = job[j].fence) /\ c \notin claims'[w] => HolderAcks(j)
        BY DEF HolderAcks
      <3>4. CASE WorkFails(w, c)
        BY <3>2, <3>4 DEF WorkFails
      <3>5. CASE Complete(w, c)
        <4>1. Holds(c.job, w, c.fence) /\ c.job = j /\ c.fence = job[j].fence
          BY <2>2, <3>1, <3>2, <3>5 DEF Complete
        <4>2. claims' = [claims EXCEPT ![w] = @ \ {c}]
          BY <3>5, <4>1 DEF Complete, CompleteAnswersOk, Drop
        <4> QED BY <3>3, <4>1, <4>2 DEF IInv, CallsTyped
      <3>6. CASE Fail(w, c)
        <4>1. c.job = j /\ c.fence = job[j].fence
          BY <2>3, <3>1, <3>2, <3>6 DEF Fail
        <4>2. claims' = [claims EXCEPT ![w] = @ \ {c}]
          BY <3>6 DEF Fail, Drop
        <4> QED BY <3>3, <4>1, <4>2 DEF IInv, CallsTyped
      <3> QED BY <2>5, <3>4, <3>5, <3>6
    <2>6. ASSUME NEW w \in Workers, Abandon(w) PROVE Kept(j)
      BY <2>6 DEF Abandon
    <2>7. ASSUME NEW c \in calls, LateCall(c) \/ CallLost(c) PROVE Kept(j)
      <3>1. c.job \in Jobs /\ c.worker \in Workers /\ c.fence \in 1..MaxAttempts
        BY DEF IInv, CallsTyped, Calls
      <3>2. SUFFICES ASSUME job'[j] # job[j] PROVE HolderAcks(j)
        OBVIOUS
      <3>3. c.job = j /\ c.fence = job[j].fence
        BY <2>2, <2>3, <2>7, <3>1, <3>2 DEF LateCall, CallLost
      <3> QED BY <3>3 DEF HolderAcks
    <2>8. ASSUME NEW k \in Jobs, Seal(k) PROVE Kept(j)
      BY <2>1, <2>8 DEF Seal
    <2>9. ASSUME NEW k \in Jobs, LeaseExpires(k) PROVE Kept(j)
      BY <2>1, <2>9 DEF LeaseExpires
    <2>10. ASSUME NEW k \in Jobs, BackoffElapses(k) PROVE Kept(j)
      BY <2>1, <2>10 DEF BackoffElapses
    <2> QED BY <2>4, <2>5, <2>6, <2>7, <2>8, <2>9, <2>10 DEF Next, Work
  <1> QED BY <1>1, Invariance, PTL DEF Spec, LiveLeaseKept
-----------------------------------------------------------------------------
(* The outcomes of the rows, before a step and after it. *)
Shown(rows) == [j \in Jobs |-> Outcome(rows[j].state)]

(* What each state of a row shows as. *)
LEMMA OutcomeOfState ==
    /\ Outcome("absent") = "none" /\ Outcome("queued") = "open" /\ Outcome("leased") = "open"
    /\ Outcome("retry_wait") = "open" /\ Outcome("succeeded") = "done"
    /\ Outcome("dead_letter") = "dead"
  BY DEF Outcome

(* A step that changes rows, but no outcome, is no step of the abstract    *)
(* specification.                                                          *)
LEMMA Stutters ==
    ASSUME applied' = applied,
           \A j \in Jobs : Outcome(job'[j].state) = Outcome(job[j].state)
    PROVE  UNCHANGED <<Shown(job), applied>>
  BY DEF Shown

(* A job that is sealed is one that opens. *)
LEMMA SealRefines ==
    ASSUME IInv, NEW j \in Jobs, Seal(j)
    PROVE  Outcomes!Next
  <1>1. /\ j \in Roots /\ job[j].state = "absent" /\ applied' = applied
        /\ job'[j] = Queued /\ \A i \in Jobs : i # j => job'[i] = job[i]
    BY DEF Seal, IInv, Rows, RowsTyped
  <1>2. Shown(job)[j] = "none" /\ Shown(job)' = [Shown(job) EXCEPT ![j] = "open"]
    BY <1>1, QueuedRow, OutcomeOfState DEF Shown
  <1>3. Outcomes!Queue(j)
    BY <1>1, <1>2 DEF Outcomes!Queue, Shown
  <1> QED BY <1>3 DEF Outcomes!Next

(* Any set of leased jobs may be released at once, and waiting ones leased *)
(* in the same step.                                                       *)
LEMMA ReleasesRefine ==
    ASSUME IInv, applied' = applied,
           \A j \in Jobs : \/ Outcome(job'[j].state) = Outcome(job[j].state)
                           \/ /\ Outcome(job[j].state) = "open"
                              /\ Outcome(job'[j].state) = "dead"
    PROVE  Outcomes!Next
  <1> DEFINE given == {j \in Jobs : Outcome(job'[j].state) # Outcome(job[j].state)}
  <1>1. \A j \in given : Shown(job)[j] = "open"
    BY DEF Shown
  <1>2. Shown(job)' = [j \in Jobs |-> IF j \in given THEN "dead" ELSE Shown(job)[j]]
    BY DEF Shown
  <1>3. Outcomes!GiveUp(given)
    BY <1>1, <1>2 DEF Outcomes!GiveUp, Shown
  <1> QED BY <1>3 DEF Outcomes!Next

(* A completion that is accepted finishes its job and opens its children   *)
(* in one step.                                                            *)
LEMMA CompleteRefines ==
    ASSUME IInv, NEW j \in Jobs, NEW w \in Workers, NEW f \in 1..MaxAttempts,
           CompleteEffect(j, w, f), Holds(j, w, f)
    PROVE  Outcomes!Next
  <1>1. job' = Completed(j, f) /\ applied' = applied \union {<<j, f>>} /\ job[j].state = "leased"
    BY DEF CompleteEffect, Holds
  <1>2. /\ \A i \in ChildrenOf[j] : i \in Jobs /\ i # j /\ job[i].state = "absent"
        /\ job'[j].state = "succeeded"
        /\ \A i \in ChildrenOf[j] : job'[i] = Queued
        /\ \A i \in Jobs : i # j /\ i \notin ChildrenOf[j] => job'[i] = job[i]
    BY <1>1, CompletedRows DEF IInv
  <1>3. Shown(job)[j] = "open" /\ \A i \in ChildrenOf[j] : Shown(job)[i] = "none"
    BY <1>1, <1>2, OutcomeOfState DEF Shown
  <1>4. Shown(job)' = [i \in Jobs |-> IF i = j THEN "done"
                                      ELSE IF i \in ChildrenOf[j] THEN "open" ELSE Shown(job)[i]]
    BY <1>2, QueuedRow, OutcomeOfState DEF Shown
  <1>5. Outcomes!Finish(j)
    BY <1>1, <1>3, <1>4 DEF Outcomes!Finish, Shown
  <1> QED BY <1>5 DEF Outcomes!Next

(* The queue implements the abstract promise: its leases, workers, retries *)
(* and lost or repeated calls show only as jobs that finish once, with     *)
(* their children, or are given up.                                        *)
THEOREM Implements == Spec => ImplementsOutcomes
  <1>1. Init => Outcomes!Init
    BY QueuedRow, OutcomeOfState DEF Init, Outcomes!Init
  <1>2. IInv /\ [Next]_vars => [Outcomes!Next]_<<Shown(job), applied>>
    <2> SUFFICES ASSUME IInv, [Next]_vars
                 PROVE  Outcomes!Next \/ UNCHANGED <<Shown(job), applied>>
      OBVIOUS
    <2>1. /\ \A j \in Jobs : job[j].state \in States
          /\ \A w \in Workers : \A c \in claims[w] : c.job \in Jobs /\ c.fence \in 1..MaxAttempts
      BY DEF IInv, Rows, RowsTyped, Row, CallsTyped, Claims
    <2>2. ASSUME applied' = applied, \A j \in Jobs : AttemptStep(j)
          PROVE  Outcomes!Next
      <3>1. \A j \in Jobs : \/ Outcome(job'[j].state) = Outcome(job[j].state)
                            \/ /\ Outcome(job[j].state) = "open"
                               /\ Outcome(job'[j].state) = "dead"
        BY <2>2, OutcomeOfState DEF AttemptStep, Open
      <3> QED BY <2>2, <3>1, ReleasesRefine
    <2>3. ASSUME NEW j \in Jobs, NEW w \in Workers, NEW f \in 1..MaxAttempts,
                 CompleteEffect(j, w, f)
          PROVE  Outcomes!Next \/ UNCHANGED <<Shown(job), applied>>
      <3>1. CASE Holds(j, w, f)
        BY <2>3, <3>1, CompleteRefines
      <3>2. CASE ~Holds(j, w, f)
        BY <2>3, <3>2, Stutters DEF CompleteEffect
      <3> QED BY <3>1, <3>2
    <2>4. ASSUME NEW j \in Jobs, NEW w \in Workers, NEW f, FailEffect(j, w, f)
          PROVE  Outcomes!Next
      BY <2>2, <2>4, FailKeeps DEF FailEffect, IInv
    <2>5. ASSUME NEW w \in Workers, Claim(w) PROVE Outcomes!Next
      BY <2>2, <2>5, ClaimKeeps DEF Claim, ClaimSkipping, IInv, CallsTyped
    <2>6. ASSUME NEW w \in Workers, NEW c \in claims[w], Complete(w, c)
          PROVE  Outcomes!Next \/ UNCHANGED <<Shown(job), applied>>
      BY <2>1, <2>3, <2>6 DEF Complete
    <2>7. ASSUME NEW w \in Workers, NEW c \in claims[w], Fail(w, c) PROVE Outcomes!Next
      BY <2>1, <2>4, <2>7 DEF Fail
    <2>8. ASSUME NEW c \in calls, LateCall(c)
          PROVE  Outcomes!Next \/ UNCHANGED <<Shown(job), applied>>
      <3>1. c.job \in Jobs /\ c.worker \in Workers /\ c.fence \in 1..MaxAttempts
        BY DEF IInv, CallsTyped, Calls
      <3> QED BY <2>3, <2>4, <2>8, <3>1 DEF LateCall
    <2>9. ASSUME NEW j \in Jobs, LeaseExpires(j) \/ BackoffElapses(j)
          PROVE  UNCHANGED <<Shown(job), applied>>
      <3>1. applied' = applied /\ \A i \in Jobs : job'[i].state = job[i].state
        BY <2>9 DEF LeaseExpires, BackoffElapses, IInv, Rows, RowsTyped, Row
      <3> QED BY <3>1, Stutters
    <2>10. ASSUME UNCHANGED <<job, applied>>
           PROVE  UNCHANGED <<Shown(job), applied>>
      BY <2>10 DEF Shown
    <2> QED BY <2>5, <2>6, <2>7, <2>8, <2>9, <2>10, SealRefines
            DEF Next, Work, WorkFails, Abandon, CallLost, vars
  <1> QED BY <1>1, <1>2, Invariance, PTL DEF Spec, ImplementsOutcomes, Outcomes!Spec, Shown
=============================================================================
