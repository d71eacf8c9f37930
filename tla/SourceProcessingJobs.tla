------------------------ MODULE SourceProcessingJobs ------------------------
(***************************************************************************)
(* The durable work queue behind the journal, source_processing_jobs, and  *)
(* the workers that drain it (lib/gmail-evidence-worker.js and the workers *)
(* built like it).                                                         *)
(*                                                                         *)
(* A worker run claims a batch of jobs under fenced leases, works on them  *)
(* one after the other, and acknowledges each with complete or fail.  Runs *)
(* overlap; a run that is aborted, crashes, or does not learn the outcome  *)
(* of a call abandons the rest of its batch; a call may reach the database *)
(* late and more than once.  Each function of the queue locks the job row  *)
(* first and is one step.                                                  *)
(*                                                                         *)
(* Abstracted: payloads and results (a completion is identified by its job *)
(* and its fence, which its completion hash binds), processor versions,    *)
(* the order in which claimable jobs are taken, the length of a backoff.   *)
(***************************************************************************)
EXTENDS Integers, FiniteSets

CONSTANTS
    Jobs,          \* the jobs there may ever be
    Roots,         \* the materializations that committed batches seal
    ChildrenOf,    \* ChildrenOf[j] : the jobs a completion of j inserts
    Before,        \* Before[j] : the materializations of the same message that
                   \* earlier batches sealed
    Workers,
    NoWorker,      \* lease_owner is null
    MaxAttempts,   \* max_attempts, 5 in the code
    Limit,         \* p_limit: how many jobs one claim takes
    MaxCalls       \* bound: acknowledgements under way from ended runs

ASSUME JobsAssumption ==
    /\ Roots \subseteq Jobs
    /\ ChildrenOf \in [Jobs -> SUBSET Jobs]
    /\ Before \in [Jobs -> SUBSET Roots]
    /\ \A j \in Jobs : ChildrenOf[j] \intersect Roots = {}
    /\ \A i, j \in Jobs : i # j => ChildrenOf[i] \intersect ChildrenOf[j] = {}

ASSUME WorkersAssumption ==
    /\ NoWorker \notin Workers
    /\ MaxAttempts \in Nat \ {0}
    /\ Limit \in Nat \ {0}
    /\ MaxCalls \in Nat

VARIABLES
    job,       \* job[j] : the row of j
    applied,   \* <<j, f>> : the completion of j under fence f inserted its rows
    claims,    \* claims[w] : the jobs of the batch w still has to acknowledge
    calls      \* acknowledgements of ended runs, on their way to the database

vars == <<job, applied, claims, calls>>

States == {"absent", "queued", "leased", "retry_wait", "succeeded", "dead_letter"}
Terminal == {"succeeded", "dead_letter"}

(* available stands for available_at <= now, live for lease_expires_at >   *)
(* now, by for the fence in the completion hash of the result.             *)
Absent == [state |-> "absent", attempts |-> 0, fence |-> 0, owner |-> NoWorker,
           live |-> FALSE, available |-> FALSE, by |-> 0]
Queued == [Absent EXCEPT !.state = "queued", !.available = TRUE]

Init ==
    /\ job = [j \in Jobs |-> Absent]
    /\ applied = {}
    /\ claims = [w \in Workers |-> {}]
    /\ calls = {}
-----------------------------------------------------------------------------
(* A batch is committed and seals its jobs, those of a message after those *)
(* of earlier batches (seal_gmail_materialization_routes_v1).              *)
Seal(j) ==
    /\ j \in Roots /\ job[j].state = "absent"
    /\ \A i \in Before[j] : job[i].state # "absent"
    /\ job' = [job EXCEPT ![j] = Queued]
    /\ UNCHANGED <<applied, claims, calls>>
-----------------------------------------------------------------------------
(* claim_source_processing_jobs *)
Expired(j) == job[j].state = "leased" /\ ~job[j].live

(* mutant: the attempts are counted one too many *)
MutantExhaustedLate(row) == row.attempts > MaxAttempts

Exhausted(row) == row.attempts >= MaxAttempts

(* The attempt is over: another one after available_at, or none. *)
Released(row, available) ==
    [row EXCEPT !.state = IF Exhausted(row) THEN "dead_letter" ELSE "retry_wait",
                !.owner = NoWorker, !.live = FALSE, !.available = Exhausted(row) \/ available]

Reaped(skipped) ==
    [j \in Jobs |-> IF Expired(j) /\ j \notin skipped THEN Released(job[j], TRUE) ELSE job[j]]

(* mutant: a later revision of a message does not wait for the earlier one *)
MutantUnordered(rows, j) ==
    /\ rows[j].state \in {"queued", "retry_wait"}
    /\ rows[j].available
    /\ rows[j].attempts < MaxAttempts

Claimable(rows, j) ==
    /\ rows[j].state \in {"queued", "retry_wait"}
    /\ rows[j].available
    /\ rows[j].attempts < MaxAttempts
    /\ \A i \in Before[j] : rows[i].state \in Terminal

(* mutant: the fence of the row is handed out again *)
MutantLeasedOldFence(row, w) ==
    [row EXCEPT !.state = "leased", !.attempts = @ + 1, !.owner = w, !.live = TRUE]

Leased(row, w) ==
    [row EXCEPT !.state = "leased", !.attempts = @ + 1, !.fence = @ + 1,
                !.owner = w, !.live = TRUE]

(* Rows locked by another transaction are skipped. *)
ClaimSkipping(w, skipped) ==
    LET rows == Reaped(skipped)
        candidates == {j \in Jobs \ skipped : Claimable(rows, j)}
    IN  /\ claims[w] = {}
        /\ \E taken \in SUBSET candidates :
              /\ Cardinality(taken) <= Limit
              /\ taken # candidates => Cardinality(taken) = Limit
              /\ job' = [j \in Jobs |-> IF j \in taken THEN Leased(rows[j], w) ELSE rows[j]]
              /\ claims' = [claims EXCEPT ![w] =
                    {[job |-> j, fence |-> job'[j].fence, stage |-> "work"] : j \in taken}]
        /\ UNCHANGED <<applied, calls>>

Claim(w) == \E skipped \in SUBSET Jobs : ClaimSkipping(w, skipped)
-----------------------------------------------------------------------------
(* mutant: whoever knows that the job is leased may acknowledge it *)
MutantHoldsAnyFence(j, w, f) == job[j].state = "leased"

(* The lease check of complete, fail and renew. *)
Holds(j, w, f) ==
    /\ job[j].state = "leased"
    /\ job[j].owner = w
    /\ job[j].fence = f
    /\ job[j].live

(* mutant: the child jobs are not inserted *)
MutantCompletedNoChildren(j, f) ==
    [job EXCEPT ![j].state = "succeeded", ![j].owner = NoWorker, ![j].live = FALSE, ![j].by = f]

(* complete_source_processing_job: the observations, the child jobs and    *)
(* the state of the job in one transaction.  The replay of a completion    *)
(* that was applied answers with its receipt and changes nothing.          *)
Completed(j, f) ==
    [i \in Jobs |->
        IF i = j THEN [job[j] EXCEPT !.state = "succeeded", !.owner = NoWorker,
                                     !.live = FALSE, !.by = f]
        ELSE IF i \in ChildrenOf[j] /\ job[i].state = "absent" THEN Queued
        ELSE job[i]]

CompleteAnswersOk(j, w, f) ==
    Holds(j, w, f) \/ (job[j].state = "succeeded" /\ job[j].by = f)

CompleteEffect(j, w, f) ==
    IF Holds(j, w, f)
    THEN job' = Completed(j, f) /\ applied' = applied \union {<<j, f>>}
    ELSE UNCHANGED <<job, applied>>

(* fail_source_processing_job: dead letter on the last attempt, otherwise  *)
(* a retry after a backoff.  Its replay changes nothing either.            *)
FailEffect(j, w, f) ==
    /\ job' = IF Holds(j, w, f) THEN [job EXCEPT ![j] = Released(@, FALSE)] ELSE job
    /\ UNCHANGED applied
-----------------------------------------------------------------------------
(* The worker loop.  Jobs are worked on one at a time, in any order; a job *)
(* whose work or completion failed is acknowledged as failed before the    *)
(* next one.                                                               *)
Current(w, c) ==
    /\ c \in claims[w]
    /\ (\E d \in claims[w] : d.stage = "fail") => c.stage = "fail"

Drop(w, c) == claims' = [claims EXCEPT ![w] = @ \ {c}]
Failing(w, c) == claims' = [claims EXCEPT ![w] = (@ \ {c}) \union {[c EXCEPT !.stage = "fail"]}]

WorkFails(w, c) ==
    /\ Current(w, c) /\ c.stage = "work"
    /\ Failing(w, c)
    /\ UNCHANGED <<job, applied, calls>>

Complete(w, c) ==
    /\ Current(w, c) /\ c.stage = "work"
    /\ CompleteEffect(c.job, w, c.fence)
    /\ IF CompleteAnswersOk(c.job, w, c.fence) THEN Drop(w, c) ELSE Failing(w, c)
    /\ UNCHANGED calls

(* Whether the acknowledgement is taken or not ("ack_failed"), the run     *)
(* goes on with the next job.                                              *)
Fail(w, c) ==
    /\ Current(w, c) /\ c.stage = "fail"
    /\ FailEffect(c.job, w, c.fence)
    /\ Drop(w, c)
    /\ UNCHANGED calls

(* The deadline passes, the run is aborted or crashes, or the outcome of a *)
(* call is unknown: the run throws, and what it still had to acknowledge   *)
(* stays leased.  The call it was waiting for may still arrive.            *)
Abandon(w) ==
    /\ claims[w] # {}
    /\ \/ UNCHANGED calls
       \/ \E c \in claims[w] :
             /\ Current(w, c) /\ Cardinality(calls) < MaxCalls
             /\ calls' = calls \union {[rpc |-> c.stage, worker |-> w, job |-> c.job,
                                        fence |-> c.fence]}
    /\ claims' = [claims EXCEPT ![w] = {}]
    /\ UNCHANGED <<job, applied>>

(* The database executes a call of a run that is gone, now or again later. *)
LateCall(c) ==
    /\ \/ c.rpc = "work" /\ CompleteEffect(c.job, c.worker, c.fence)
       \/ c.rpc = "fail" /\ FailEffect(c.job, c.worker, c.fence)
    /\ calls' \in {calls, calls \ {c}}
    /\ UNCHANGED claims

CallLost(c) == calls' = calls \ {c} /\ UNCHANGED <<job, applied, claims>>

(* The clock passes lease_expires_at: of a job still in the hands of its   *)
(* worker because it took longer than the lease, or of one nobody holds.   *)
AtWork(j) == \E w \in Workers : \E c \in claims[w] : c.job = j /\ c.fence = job[j].fence

LeaseExpires(j) ==
    /\ job[j].live
    /\ job' = [job EXCEPT ![j].live = FALSE]
    /\ UNCHANGED <<applied, claims, calls>>

BackoffElapses(j) ==
    /\ job[j].state = "retry_wait" /\ ~job[j].available
    /\ job' = [job EXCEPT ![j].available = TRUE]
    /\ UNCHANGED <<applied, claims, calls>>

Work(w) == \E c \in claims[w] : WorkFails(w, c) \/ Complete(w, c) \/ Fail(w, c)

Next ==
    \/ \E w \in Workers : Claim(w) \/ Work(w) \/ Abandon(w)
    \/ \E c \in calls : LateCall(c) \/ CallLost(c)
    \/ \E j \in Jobs : Seal(j) \/ LeaseExpires(j) \/ BackoffElapses(j)

(* The cron claims again and again, and as a row lock lasts one            *)
(* transaction, not every claim finds rows locked; a run goes on or ends,  *)
(* the lease of an abandoned job expires, a backoff elapses.  Work need    *)
(* not ever succeed.                                                       *)
Fairness ==
    /\ \A w \in Workers : SF_vars(ClaimSkipping(w, {})) /\ WF_vars(Work(w) \/ Abandon(w))
    /\ \A j \in Jobs : /\ WF_vars(~AtWork(j) /\ LeaseExpires(j))
                       /\ WF_vars(BackoffElapses(j))

Spec == Init /\ [][Next]_vars
FairSpec == Spec /\ Fairness
-----------------------------------------------------------------------------
Claims == [job : Jobs, fence : 1..MaxAttempts, stage : {"work", "fail"}]
Calls  == [rpc : {"work", "fail"}, worker : Workers, job : Jobs, fence : 1..MaxAttempts]

TypeOK ==
    /\ job \in [Jobs -> [state : States, attempts : 0..MaxAttempts, fence : 0..MaxAttempts,
                         owner : Workers \union {NoWorker}, live : BOOLEAN,
                         available : BOOLEAN, by : 0..MaxAttempts]]
    /\ \A j \in Jobs : (job[j].owner # NoWorker) <=> (job[j].state = "leased")
    /\ applied \subseteq Jobs \X (1..MaxAttempts)
    /\ claims \in [Workers -> SUBSET Claims]
    /\ calls \subseteq Calls

(* No job is stranded: one that waits has an attempt left, as the claim    *)
(* asks for, and one that was given up has had them all, each under a      *)
(* fence of its own.                                                       *)
AttemptsAccounted ==
    \A j \in Jobs :
        /\ job[j].fence = job[j].attempts
        /\ job[j].state \in {"queued", "retry_wait"} => job[j].attempts < MaxAttempts
        /\ job[j].state = "dead_letter" => job[j].attempts = MaxAttempts

(* A succeeded job has the result of exactly one attempt, the last one it  *)
(* was leased for, and no other job has one: of workers that overlap on a  *)
(* job after a lease expired, only the last can complete it.               *)
ResultOfLastAttempt ==
    \A j \in Jobs :
        {f \in 1..MaxAttempts : <<j, f>> \in applied} =
            IF job[j].state = "succeeded" THEN {job[j].fence} ELSE {}

(* Child jobs are there when, and only when, their parent succeeded: the   *)
(* next stage is never lost and never starts from work that was not        *)
(* recorded.                                                               *)
ChildrenWithParent ==
    \A j \in Jobs : \A i \in ChildrenOf[j] :
        job[i].state # "absent" <=> job[j].state = "succeeded"

(* The revisions of a message are materialized in mailbox order: one is    *)
(* not attempted before the earlier ones are settled.                      *)
MessageOrder ==
    \A j \in Jobs : job[j].attempts > 0 => \A i \in Before[j] : job[i].state \in Terminal

(* While its lease is live a job is its holder's: it changes only because  *)
(* the lease runs out or the holder, or a late call of the holder,         *)
(* acknowledges it.  A worker with an old fence, or another claim, cannot  *)
(* take it away.                                                           *)
HolderAcks(j) ==
    \/ \E c \in calls : c.job = j /\ c.fence = job[j].fence
    \/ \E w \in Workers : \E c \in claims[w] \ claims'[w] : c.job = j /\ c.fence = job[j].fence

LiveLeaseKept ==
    [][ \A j \in Jobs :
          job[j].live => \/ job'[j] \in {job[j], [job[j] EXCEPT !.live = FALSE]}
                        \/ HolderAcks(j)
      ]_vars

(* Every job that was queued ends, done or given up, whatever its workers  *)
(* do: crashed runs, lost calls and expired leases cost attempts, never    *)
(* the job.                                                                *)
EveryJobEnds ==
    \A j \in Jobs : job[j].state # "absent" ~> job[j].state \in Terminal

(* The abstract promise this implements. *)
Outcome(state) == CASE state = "absent"      -> "none"
                    [] state = "succeeded"   -> "done"
                    [] state = "dead_letter" -> "dead"
                    [] OTHER                 -> "open"

Outcomes == INSTANCE JobOutcomes WITH outcome <- [j \in Jobs |-> Outcome(job[j].state)],
                                      results <- applied
ImplementsOutcomes == Outcomes!Spec
=============================================================================
