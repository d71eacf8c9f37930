---------------------------- MODULE AgentWorker ----------------------------
(* The agent job queue (the table agent_jobs and its functions) and the     *)
(* worker that empties it, scripts/pq-agent-worker.js: launchd keeps one     *)
(* running, an operator may start another, and a lock file on the host is    *)
(* meant to keep them apart.                                                 *)
(*                                                                           *)
(* Abstracted: what a job is for is one effect in the outside world (the TMS *)
(* alert is sent, the refresh has run), which may happen although its script *)
(* then reports an error or is killed by its timeout; priorities, back-off   *)
(* and poll intervals are left to the choice of the next step.  A job is     *)
(* named by its dedupe key.  A worker id is host-pid and never comes back:   *)
(* once a process is gone its id is Gone, and so is its name on a lock.      *)
EXTENDS Integers, FiniteSets

CONSTANTS Workers,      \* workers that can run side by side on the host
          Gone,         \* the id of a worker process that no longer exists
          Jobs,         \* the dedupe keys of jobs
          MaySkip,      \* those whose handler may succeed without the effect
          MaxJobs,      \* bound on the jobs that are queued
          MaxAttempts,  \* agent_jobs.max_attempts
          MaxFaults     \* crashes, lost answers and restarts for a new script

ASSUME WorkersAssumption == IsFiniteSet(Workers)
ASSUME IdsAssumption == Gone \notin Workers /\ "none" \notin Workers \cup {Gone}
ASSUME SkipAssumption == MaySkip \subseteq Jobs
ASSUME JobsAssumption == MaxJobs \in Nat
ASSUME AttemptsAssumption == MaxAttempts \in Nat \ {0}
ASSUME FaultsAssumption == MaxFaults \in Nat

VARIABLES
  job,      \* job -> its row of agent_jobs
  file,     \* the lock file: absent, or who created it and whether it is written
  pc,       \* worker -> where it stands
  saw,      \* worker -> the worker id it read from the lock file
  at,       \* worker -> the job it claimed last
  late,     \* calls given up by their worker that the database may still execute
  effects,  \* job -> how often its effect has happened
  stale,    \* jobs taken back from a running worker after fifteen minutes
  seized,   \* whether a worker has removed a lock file it took for stale
  faults    \* faults so far

queue == <<job, late, effects, stale>>
lock == <<file, saw, seized>>
vars == <<job, file, pc, saw, at, late, effects, stale, seized, faults>>

None == "none"
Ids == Workers \cup {Gone}
Statuses == {"absent", "queued", "running", "succeeded", "failed"}
Ended == {"succeeded", "failed"}
-----------------------------------------------------------------------------
(* The rows of agent_jobs.  "aged" says that a lock is fifteen minutes old.  *)
Row(status, attempts, by, aged) ==
  [status |-> status, attempts |-> attempts, by |-> by, aged |-> aged]

Rows == [status : Statuses, attempts : 0 .. MaxAttempts, by : Ids \cup {None}, aged : BOOLEAN]

(* mutant: an attempt whose lock ran out does not count against the limit *)
MutantAgainOrFailed(row) == Row("queued", 0, None, FALSE)

AgainOrFailed(row) ==
  Row(IF row.attempts < MaxAttempts THEN "queued" ELSE "failed", row.attempts, None, FALSE)

Expired(row) == row.status = "running" /\ row.aged

(* mutant: expired locks are never recovered *)
MutantRecovered == job

(* The first statement of claim_agent_job recovers every expired lock.       *)
Recovered == [j \in Jobs |-> IF Expired(job[j]) THEN AgainOrFailed(job[j]) ELSE job[j]]

Claimed(row, w) == Row("running", row.attempts + 1, w, FALSE)

(* mutant: the end of a job is accepted from any worker, whatever its state *)
MutantLockedBy(j, w) == job[j].status # "absent"

LockedBy(j, w) == job[j].status = "running" /\ job[j].by = w

(* complete_agent_job and fail_agent_job, for a caller that holds the lock.  *)
EndedAs(row, kind) ==
  IF kind = "complete" THEN Row("succeeded", row.attempts, None, FALSE) ELSE AgainOrFailed(row)

Call(kind, j, w) == [kind |-> kind, job |-> j, by |-> w]
Calls == [kind : {"complete", "fail"}, job : Jobs, by : Ids]
-----------------------------------------------------------------------------
File(by, written) == [by |-> by, written |-> written]
NoFile == File(None, FALSE)

Init ==
  /\ job = [j \in Jobs |-> Row("absent", 0, None, FALSE)]
  /\ file = NoFile
  /\ pc = [w \in Workers |-> "off"]
  /\ saw = [w \in Workers |-> None]
  /\ at = [w \in Workers |-> None]
  /\ late = {}
  /\ effects = [j \in Jobs |-> 0]
  /\ stale = {}
  /\ seized = FALSE
  /\ faults = 0

Inside == {w \in Workers : pc[w] \in {"claim", "handle", "complete", "fail"}}

Orphaned(row, w) ==
  IF row.by = w THEN Row(row.status, row.attempts, Gone, row.aged) ELSE row

(* The process of w ends: its id is never used again.  A call it gave up can *)
(* still meet a job only while that job is locked under the id.              *)
Exit(w) ==
  /\ pc' = [pc EXCEPT ![w] = "off"]
  /\ job' = [j \in Jobs |-> Orphaned(job[j], w)]
  /\ late' = {c \in late : c.by # w} \cup
             {Call(c.kind, c.job, Gone) : c \in {d \in late : d.by = w /\ LockedBy(d.job, w)}}
  /\ saw' = [v \in Workers |-> IF v = w THEN None ELSE IF saw[v] = w THEN Gone ELSE saw[v]]
  /\ at' = [at EXCEPT ![w] = None]
-----------------------------------------------------------------------------
(* withLocalLock: the file is created exclusively, then written.             *)
Launch(w) ==
  /\ pc[w] = "off"
  /\ pc' = [pc EXCEPT ![w] = "open"]
  /\ UNCHANGED <<queue, lock, at, faults>>

(* mutant: the file is opened without the exclusive flag *)
MutantOpen(w) ==
  /\ pc[w] \in {"open", "reopen"}
  /\ file' = File(w, FALSE)
  /\ pc' = [pc EXCEPT ![w] = "write"]
  /\ UNCHANGED <<queue, saw, seized, at, faults>>

(* open(LOCK_PATH, "wx").  The second time, after a stale file was removed,  *)
(* a file that is there again ends the process.                              *)
Open(w) ==
  /\ pc[w] \in {"open", "reopen"}
  /\ file = NoFile
  /\ file' = File(w, FALSE)
  /\ pc' = [pc EXCEPT ![w] = "write"]
  /\ UNCHANGED <<queue, saw, seized, at, faults>>

OpenRefused(w) ==
  /\ file # NoFile
  /\ \/ pc[w] = "open" /\ pc' = [pc EXCEPT ![w] = "read"] /\ UNCHANGED <<job, late, saw, at>>
     \/ pc[w] = "reopen" /\ Exit(w)
  /\ UNCHANGED <<effects, stale, file, seized, faults>>

(* The file handle keeps to the file it opened: when that file has been      *)
(* removed the write reaches nobody.                                         *)
Write(w) ==
  /\ pc[w] = "write"
  /\ file' = IF file = File(w, FALSE) THEN File(w, TRUE) ELSE file
  /\ pc' = [pc EXCEPT ![w] = "claim"]
  /\ UNCHANGED <<queue, saw, seized, at, faults>>

(* A file that is gone or has no content yet cannot be parsed.               *)
Read(w) ==
  /\ pc[w] = "read"
  /\ IF file.written
     THEN saw' = [saw EXCEPT ![w] = file.by] /\ pc' = [pc EXCEPT ![w] = "probe"]
     ELSE saw' = saw /\ pc' = [pc EXCEPT ![w] = "remove"]
  /\ UNCHANGED <<queue, file, seized, at, faults>>

(* process.kill(pid, 0) *)
Probe(w) ==
  /\ pc[w] = "probe"
  /\ \/ saw[w] = Gone /\ pc' = [pc EXCEPT ![w] = "remove"] /\ UNCHANGED <<job, late, saw, at>>
     \/ saw[w] # Gone /\ Exit(w)
  /\ UNCHANGED <<effects, stale, file, seized, faults>>

Remove(w) ==
  /\ pc[w] = "remove"
  /\ file' = NoFile
  /\ seized' = TRUE
  /\ pc' = [pc EXCEPT ![w] = "reopen"]
  /\ UNCHANGED <<queue, saw, at, faults>>

(* The finally block removes whatever lock file is there.                    *)
Leave(w) ==
  /\ pc[w] = "leave"
  /\ Exit(w)
  /\ file' = NoFile
  /\ UNCHANGED <<effects, stale, seized, faults>>
-----------------------------------------------------------------------------
(* processOneJob *)
(* A call of a worker that is gone cannot meet a job taken back from it.     *)
TakeBack ==
  /\ stale' = stale \cup {j \in Jobs : Expired(job[j])}
  /\ late' = {c \in late : ~(c.by = Gone /\ Expired(job[c.job]))}

(* mutant: the claim may take a job that is running *)
MutantClaim(w) ==
  /\ pc[w] = "claim"
  /\ \E j \in {i \in Jobs : Recovered[i].status \in {"queued", "running"} /\ Recovered[i].attempts < MaxAttempts} :
       /\ job' = [Recovered EXCEPT ![j] = Claimed(Recovered[j], w)]
       /\ at' = [at EXCEPT ![w] = j]
  /\ pc' = [pc EXCEPT ![w] = "handle"]
  /\ TakeBack
  /\ UNCHANGED <<lock, effects, faults>>

Claim(w) ==
  /\ pc[w] = "claim"
  /\ \E j \in {i \in Jobs : Recovered[i].status = "queued"} :
       /\ job' = [Recovered EXCEPT ![j] = Claimed(Recovered[j], w)]
       /\ at' = [at EXCEPT ![w] = j]
  /\ pc' = [pc EXCEPT ![w] = "handle"]
  /\ TakeBack
  /\ UNCHANGED <<lock, effects, faults>>

ClaimNothing(w) ==
  /\ pc[w] = "claim"
  /\ \A j \in Jobs : Recovered[j].status # "queued"
  /\ job' = Recovered
  /\ TakeBack
  /\ UNCHANGED <<lock, effects, pc, at, faults>>

(* The answer of a claim is lost: the error leaves processOneJob, which has  *)
(* not entered its try block, and the worker.                                *)
ClaimLost(w) ==
  /\ pc[w] = "claim"
  /\ faults < MaxFaults
  /\ faults' = faults + 1
  /\ \/ /\ \E j \in {i \in Jobs : Recovered[i].status = "queued"} :
             job' = [Recovered EXCEPT ![j] = Claimed(Recovered[j], w)]
        /\ TakeBack
     \/ UNCHANGED <<job, late, stale>>
  /\ pc' = [pc EXCEPT ![w] = "leave"]
  /\ UNCHANGED <<lock, effects, at>>

(* The worker script has changed on disk, or the worker runs with --once.    *)
Restart(w) ==
  /\ pc[w] = "claim"
  /\ faults < MaxFaults
  /\ faults' = faults + 1
  /\ pc' = [pc EXCEPT ![w] = "leave"]
  /\ UNCHANGED <<queue, lock, at>>

(* mutant: any handler may succeed without the effect *)
MutantHandle(w) ==
  /\ pc[w] = "handle"
  /\ effects' \in {effects, [effects EXCEPT ![at[w]] = @ + 1]}
  /\ pc' \in {[pc EXCEPT ![w] = "complete"], [pc EXCEPT ![w] = "fail"]}
  /\ UNCHANGED <<job, late, stale, lock, at, faults>>

(* handleJob, and what processOneJob does with its outcome.  An effect may   *)
(* have happened when an error is reported.  An alert or a closeout that was *)
(* not sent is an error; a full refresh outside its window, a report without *)
(* a recipient and a money refresh that finds nothing are successes.         *)
Handle(w) ==
  /\ pc[w] = "handle"
  /\ \/ /\ effects' = [effects EXCEPT ![at[w]] = @ + 1]
        /\ pc' \in {[pc EXCEPT ![w] = "complete"], [pc EXCEPT ![w] = "fail"]}
     \/ effects' = effects /\ pc' = [pc EXCEPT ![w] = "fail"]
     \/ at[w] \in MaySkip /\ effects' = effects /\ pc' = [pc EXCEPT ![w] = "complete"]
  /\ UNCHANGED <<job, late, stale, lock, at, faults>>

(* After completeJob, refused or unanswered, the catch block calls failJob;  *)
(* after failJob, refused or unanswered, the error ends the worker.          *)
Next1(kind, accepted) ==
  IF accepted THEN "claim" ELSE IF kind = "complete" THEN "fail" ELSE "leave"

Report(w, kind) ==
  /\ pc[w] = kind
  /\ job' = IF LockedBy(at[w], w)
            THEN [job EXCEPT ![at[w]] = EndedAs(job[at[w]], kind)] ELSE job
  /\ pc' = [pc EXCEPT ![w] = Next1(kind, LockedBy(at[w], w))]
  /\ UNCHANGED <<late, effects, stale, lock, at, faults>>

(* No answer: the call has been executed, is lost, or is executed later.     *)
ReportLost(w, kind) ==
  /\ pc[w] = kind
  /\ faults < MaxFaults
  /\ faults' = faults + 1
  /\ \/ /\ LockedBy(at[w], w)
        /\ job' = [job EXCEPT ![at[w]] = EndedAs(job[at[w]], kind)]
        /\ late' = late
     \/ job' = job /\ late' \in {late, late \cup {Call(kind, at[w], w)}}
  /\ pc' = [pc EXCEPT ![w] = Next1(kind, FALSE)]
  /\ UNCHANGED <<effects, stale, lock, at>>

LateCall(c) ==
  /\ c \in late
  /\ late' = late \ {c}
  /\ job' = IF LockedBy(c.job, c.by)
            THEN [job EXCEPT ![c.job] = EndedAs(job[c.job], c.kind)] ELSE job
  /\ UNCHANGED <<effects, stale, lock, pc, at, faults>>
-----------------------------------------------------------------------------
(* queue_agent_job: a second insert under the same dedupe key does nothing.  *)
Queue(j) ==
  /\ job[j].status = "absent"
  /\ Cardinality({i \in Jobs : job[i].status # "absent"}) < MaxJobs
  /\ job' = [job EXCEPT ![j] = Row("queued", 0, None, FALSE)]
  /\ UNCHANGED <<late, effects, stale, lock, pc, at, faults>>

(* A process is killed, or the host goes down; its lock file stays behind.   *)
Crash(w) ==
  /\ pc[w] # "off"
  /\ faults < MaxFaults
  /\ faults' = faults + 1
  /\ Exit(w)
  /\ file' = IF file.by = w THEN File(Gone, file.written) ELSE file
  /\ UNCHANGED <<effects, stale, seized>>

(* Fifteen minutes pass for the lock of a job, whatever its worker does:     *)
(* full_refresh alone may run for more than half an hour.                    *)
Age(j) ==
  /\ job[j].status = "running"
  /\ ~job[j].aged
  /\ job' = [job EXCEPT ![j] = Row("running", job[j].attempts, job[j].by, TRUE)]
  /\ UNCHANGED <<late, effects, stale, lock, pc, at, faults>>

Lock(w) == Launch(w) \/ Open(w) \/ OpenRefused(w) \/ Write(w) \/ Read(w) \/ Probe(w) \/ Remove(w) \/ Leave(w)
Work(w) == Claim(w) \/ ClaimNothing(w) \/ Handle(w) \/ \E k \in {"complete", "fail"} : Report(w, k)
Fault(w) == ClaimLost(w) \/ Restart(w) \/ Crash(w) \/ \E k \in {"complete", "fail"} : ReportLost(w, k)

Next ==
  \/ \E w \in Workers : Lock(w) \/ Work(w) \/ Fault(w)
  \/ \E c \in late : LateCall(c)
  \/ \E j \in Jobs : Queue(j) \/ Age(j)

Spec == Init /\ [][Next]_vars

(* launchd restarts the worker (KeepAlive), a running process goes on, and   *)
(* time passes.                                                              *)
Fairness ==
  /\ \A w \in Workers : WF_vars(Lock(w)) /\ WF_vars(Work(w))
  /\ \A j \in Jobs : WF_vars(Age(j))

FairSpec == Spec /\ Fairness
-----------------------------------------------------------------------------
TypeOK ==
  /\ job \in [Jobs -> Rows]
  /\ file \in [by : Ids \cup {None}, written : BOOLEAN]
  /\ pc \in [Workers -> {"off", "open", "write", "read", "probe", "remove", "reopen",
                         "claim", "handle", "complete", "fail", "leave"}]
  /\ saw \in [Workers -> Ids \cup {None}]
  /\ at \in [Workers -> Jobs \cup {None}]
  /\ late \subseteq Calls
  /\ effects \in [Jobs -> 0 .. MaxAttempts]
  /\ stale \subseteq Jobs
  /\ seized \in BOOLEAN
  /\ faults \in 0 .. MaxFaults

(* "CourierCloud AGT alert was not sent" (scripts/pq-agent-worker.js:464):   *)
(* an alert or a closeout counts as succeeded only after it has been sent,   *)
(* whichever of its attempts, workers and late calls ended it.               *)
SucceededIsDone ==
  \A j \in Jobs \ MaySkip : job[j].status = "succeeded" => effects[j] >= 1

(* Every repetition of an effect, such as a second alert to the same agent,  *)
(* is paid for by an attempt, and a job has at most MaxAttempts of them:     *)
(* crashes, recovered locks and lost answers give it no extra run.           *)
EffectsWithinAttempts == \A j \in Jobs : effects[j] <= job[j].attempts

Handling(w, j) == pc[w] \in {"handle", "complete"} /\ at[w] = j

(* Two workers run the same job side by side only after its lock has been    *)
(* found older than fifteen minutes.                                         *)
SharedOnlyWhenStale ==
  \A v, w \in Workers : \A j \in Jobs :
    v # w /\ Handling(v, j) /\ Handling(w, j) => j \in stale

(* The lock file keeps a second worker out of the job loop for as long as    *)
(* nobody has removed a lock file it took for stale.                         *)
AloneUnlessSeized == ~seized => \A v, w \in Inside : v = w

(* What ended a job is final: no late or repeated call, no recovery and no   *)
(* claim changes a job that has succeeded or failed.                         *)
EndedStays ==
  [][\A j \in Jobs : job[j].status \in Ended => job'[j] = job[j]]_vars

(* A queued job ends, although its workers crash, restart, lose answers and  *)
(* overrun the age of a lock, and leave their lock file behind.              *)
QueuedEnds ==
  \A j \in Jobs : (job[j].status = "queued") ~> (job[j].status \in Ended)

(* "Another local PQ agent worker appears to be running": at most one worker *)
(* of the host is in the job loop.                                           *)
OneWorker == \A v, w \in Inside : v = w
=============================================================================
