---------------------------- MODULE ModelRequests ----------------------------
(***************************************************************************)
(* Paid requests to a language model: the ledger that sets money aside,    *)
(* authorizes each send, books what was used and quarantines what nobody   *)
(* can tell any more, and the workers that extract claims with it.  The    *)
(* ledger is truth_model_extraction_runtime.sql with                       *)
(* truth_model_dispatch_recovery.sql, a worker is a run of                 *)
(* lib/truth-model-extraction-worker.js.                                   *)
(*                                                                         *)
(* Requests have one source job each and one name stands for both.  Of the *)
(* job there is what the ledger looks at, the lease and how the job ends   *)
(* (SourceProcessingJobs has the rest); as fences and attempts of a job    *)
(* are counted at the same claims the fence stands for both.               *)
(*                                                                         *)
(* Abstracted: the request body, candidates, prices and tokens (an attempt *)
(* costs at most Price); the classes of provider results, to the five the  *)
(* ledger tells apart; the reasons for a review.  Plans that are parked or *)
(* go by batch, which never reach the provider, and the attachment         *)
(* variant are left out.  A run that is aborted by its deadline, and one   *)
(* that leaves jobs of its batch behind, are runs that Stop.               *)
(***************************************************************************)
EXTENDS Integers, FiniteSets, Functions

CONSTANTS
    Requests,           \* model requests, each with its source job
    Workers,            \* runs of the worker that may be at work at a time
    NoRequest,          \* what an idle worker works on
    Price,              \* the most an attempt may cost
    MaxAttempts,        \* attempts of a request (3 in the code)
    MaxTries,           \* attempts of a source job (5 in the code)
    Budgets,            \* what an operator may configure: allocation and ceiling
    FirstBudget,        \* what the account was commissioned with
    MaxConfigurations,  \* bound on the configurations of the account
    Days,               \* bound on the days
    MaxFaults           \* bound on lost answers, failed calls, ended and slow runs

ASSUME ModelAssumption ==
    /\ NoRequest \notin Requests
    /\ {Price, MaxAttempts} \subseteq Nat \ {0}
    /\ {MaxTries, MaxConfigurations, MaxFaults} \subseteq Nat
    /\ Days \in Nat \ {0}
    /\ FirstBudget \in Budgets
    /\ Budgets \subseteq {b \in [allocation : Nat, ceiling : Nat] : b.ceiling <= b.allocation}

(* A table has so many rows and no more. *)
ASSUME RequestsAreFinite == IsFiniteSet(Requests)

VARIABLES
    job,        \* source_processing_jobs: lease and end of the job
    request,    \* truth_model_requests: state, day, hold left and cost booked
    dispatch,   \* the last of truth_model_sync_attempt_dispatches and its outcome
    sealed,     \* the result or the review intent sealed for the job
    account,    \* truth_model_workspace_accounts: its configuration
    books,      \* ... and what it has reserved and spent
    daily,      \* truth_model_workspace_daily_usage of each day
    today,      \* the UTC date
    bill,       \* what the provider has billed for a request
    run,        \* where each worker is
    late,       \* reconciliations that may still be executed
    faults

jobs == <<job, sealed>>
ledger == <<request, dispatch, books, daily>>
vars == <<job, request, dispatch, sealed, account, books, daily, today, bill, run, late, faults>>

Hold == Price * MaxAttempts

Row(state, day, hold, paid) == [state |-> state, day |-> day, hold |-> hold, paid |-> paid]
Entry(reserved, actual) == [reserved |-> reserved, actual |-> actual]
Sent(number, fence, outcome) == [number |-> number, fence |-> fence, outcome |-> outcome]
Lease(state, fence, live) == [state |-> state, fence |-> fence, live |-> live]
Result(class, cost) == [class |-> class, cost |-> cost]
At(pc, r, fence, number, result) ==
    [pc |-> pc, request |-> r, fence |-> fence, number |-> number, result |-> result]

States == {"none", "planned", "reserved", "in_flight", "succeeded", "review_required",
           "outcome_unknown"}
NoResult == Result("none", 0)
Idle == At("idle", NoRequest, 0, 0, NoResult)

Open == {"unknown", "mismatch"}
Outcomes == {"none", "pending", "success", "retry", "refused", "quarantined"} \cup Open

(* success, a failure that may be retried, one that may not, and two that  *)
(* leave it open what was billed: those book nothing.                      *)
Results == {Result("success", cost) : cost \in 1 .. Price}
             \cup {Result(class, cost) : class \in {"retry", "refused"}, cost \in 0 .. Price}
             \cup {Result(class, 0) : class \in Open}

Init ==
    /\ job = [r \in Requests |-> Lease("ready", 0, FALSE)]
    /\ request = [r \in Requests |-> Row("none", 0, 0, 0)]
    /\ dispatch = [r \in Requests |-> Sent(0, 0, "none")]
    /\ sealed = [r \in Requests |-> "none"]
    /\ account = [enabled |-> TRUE, budget |-> FirstBudget, version |-> 0]
    /\ books = Entry(0, 0)
    /\ daily = [d \in 1 .. Days |-> Entry(0, 0)]
    /\ today = 1
    /\ bill = [r \in Requests |-> 0]
    /\ run = [w \in Workers |-> Idle]
    /\ late = {}
    /\ faults = 0
-----------------------------------------------------------------------------
(* The functions of the ledger                                             *)

(* require_live_truth_model_source_job *)
Holds(w) == job[run[w].request] = Lease("leased", run[w].fence, TRUE)

(* Money used leaves the reservation for the books, money freed just leaves. *)
Moved(entry, used, freed) == Entry(entry.reserved - used - freed, entry.actual + used)

(* mutant: booked on the day of the answer *)
MutantBook(r, used, freed) ==
    /\ books' = Moved(books, used, freed)
    /\ daily' = [daily EXCEPT ![today] = Moved(@, used, freed)]

Book(r, used, freed) ==
    /\ books' = Moved(books, used, freed)
    /\ daily' = [daily EXCEPT ![request[r].day] = Moved(@, used, freed)]

Affordable ==
    /\ account.enabled
    /\ books.actual + books.reserved + Hold <= account.budget.allocation
    /\ daily[today].actual + daily[today].reserved + Hold <= account.budget.ceiling

(* reserve_truth_model_request: the cost of every attempt it may take *)
ReserveEffect(r) ==
    /\ request' = [request EXCEPT ![r] =
          IF Affordable THEN Row("reserved", today, Hold, 0) ELSE Row("review_required", 0, 0, 0)]
    /\ books' = IF Affordable THEN Moved(books, 0, -Hold) ELSE books
    /\ daily' = IF Affordable THEN [daily EXCEPT ![today] = Moved(@, 0, -Hold)] ELSE daily
    /\ UNCHANGED dispatch

(* begin_truth_model_sync_attempt: the one receipt that allows a send *)
BeginEffect(r, fence) ==
    IF account.enabled
      THEN /\ dispatch' = [dispatch EXCEPT ![r] = Sent(dispatch[r].number + 1, fence, "pending")]
           /\ request' = [request EXCEPT ![r] =
                Row("in_flight", request[r].day, request[r].hold, request[r].paid)]
           /\ UNCHANGED <<books, daily>>
      ELSE /\ request' = [request EXCEPT ![r] =
                Row("review_required", request[r].day, 0, request[r].paid)]
           /\ Book(r, 0, request[r].hold)
           /\ UNCHANGED dispatch

(* What a booked result does to the row: a success or a failure for good  *)
(* frees the rest of the hold, a failure to be retried keeps it.           *)
Closes(r, result) == result.class # "retry" \/ dispatch[r].number >= MaxAttempts

BookedRow(r, result) ==
    IF Closes(r, result)
      THEN Row(IF result.class = "success" THEN "succeeded" ELSE "review_required",
               request[r].day, 0, request[r].paid + result.cost)
      ELSE Row("reserved", request[r].day, request[r].hold - result.cost,
               request[r].paid + result.cost)

(* reconcile_truth_model_sync_attempt needs no lease.  For an attempt with *)
(* an outcome it answers with what there is, or refuses.                   *)
(* mutant: a result is taken for a dispatch that has been quarantined *)
MutantAwaited(r, number) ==
    dispatch[r].number = number /\ dispatch[r].outcome \in {"pending", "quarantined"}

(* mutant: the number of the attempt is not compared *)
MutantAwaitedAny(r, number) == dispatch[r].number >= number /\ dispatch[r].outcome = "pending"

Awaited(r, number) == dispatch[r].number = number /\ dispatch[r].outcome = "pending"

ReconcileEffect(r, result) ==
    /\ dispatch' = [dispatch EXCEPT ![r] =
          Sent(dispatch[r].number, dispatch[r].fence, result.class)]
    /\ IF result.class \in Open
         THEN /\ request' = [request EXCEPT ![r] =
                   Row(IF result.class = "mismatch" THEN "review_required" ELSE "outcome_unknown",
                       request[r].day, request[r].hold, request[r].paid)]
              /\ UNCHANGED <<books, daily>>
         ELSE /\ result.cost <= request[r].hold
              /\ request' = [request EXCEPT ![r] = BookedRow(r, result)]
              /\ Book(r, result.cost,
                      IF Closes(r, result) THEN request[r].hold - result.cost ELSE 0)

(* quarantine_truth_model_sync_dispatch: the sender's lease has been replaced *)
Quarantinable(r, number, fence) == Awaited(r, number) /\ dispatch[r].fence # fence

(* mutant: the money of a quarantined dispatch is freed *)
MutantQuarantineFrees(r) ==
    /\ dispatch' = [dispatch EXCEPT ![r] =
          Sent(dispatch[r].number, dispatch[r].fence, "quarantined")]
    /\ request' = [request EXCEPT ![r] =
          Row("outcome_unknown", request[r].day, 0, request[r].paid)]
    /\ Book(r, 0, request[r].hold)

QuarantineEffect(r) ==
    /\ dispatch' = [dispatch EXCEPT ![r] =
          Sent(dispatch[r].number, dispatch[r].fence, "quarantined")]
    /\ request' = [request EXCEPT ![r] =
          Row("outcome_unknown", request[r].day, request[r].hold, request[r].paid)]
    /\ UNCHANGED <<books, daily>>
-----------------------------------------------------------------------------
(* A run of the worker                                                     *)
Points == {"idle", "lookup", "create", "reserve", "begin", "post", "reconcile", "reconcile_again",
           "reread", "reread_again", "read", "recover", "seal_result", "seal_review",
           "complete", "fail"}
Unresolved == {"reconcile_again", "reread", "reread_again", "recover"}

(* A run remembers its dispatch and result until it knows what became of them. *)
Goto(w, pc) ==
    run' = [run EXCEPT ![w] =
      At(pc, run[w].request, run[w].fence,
         IF pc \in Unresolved THEN run[w].number ELSE 0,
         IF pc \in Unresolved THEN run[w].result ELSE NoResult)]
Rest(w) == run' = [run EXCEPT ![w] = Idle]

Fault == faults < MaxFaults /\ faults' = faults + 1

(* The answer comes, or it is lost and the run reports a failure. *)
Answer(w, pc) ==
    \/ Goto(w, pc) /\ UNCHANGED faults
    \/ Goto(w, "fail") /\ Fault

(* What a run does about a request in the given state once it is sent *)
Route(state, otherwise) ==
    CASE state = "succeeded"                               -> "seal_result"
      [] state \in {"review_required", "outcome_unknown"}  -> "seal_review"
      [] state = "reserved"                                -> "fail"
      [] OTHER                                             -> otherwise

Released(row) ==
    Lease(IF row.fence >= MaxTries THEN "dead_letter" ELSE "ready", row.fence, FALSE)

(* A claim takes expired leases back first. *)
Swept == [r \in Requests |->
            IF job[r].state = "leased" /\ ~job[r].live THEN Released(job[r]) ELSE job[r]]

Claim(w) ==
    /\ run[w] = Idle
    /\ \/ \E r \in Requests :
             /\ Swept[r].state = "ready"
             /\ Swept[r].fence < MaxTries
             /\ job' = [Swept EXCEPT ![r] = Lease("leased", Swept[r].fence + 1, TRUE)]
             /\ run' = [run EXCEPT ![w] = At("lookup", r, Swept[r].fence + 1, 0, NoResult)]
       \/ /\ Swept # job
          /\ job' = Swept
          /\ UNCHANGED run
    /\ UNCHANGED <<ledger, sealed, account, today, bill, late, faults>>

(* processJob: what is there decides how to go on. *)
Lookup(w) ==
    /\ run[w].pc = "lookup"
    /\ Holds(w)
    /\ LET state == request[run[w].request].state
       IN  Goto(w, CASE state = "none"      -> "create"
                     [] state = "planned"   -> "reserve"
                     [] state = "reserved"  -> "begin"
                     [] OTHER               -> Route(state, "read"))
    /\ UNCHANGED <<jobs, ledger, account, today, bill, late, faults>>

(* While a run holds the lease nobody else moves a request that is not in  *)
(* flight, so the old receipts of the next three calls are not met.        *)
Create(w) ==
    /\ run[w].pc = "create"
    /\ Holds(w)
    /\ request[run[w].request].state = "none"
    /\ request' = [request EXCEPT ![run[w].request] = Row("planned", 0, 0, 0)]
    /\ Answer(w, "reserve")
    /\ UNCHANGED <<jobs, dispatch, account, books, daily, today, bill, late>>

Reserve(w) ==
    /\ run[w].pc = "reserve"
    /\ Holds(w)
    /\ request[run[w].request].state = "planned"
    /\ ReserveEffect(run[w].request)
    /\ Answer(w, IF Affordable THEN "begin" ELSE "seal_review")
    /\ UNCHANGED <<jobs, account, today, bill, late>>

Begin(w) ==
    /\ run[w].pc = "begin"
    /\ Holds(w)
    /\ LET r == run[w].request
       IN  /\ request[r].state = "reserved"
           /\ dispatch[r].number < MaxAttempts
           /\ BeginEffect(r, run[w].fence)
           /\ IF account.enabled
                THEN \/ /\ run' = [run EXCEPT ![w] =
                             At("post", r, run[w].fence, dispatch[r].number + 1, NoResult)]
                        /\ UNCHANGED faults
                     \/ Goto(w, "fail") /\ Fault
                ELSE Answer(w, "seal_review")
    /\ UNCHANGED <<jobs, account, today, bill, late>>

(* executeAuthorizedAttempt: the POST, its deadline and what is made of    *)
(* the answer.  A throw leaves the run without a result.                   *)
Post(w) ==
    /\ run[w].pc = "post"
    /\ LET r == run[w].request
       IN  \E result \in Results \cup {NoResult}, cost \in 0 .. Price :
             /\ result.class \in {"success", "retry", "refused"} => cost = result.cost
             /\ bill' = [bill EXCEPT ![r] = bill[r] + cost]
             /\ run' = [run EXCEPT ![w] =
                   At(IF result = NoResult THEN "reread" ELSE "reconcile",
                      r, run[w].fence, run[w].number, result)]
             /\ IF result = NoResult THEN Fault ELSE UNCHANGED faults
    /\ UNCHANGED <<jobs, ledger, account, today, late>>

(* The result is reported without a look at the clock.  When the call      *)
(* fails it may still be executed, and the run reads what became of it.    *)
Reconcile(w) ==
    /\ run[w].pc \in {"reconcile", "reconcile_again"}
    /\ LET r == run[w].request
       IN  \/ /\ Awaited(r, run[w].number)
              /\ ReconcileEffect(r, run[w].result)
              /\ Goto(w, Route(request'[r].state, "recover"))
              /\ UNCHANGED <<late, faults>>
           \/ /\ ~Awaited(r, run[w].number)
              /\ dispatch[r].outcome # "quarantined"
              /\ Goto(w, Route(request[r].state, "recover"))
              /\ UNCHANGED <<ledger, late, faults>>
           \/ /\ IF Awaited(r, run[w].number)
                   THEN /\ late' = late \cup {[request |-> r, number |-> run[w].number,
                                               result |-> run[w].result]}
                        /\ Fault
                   ELSE UNCHANGED <<late, faults>>
              /\ Goto(w, IF run[w].pc = "reconcile" THEN "reread" ELSE "reread_again")
              /\ UNCHANGED ledger
    /\ UNCHANGED <<jobs, account, today, bill>>

LateReconcile ==
    \E call \in late :
      /\ late' = late \ {call}
      /\ IF Awaited(call.request, call.number)
           THEN ReconcileEffect(call.request, call.result)
           ELSE UNCHANGED ledger
      /\ UNCHANGED <<jobs, account, today, bill, run, faults>>

(* readAfterReconciliationFailure.  Without a result the run can neither   *)
(* report nor quarantine its own dispatch: it throws.                      *)
Reread(w) ==
    /\ run[w].pc \in {"reread", "reread_again"}
    /\ LET state == request[run[w].request].state
       IN  IF run[w].result = NoResult /\ state = "in_flight"
             THEN Rest(w)
             ELSE Goto(w, Route(state, IF run[w].pc = "reread" THEN "reconcile_again"
                                                               ELSE "recover"))
    /\ UNCHANGED <<jobs, ledger, account, today, bill, late, faults>>

(* recoverInFlight: which dispatch of an earlier lease is unresolved? *)
Read(w) ==
    /\ run[w].pc = "read"
    /\ LET r == run[w].request
       IN  run' = [run EXCEPT ![w] = At(Route(request[r].state, "recover"), r, run[w].fence,
                                        dispatch[r].number, NoResult)]
    /\ UNCHANGED <<jobs, ledger, account, today, bill, late, faults>>

Recover(w) ==
    /\ run[w].pc = "recover"
    /\ Holds(w)
    /\ Quarantinable(run[w].request, run[w].number, run[w].fence)
    /\ QuarantineEffect(run[w].request)
    /\ Answer(w, "seal_review")
    /\ UNCHANGED <<jobs, account, today, bill, late>>

(* finishSuccess: record_gmail_model_extraction_result *)
SealResult(w) ==
    /\ run[w].pc = "seal_result"
    /\ Holds(w)
    /\ LET r == run[w].request
       IN  /\ request[r].state = "succeeded"
           /\ sealed[r] # "review"
           /\ sealed' = [sealed EXCEPT ![r] = "result"]
    /\ Answer(w, "complete")
    /\ UNCHANGED <<job, ledger, account, today, bill, late>>

(* finishReview: create_gmail_model_extraction_review *)
SealReview(w) ==
    /\ run[w].pc = "seal_review"
    /\ Holds(w)
    /\ LET r == run[w].request
       IN  /\ request[r].state \in {"review_required", "outcome_unknown"}
           /\ sealed[r] # "result"
           /\ sealed' = [sealed EXCEPT ![r] = "review"]
    /\ Answer(w, "complete")
    /\ UNCHANGED <<job, ledger, account, today, bill, late>>

(* complete_source_processing_job: with exactly one of the two *)
Complete(w) ==
    /\ run[w].pc = "complete"
    /\ Holds(w)
    /\ LET r == run[w].request
       IN  /\ sealed[r] # "none"
           /\ job' = [job EXCEPT ![r] = Lease("completed", run[w].fence, FALSE)]
    /\ Rest(w)
    /\ UNCHANGED <<sealed, ledger, account, today, bill, late, faults>>

(* A call is refused or never arrives, or this worker has no runtime or    *)
(* provider configured, or cannot use what was extracted.                  *)
CallFails(w) ==
    /\ run[w].pc \in {"lookup", "create", "reserve", "begin", "read", "recover",
                      "seal_result", "seal_review", "complete"}
    /\ Goto(w, "fail")
    /\ IF Holds(w) THEN Fault ELSE UNCHANGED faults
    /\ UNCHANGED <<jobs, ledger, account, today, bill, late>>

(* failJob: the job is to be tried again, or has been tried enough. *)
Fail(w) ==
    /\ run[w].pc = "fail"
    /\ job' = IF Holds(w) THEN [job EXCEPT ![run[w].request] = Released(job[run[w].request])]
                          ELSE job
    /\ Rest(w)
    /\ UNCHANGED <<sealed, ledger, account, today, bill, late, faults>>

(* The run ends here, by its deadline, an error it does not handle or a    *)
(* crash, and leaves everything as it is.                                  *)
Stop(w) ==
    /\ run[w] # Idle
    /\ Rest(w)
    /\ Fault
    /\ UNCHANGED <<jobs, ledger, account, today, bill, late>>
-----------------------------------------------------------------------------
(* The world around                                                        *)

(* The lease of a job runs out: a fault if its run is still at work. *)
Expire(r) ==
    /\ job[r].state = "leased"
    /\ job[r].live
    /\ job' = [job EXCEPT ![r] = Lease("leased", job[r].fence, FALSE)]
    /\ IF \E w \in Workers : run[w].request = r /\ run[w].fence = job[r].fence
         THEN Fault ELSE UNCHANGED faults
    /\ UNCHANGED <<sealed, ledger, account, today, bill, run, late>>

(* configure_truth_model_account: never below what is committed *)
Configure ==
    /\ account.version < MaxConfigurations
    /\ \E enabled \in BOOLEAN, budget \in Budgets :
          /\ budget.allocation >= books.actual + books.reserved
          /\ \A d \in 1 .. Days : budget.ceiling >= daily[d].actual + daily[d].reserved
          /\ account' = [enabled |-> enabled, budget |-> budget, version |-> account.version + 1]
    /\ UNCHANGED <<jobs, ledger, today, bill, run, late, faults>>

Midnight ==
    /\ today < Days
    /\ today' = today + 1
    /\ UNCHANGED <<jobs, ledger, account, bill, run, late, faults>>

Step(w) ==
    \/ Lookup(w) \/ Create(w) \/ Reserve(w) \/ Begin(w) \/ Post(w)
    \/ Reconcile(w) \/ Reread(w) \/ Read(w) \/ Recover(w)
    \/ SealResult(w) \/ SealReview(w) \/ Complete(w)
    \/ CallFails(w) \/ Fail(w) \/ Stop(w)

Next ==
    \/ \E w \in Workers : Claim(w) \/ Step(w)
    \/ LateReconcile
    \/ \E r \in Requests : Expire(r)
    \/ Configure
    \/ Midnight

Spec == Init /\ [][Next]_vars
-----------------------------------------------------------------------------
(* Properties                                                              *)

(* The types of the variables. *)
TypeOK ==
    /\ job \in [Requests -> [state : {"ready", "leased", "completed", "dead_letter"},
                             fence : 0 .. MaxTries, live : BOOLEAN]]
    /\ request \in [Requests -> [state : States, day : 0 .. Days, hold : Nat, paid : Nat]]
    /\ dispatch \in [Requests -> [number : 0 .. MaxAttempts, fence : 0 .. MaxTries,
                                  outcome : Outcomes]]
    /\ sealed \in [Requests -> {"none", "result", "review"}]
    /\ account \in [enabled : BOOLEAN, budget : Budgets, version : 0 .. MaxConfigurations]
    /\ books \in [reserved : Int, actual : Int]
    /\ daily \in [1 .. Days -> [reserved : Int, actual : Int]]
    /\ today \in 1 .. Days
    /\ bill \in [Requests -> Nat]
    /\ run \in [Workers -> [pc : Points, request : Requests \cup {NoRequest},
                            fence : 0 .. MaxTries, number : 0 .. MaxAttempts,
                            result : Results \cup {NoResult}]]
    /\ late \subseteq [request : Requests, number : 0 .. MaxAttempts, result : Results]
    /\ faults \in 0 .. MaxFaults

(* The provider never bills more than the account allows, whatever answers *)
(* are lost and however late a run sends what it was allowed to send.      *)
BillsWithinBudget == SumFunction(bill) <= account.budget.allocation

(* The account and the days hold what the requests hold, and no day has    *)
(* more committed to it than the ceiling.                                  *)
OnDay(d) == {r \in Requests : request[r].day = d}
Holdings == [r \in Requests |-> request[r].hold]
Payments == [r \in Requests |-> request[r].paid]

BooksBalance ==
    /\ books = Entry(SumFunction(Holdings), SumFunction(Payments))
    /\ \A d \in 1 .. Days :
          /\ daily[d] = Entry(SumFunctionOnSet(Holdings, OnDay(d)),
                             SumFunctionOnSet(Payments, OnDay(d)))
          /\ daily[d].reserved + daily[d].actual <= account.budget.ceiling

(* A job is completed with a result only for a request that succeeded, and *)
(* with a review only for one that did not; money that stays set aside for *)
(* a completed job has a review to account for it.                         *)
JobTellsRequest ==
    \A r \in Requests :
      /\ sealed[r] = "result" => request[r].state = "succeeded"
      /\ sealed[r] = "review" => request[r].state \in {"review_required", "outcome_unknown"}
      /\ job[r].state = "completed" =>
            /\ sealed[r] # "none"
            /\ request[r].hold > 0 =>
                  sealed[r] = "review" /\ dispatch[r].outcome \in Open \cup {"quarantined"}

(* Money is set aside before anything is billed, the bill stays within it, *)
(* a settled request has its exact bill in the books and gets no other,    *)
(* and one that is in doubt keeps the whole amount for good.               *)
PhaseOf(r) ==
    CASE request[r].state \in {"none", "planned"}           -> "open"
      [] request[r].state \in {"reserved", "in_flight"}     -> "held"
      [] dispatch[r].outcome \in Open \cup {"quarantined"}  -> "doubt"
      [] OTHER                                              -> "settled"

Promise == INSTANCE ModelSpending WITH
    phase  <- [r \in Requests |-> PhaseOf(r)],
    amount <- [r \in Requests |-> request[r].hold + request[r].paid]

KeepsPromise == Promise!Spec
=============================================================================
