# PQ Ops: TLA+ specifications

PQ Ops is a control room for import operations. It copies Gmail, TMS and
flight-tracking data into a journal in Postgres, derives from the journal a
relational "truth" of every shipment, publishes that truth to the dashboard, and
lets an operator approve drafts and sends. Its code runs as serverless requests
(the platform's cron, the dashboard's API calls), as database functions, and
as local processes on the operator's host. Nothing coordinates them but rows with
leases and fences, compare-and-swap on versions, and lock files. That
coordination is what this project specifies.

Contents: [the system](#the-system), [the modules](#the-modules),
[the runs](#the-runs), [the proofs](#the-proofs), [findings](#findings),
[what is left out](#what-is-left-out), [the plan](#the-plan).

To check: `tlc -config X.cfg MCModule` for a run listed below, `tlapm Module_proofs.tla`
for the proofs.

## The system

Paths are relative to the repository. "Migrations" are the files of
`supabase/migrations/`, named here without their date.

| Component | State it keeps | Operations | What makes it hard, what makes it correct |
|---|---|---|---|
| Mailbox journal (`truth_source_observation_journal.sql`, `truth_gmail_parse_checkpoint.sql`) | `source_cursors` (value, version, status, lease), `source_ingest_batches`, `gmail_ingest_pages`, `gmail_completeness_gaps` | acquire and renew a lease, begin or resume a batch, append a page, commit, mark history expired | Writers that lost their lease, late writes. The cursor moves forward along one chain of batches; it never promises what was not read. |
| Gmail synchronisation runs (`lib/gmail-incremental-sync.js`, `lib/gmail-mailbox-backfill.js`, called by `lib/truth-shadow-orchestrator.js`) | local variables of a run: lease fence, batch, page token, anchor | history sync, backfill, reconciliation | Overlapping runs, resumption by another run, the mailbox changing while it is paged, history that expires. No message is lost. |
| Processing jobs and worker loop (`truth_processing_job_execution.sql`, `fix_truth_claim_lease_concurrency.sql`, `lib/gmail-evidence-worker.js` and others like it) | `source_processing_jobs`: state, attempts, fence, owner, lease; the batch a worker holds | seal, claim, renew, complete, fail | Expired leases, lost answers, replays, `skip locked`. One result for each job, no job stranded, revisions of a message in order. |
| Gmail materialization (`truth_gmail_parse_checkpoint.sql`, `lib/gmail-evidence-worker.js`) | obligations, routes, checkpoint chain | route a batch's observations to jobs, settle obligations | Which observation of several triggers a message's job; the chain must not skip a batch. |
| Source cut, build and publication (`truth_build_publication_runtime.sql`, `truth_production_authority_isolation.sql`, `lib/relational-truth-build-runner.js`, `lib/hosted-truth-shadow-runtime.js`) | cuts, build pairs with leases, publications and the head of a channel, production approvals | seal a cut, claim, complete or fail its build pair, approve, publish, roll back | Two builds for one head, hosted runs that share one worker id, a head that has moved since the build began, approvals presented late. The history of publications is one line, and readers go back in time only by rollback. |
| Audit runtime (`truth_audit_runtime.sql`, `lib/relational-truth-audit-runner.js`) | audit runs with leases, findings | audit a publication | An audit of what is no longer the head. |
| Model request ledger (`truth_model_extraction_runtime.sql`, `truth_model_dispatch_recovery.sql`, `lib/truth-model-request-ledger.js`, `lib/truth-model-extraction-worker.js`) | requests and their dispatches, what is reserved and spent in all and by day, the account | plan, reserve, authorize a send, reconcile, quarantine, seal a result or a review | A paid call whose answer is lost, a sender that outlives its lease, results that come late. No bill exceeds what was set aside. |
| Orchestrator (`lib/truth-shadow-orchestrator.js`) | the receipts of one run | sync, worker rounds, cut, build, audit | "Drained" is decided by a round that claims nothing, although leases may be out. |
| Source snapshots (`lib/source-snapshot-committer.js`, `api/truth/source-ingest.js`) | the same cursor rows, one owner id for all requests of a source | begin, append, commit | Two requests share a lease. |
| Agent jobs and local worker (`agent_job_queue_base.sql`, `agent_job_gmail_drafts.sql`, `scripts/pq-agent-worker.js`) | `agent_jobs` with a lock time, a local lock file | queue, claim, recover stale jobs, complete, fail | No fence: a job that runs longer than fifteen minutes is run again beside itself. Every effect is paid for by an attempt, and the end of a job is final. |
| Actions (`app.js`, `api/actions/send.js`, `api/actions/approve-send.js`, `lib/platform-send.js`, `api/outbox/retry.js`) | the composer, the action queue, the outbox and the audit (snapshots without a version), Gmail drafts | review, confirm, stage a draft, approve, send, record, retry | What was reviewed is staged, approved and sent in three requests, over snapshots that others rewrite. What goes out is what the operator confirmed, once. |
| Operator events and push (`lib/operator-events.js`) | events, push outbox | record, deliver | Repeated delivery. |
| Live-refresh run lock (`lib/pikiio-live-refresh-lock.js`, `scripts/live-refresh.js`) | two lock files on the host | acquire, reclaim, release | Processes that die between two file operations. One TMS session at a time. |
| Governance (`lib/pikiio-*.js`) | writer lease, activation file, proof store | activate, prove, gate | Compare-and-swap on files. |
| Gmail client, OAuth, raw objects | tokens, content-addressed objects | fetch, refresh, store | Provider calls, bytes. |
| Truth reduction (`lib/relational-truth-reducer.js`, `lib/truth-precedence-policy.js`, `lib/truth-temporal-resolver.js`) | none | pure functions | Precedence must be an order; the result must not depend on the order of claims. |
| Legacy ingestion and packets (`lib/gmail-direct-ingest.js` and others) | JSON documents | classify, plan | Text heuristics. |
| Dashboard, reports, demo | none | render | |

How they meet: the cron request runs the orchestrator. The orchestrator runs the
mailbox sync (journal rows, under a lease), whose commits seal processing jobs;
worker rounds claim these jobs, and their completions insert the jobs of the next
stage; when a round claims nothing, the orchestrator seals a cut, builds and
publishes. All of this is calls to database functions, one transaction each, from
requests that may overlap and may end at any point. The local processes share
files with each other and, through the API, the same tables.

## The modules

Read `SourceJournal` with `GmailMailboxSync`, then `SourceProcessingJobs`, then
`ModelRequests` and `TruthPublication`, which is the way of the data; `NestedRunLock`,
`AgentWorker` and `PlatformSend` are about the host and the dashboard. The seven groups
share no state; what one hands to another is said under each.

| Module | Models | Abstract specification, checked and proved |
|---|---|---|
| `GmailProvider` | Gmail as the code uses it (environment) | |
| `SourceJournal` | the journal's rows and functions | |
| `GmailMailboxSync` | sync runs over both; composes the two modules above | `MailboxCoverage` (checked and proved) |
| `SourceProcessingJobs` | the job queue and its workers | `JobOutcomes` (checked and proved) |
| `ModelRequests` | the paid requests of the extraction workers and their ledger | `ModelSpending` (checked and proved) |
| `TruthPublication` | from a sealed cut to the head of a channel | `PublishedTruth` (checked and proved) |
| `NestedRunLock` | the two lock files of live-refresh | |
| `AgentWorker` | the agent job queue and the local worker with its lock file | |
| `PlatformSend` | from the review of a mail to its audit record | |
| `..._proofs` | theorems of the module they extend | |
| `MC...` | the constants of the runs | |

### The mailbox: `GmailProvider`, `SourceJournal`, `GmailMailboxSync`

The mailbox is a log of history records; a history id is a position in it, a
message is named by the position of the record that added it, so "at most the
cursor" compares both. `history.list` answers with pages of any size, and with a
404 for a start it has forgotten; `messages.list` with pages of the messages now
there, newest first, where a token stays a place in that order. `retained` moves
when Gmail forgets history, even up to and including the current id, which is how
a quiet mailbox loses its cursor.

`SourceJournal` has one "...Accepted" predicate and one effect for each database
function. A function locks the cursor row before it reads anything else, so it is
one step. The lease is `owner`, `fence` and `live`: `live` stands for
`lease_expires_at > clock_timestamp()`, and `ExpireLease` is the clock. A batch's
rows are represented by the values its checks compare: mode, the version and value
of the cursor it starts from, status, the committed value. A page is its tokens,
the history id it carries and the ids on it. Observation rows, digests, and the
receipts of replays are determined by these.

In `GmailMailboxSync` a run goes through the client's code, one step between two
calls: `Acquire`, `Begin`, `CaptureAnchor`, `List`, `HistoryGap`, and the three
writes. The local variables keep their meaning and, shortened, their names
(`fence` is `leaseFence`, `token` is `requestPageToken`, `anchor` is
`anchorHistoryId`, or `recoveryAnchorValue` in the history sync). The orchestrator
appears as the second acquire under the same owner, after the history sync has
answered `backfill_required` or `reconcile_required`. `renewLease` is folded into
the write it precedes: both check the same three things, and a run that fails
either ends.

Interleavings and failures: two runs, each of which may `Stop` at any point
(deadline, page budget, abort, crash), leaving its lease behind and possibly a
write that the database executes later (`LateWrite`); leases that time out, of
runs that are gone (`LeaseTimesOut`) or still at work (`LeaseSlips`); a mailbox that
changes at any time. `Stop`, `LeaseSlips`, and starting a run with nothing to fetch
count against `MaxFaults`. A late write is executed once; a write that is executed
twice is covered for pages and commits by their own checks (an identical page is
accepted and changes nothing, a batch that is not running is refused).

A committed batch is what the queue's `Seal` takes its jobs from; the two modules
are not composed (see the plan).

### The queue: `SourceProcessingJobs`

`job[j]` is the row: state, attempts, fence, owner, `live` for an unexpired lease,
`available` for `available_at <= now`, and `by`, the fence in the completion hash of
its result. `applied` records, for the properties, which completion has inserted
its rows; the code has no such table. `Claim` is one call of
`claim_source_processing_jobs`: it reaps expired leases (back to `retry_wait`, or
`dead_letter` after the last attempt), chooses up to `Limit` claimable jobs, and
leaves out the rows locked by others (`skipped`, any set). `Complete` and `Fail` are
the calls of the worker loop, with the answers the loop distinguishes. `Abandon` is
a run that throws, is aborted or crashes; the call it was waiting for may then
reach the database later, and more than once (`LateCall`).

The constants say which jobs a completion inserts (`ChildrenOf`, the next stage) and
which materializations of the same message were sealed earlier (`Before`).

### The model requests: `ModelRequests`

A worker leases the source job of a request, and the ledger sets aside the price of
every attempt the request may take (`Reserve`), authorizes one send at a time with a
receipt that names the fence of the lease (`Begin`), books what the answer cost
(`Reconcile`) and puts into doubt (`Recover`, the code's quarantine) a dispatch whose
sender has lost its lease. Only a request that is settled or in doubt lets its job
be completed, with a result or with a review. `request`, `dispatch` and `books` with
`daily` are the rows of the ledger, `bill` is what the provider has charged and no
program knows. `request` and its job have one name; the fence of the job stands for
its attempts as well, as both are counted by the same claims.

Three things come between a send and its booking, and each of them is an action: the
run ends (`Stop`, or a `Post` that throws), its lease runs out while it waits for the
provider, the answer of the reconciliation is lost, in which case the call may be
executed after the run has read the row again (`LateReconcile`). The day may change and
the account may be reconfigured or disabled between any two steps.

`ModelSpending` is the promise: nothing is billed unless money has been set aside, the
bill never exceeds it, a settled request has its bill in the books to the cent and gets
no other bill, a request in doubt keeps its whole amount. The mapping reads the amount
of a request from its row: what is still held plus what has been booked.

### The publication: `TruthPublication`

A run seals a cut, claims its build pair (or finds it built), reads the inputs under the
lease, reduces them, completes the pair, reads the head and publishes against it; in
production it first looks whether the head is of this cut already and has an approval
issued for the head it has read. `Claimed`, `Ended`, `Authorized`, `CommitEffect` and
`RollbackAccepted` are the functions of the database, with their checks in order. A cut
is the version of the source cursor at which it was sealed, which is why an older cut
is a smaller number; `base` is the head at the first claim.

Publishing a pair is two steps, because the function checks the approval, and that the
pair is not published yet, before it waits for the lock of the channel (`Publish`), and
looks at requests, head, base and cursors under it (`Commit`). Two runs of one cut can both
be past the first step, each with an approval of its own and both with the request key of
the cut. The one that gets the lock second is answered with the receipt of the first
(`Receipts`) and uses up its approval on that publication. So approvals and publications
are not one to one, and `ApprovedTransitions` does not say that they are: each publication
has an approval used up on it, and each used approval was issued for that cut and head.

Runs overlap, under one worker id as the hosted ones do (`SameWorker`) or under two
(`TwoWorkers`); they are abandoned anywhere with a call under way (`Abandon`,
`LateCall`), their leases slip, reductions fail, sources move and have gaps, approvals
expire, and an operator publishes a rollback on what the dashboard showed before.

`PublishedTruth` is what readers are promised: a publication shows a cut that was
never published and is at least as new as the one it replaces, in production the state
of the sources at that moment; the only way back is a rollback to something published.

### The run lock: `NestedRunLock`

A step for each file operation: every `await` of the code is a point where another
process moves. A process has a point (`pc`), what it is serialized for (`purpose`),
and where it goes when it has given the serialization back (`outcome`). A process is
dead when it has exited; its pid is not used again. `CrashPoints` says where
processes may die, which is the question this module asks.

### The agent worker: `AgentWorker`

`job` is the row of `agent_jobs`: status, attempts, who locked it, and whether the
lock is fifteen minutes old (`aged`). What a job does outside is counted in `effects`;
it may have happened although an error is reported. The jobs in `MaySkip` may also succeed
without any: a full refresh outside its window is skipped, and a report with no recipient
is not sent, and both complete as succeeded; `SucceededIsDone` is about the others. The lock file is opened, written,
read, probed and removed in steps of their own, as in `withLocalLock`. A worker that
exits takes its id with it: `Exit` renames it to `Gone` on its jobs, lock file and calls.
Faults are crashes, lost answers of claims and reports (executed, not executed, or
executed later), and restarts for a new script.

### The sending of mails: `PlatformSend`

The composer keeps what it shows, `confirm` starts one run of `performPlatformSend`: a
request to `api/actions/send` (resolve the action, create a Gmail draft, read the queue,
write the queue), then one to `api/actions/approve-send` (decide, send the draft, read
the audit, write the audit). `at` is where these requests stand, `request` is what was
shown when the operator confirmed, `taken` is the text the draft is made of. The queue
and the audit are read whole and written back whole, in two steps; a Gmail refresh does
the same with the queue. Connections break, calls fail, the brain proposes another text
for the same action at any time. `queue` has the rows that a send has staged: only
proposals of the brain enter the hosted queue, and a row that has a draft is not pruned.

## The runs

All bounds are in the `.cfg` files and named in the modules.

| Run | Bounds | Shows |
|---|---|---|
| `mailbox_paging` | 2 runs, 3 history records, 1 fault | `HistoryBatchExact`, `NoLiveMessageMissed`, `DeletionSeenOrScannedOver`, `ScanKeepsAnchor`: nothing is lost between two cursors. Three records are the fewest with which a batch of two pages is resumed after another record has arrived. |
| `mailbox_journal` | 2 runs, 2 records, 2 faults | `ReconcileHasGap`, `CommitsChain`, `CursorNeverRegresses`, `ClosedBatchesFrozen`, `Covers` (the refinement of `MailboxCoverage`) and `CatchesUp`: the cursor reaches the end of the history. Two faults let a lease slip and, independently, a write come late. |
| `queue_fencing` | 2 workers, 3 jobs (two revisions of a message and the child of the first), 2 attempts, claims of 2, 1 call under way | `AttemptsAccounted`, `ResultOfLastAttempt`, `ChildrenWithParent`, `MessageOrder`, `LiveLeaseKept`, `ImplementsOutcomes`, `EveryJobEnds`. Two attempts are enough for an old fence to meet a new one, and for the last attempt to be used up both ways, by `fail` and by reaping. |
| `model_requests` | 2 requests of 2 attempts at a price of 1, 2 workers, 2 claims of a job, a budget for both requests or for one, 2 days, 1 reconfiguration, 1 fault | `BillsWithinBudget`, `BooksBalance`, `JobTellsRequest`, `KeepsPromise` (the refinement of `ModelSpending`). The money of two requests is enough to be confused, midnight can fall between a send and its answer, and one fault is all that any of the hazards needs: a lost answer, an ended run, or a lease that runs out under its run. |
| `publication_shadow` | 2 runs under one worker id, 3 versions, 1 rollback, 1 fault | `LinearHistory`, `BuiltOnPredecessor`, `EndedPairsStay`, `EndedUnderLease`, `ShowsTruth` (the refinement of `PublishedTruth`), `NewestCutSettles`. Three versions let a pair be claimed on a head that two others replace. |
| `publication_production` | 2 runs under two worker ids, 2 versions, 1 rollback, 3 approvals, 1 fault | `ApprovedTransitions`, and `ShowsTruth` in its stricter form. Three approvals let two runs use up theirs on one publication and leave one for what follows it. |
| `lock_serialized` | 4 processes, dying anywhere but while serialized | `OneSession`, `LiveLockStays`, `LiveSerializerStays`. |
| `lock_recovers` | 3 processes, dying in the session or before the serialization is given back | `DeadFilesYield`: files of the dead are moved away by whoever meets them. |
| `lock_double_session` | 3 processes, dying anywhere | `OneSession` is violated: see [findings](#findings). |
| `agent_worker` | 2 workers, 1 job queued, an alert or a refresh, of 2 attempts, 3 faults | `SucceededIsDone`, `EffectsWithinAttempts`, `SharedOnlyWhenStale`, `AloneUnlessSeized`, `EndedStays`, `QueuedEnds`. Jobs do not see each other; two attempts and three faults let a lock be recovered, the job be done twice and the last attempt be lost. |
| `agent_lock` | 2 workers, no fault | `OneWorker` is violated: see [findings](#findings). |
| `reviewed_body` | 1 dashboard, 1 action, 2 bodies, 2 confirmations | `ReviewedBodyIsSent` is violated: see [findings](#findings). |

The type invariant of each module is proved rather than run: its `TypeCorrect` theorem
holds for every value of the constants. It includes the relations between fields that
the other properties take for granted.

Runs of safety properties may use symmetry of runs, workers, requests or processes,
which occur in no expression that tells them apart; the runs that check liveness do not. Deadlock is not checked where the system may stop: the processes of the
lock end, the mailbox has a last record and a last fault, a queue whose jobs have ended has
nothing to do, and so it is with requests, versions and confirmations. It is checked in the
agent runs: launchd always starts another worker.

### Fairness

- `GmailMailboxSync`: weak fairness of each run's steps (`Step(r)`, starting again
  included) and of the time-out of leases whose owner is gone. The first is the cron,
  which calls the handler again and again whatever happened before, and the
  platform, which runs what it started unless it stops it (`Stop` is not fair and is
  bounded: a run that is stopped for ever proves nothing). The second is the clock.
  Nothing is assumed of late writes, slipping leases or the mailbox; `MaxHistory`
  makes the mailbox quiet in the end, without which there is no end to reach.
- `SourceProcessingJobs`: strong fairness of a claim that finds no row locked (a row
  lock lasts one transaction, and the cron claims again and again), weak fairness of a
  worker's going on or giving up, of the expiry of a lease nobody works under, and of
  a backoff. `WorkFails` and `Complete` are not fair apart: a job that always fails
  ends as `dead_letter`.
- `NestedRunLock`: weak fairness of each process; dying is not fair.
- `TruthPublication`: weak fairness of each run's steps (the cron starts rounds again and
  again, and a round goes on), of the sources' moving and of their gaps' being closed
  (the synchronisation does both), and of the time-out of a lease nobody builds under.
  `NewestCutSettles` does not say that the newest cut is published: a pair that has
  failed, or whose base another publication has replaced, stays so, and the next cut
  makes up for it.
- `AgentWorker`: weak fairness of the lock and of the work of each worker (launchd's
  KeepAlive starts it again, a running process goes on) and of the ageing of a lock.
- `ModelRequests` and `PlatformSend` state no fairness and claim no liveness: a request in
  doubt waits for a person, and so does a draft that was refused.

## The proofs

Each `..._proofs` module proves its theorems for all values of the constants that
satisfy the named assumptions: any number of runs, workers, jobs, requests, processes and
confirmations, any length of the history, any prices, budgets and bounds, any shape of
`ChildrenOf` and any order `Before`.

**`SourceProcessingJobs_proofs`.** From `JobsAssumption` (children are no roots and have
one parent; only roots come before) and `WorkersAssumption`. The properties are not
inductive one by one: "one result, that of the last attempt" needs that a lease is
live on leased rows only and that a leased row has been attempted; "children come
with their parent" needs that a leased parent has none. `Rows` is their common
strengthening, `IInv` adds the types of claims and of calls under way. Each function
of the queue keeps `Rows` whoever calls it and whenever, which is why late and
repeated calls need no case of their own. Theorems: `TypeCorrect`,
`AttemptsAlwaysAccounted`, `OneResultPerJob`, `ChildrenComeWithParent`,
`MessagesInOrder`, the action property `LeaseIsExclusive`, and `Implements`: under the
refinement mapping of the module, every step is one of `JobOutcomes` or none.

**`GmailMailboxSync_proofs`.** From the assumptions on `Owners`, `MaxHistory` and
`MaxFaults`. `Journal` (types, one running batch of the mode the cursor asks for, an
open gap exactly when one is needed, the chain of commits ending at the cursor) is
kept by each database function, for any owner, fence and batch, provided the values in
the call are of their types. `RunsTyped` and `LateTyped` say that the values runs send are;
this needs that the last page of a batch exists, shown by well-foundedness of the
naturals. Theorems: `TypeCorrect`, `AtMostOneRunning`, `ReconcileNeverWedges`, `OneChain`,
and the action properties `CursorMovesForward` and `ClosedBatchesStay`.

**`MailboxCoverage_proofs`.** From the same assumptions, on top of that invariant. The
database never looks at Gmail: that a page is the one its batch lacks, that the anchor is
that of the other pages, that a commit is of what was read, is right only because of who
sends it and when. So `HistoryBatchExact` and `NoLiveMessageMissed` cannot be kept by the
functions of the database alone, and the strengthening `CInv` has three layers:

- `Read` is what the persisted pages say: a history batch has every record between the
  cursor it starts at and the token of its last page, a scan has every message that is in
  the mailbox between that token and the anchor, and pages of one batch have distinct,
  consecutive ordinals. `Known` are the two properties about the cursor.
- `OneWriter`: fences are handed out once, so under the current lease there is a run of its
  owner or one write that such a run has left behind. A resumed lease of the same owner
  keeps its fence, which is why the run must have ended before.
- `Writers`: a run under the lease knows where its batch stops (`Follows`), and the page in
  its hands, or in the call it left behind, fits the batch (`Fits`). The mailbox may have
  changed since the page was listed: `Fits` is about the mailbox now, and stays true because
  records are only added above every id that was handed out and messages only go.

`LogNamed` and `NotAhead` say what the log is and that no id is ahead of it. (`CInv` was
checked as an invariant of both mailbox instances before it was proved.) Theorems: `CoverageInvariance`, `HistoryBatchesExact`,
`NoMailLost`, `DeletionsAccounted`, `OneAnchorPerScan`, `OneWriterPerFence` (the fencing the
rest leans on), and `CoveragePromise`: every step is one of `MailboxCoverage` or none. The
message set of the refinement needs that what a page shows was once added, since a scan
may still show a message that has been deleted in the meantime.

**`NestedRunLock_proofs`.** From `LockAssumption` and, as a hypothesis of each theorem,
`DiesUnserialized`: no process dies between opening the file at `operationPath` and giving
it back. A process is serialized exactly while the file there is its own, so one is at
a time, it alone changes the run lock, and what it has found (a dead owner, its own
lock) is still so when it acts on it. Theorems: `OneSessionAtATime`,
`LiveLockIsNeverStolen`, `LiveSerializerIsNeverStolen`, `TypeCorrect`. The run
`lock_double_session` shows that the hypothesis is needed.

**`TruthPublication_proofs`.** From `PublicationAssumption`. `LinearHistory`,
`BuiltOnPredecessor` and `ApprovedTransitions` are conjuncts of one invariant, `Ledger`
(the rows) with `Clients` (what runs, the decision and late calls hold): a publication
replaces the base of its pair only because a pair's base never changes and the head
only grows, and the order of cuts needs that no run or late call is about a cut the sources
have not reached. That approvals are used up on their own transitions needs that whoever
is on the way to the lock holds one issued for its own cut and head, that a used one is not
used again, and that a receipt, which is found by cut and expected head, is of a publication
that replaced that head. Theorems: `TypeCorrect`, `HistoryIsLinear`, `PublishedOnItsBase`,
`ApprovalsBindTransitions`, the action properties `FinalIsFinal` and `EndsByItsHolder` (a pair ends
by a call that carries its last fence, before its lease runs out), and
`PublishedTruthIsShown`: every step is one of `PublishedTruth` or none.

**`ModelRequests_proofs`.** From `ModelAssumption` and `RequestsAreFinite`. The invariant of
the rows is per request: `Money` says that what is held and booked for a request is the
whole hold until it is closed, then its bill; `Senders` and `Calls` that an open dispatch
has one sender, whose attempt number and fence are those of the receipt; `Runs` that fences
of runs on one job are distinct and none is above the job's. So a result that comes after
the dispatch was quarantined is refused, and nothing is sent without a receipt. Theorems:
`TypeCorrect`, `JobsTellRequests`, `EveryRequestAccounted`, and `PromiseIsKept`: every step
is one of `ModelSpending` or none.

The account and the days hold sums over requests, and the library defines a sum by recursion
over subsets, about which an induction would be used. The induction theorems being out of
reach, `SumsExist` shows that the recursion has a solution by a subset of least cardinality
without one, and `SumUnfolds`, `SumTakesOut`, `SumLeq`, `SumPlus` and `SumChanges` (one term
changes, and the sum by as much) follow in the same way. With them `Balance`, which adds to
`BooksBalance` that the account has no more committed than was allocated and that a row has
its day from the reservation on, is kept by each function of the ledger, late calls
included: `BooksAlwaysBalance`. `BillsStayWithinBudget` combines it with `Money`: each bill
is covered by what is held or booked for its request, and these add up to the books.

**`AgentWorker_proofs`.** From the assumptions on `Workers`, ids and bounds. A job that is
not in `MaySkip` has had its effect (`Due`) before any worker or late call is about to
report success for it, and effects are not undone. Effects are counted against attempts: a
job has as many effects still to come as there are workers about to handle it (`Doers`), and
with them no more than its attempts; so the bound needs the cardinality of that set, and
that a row that can be claimed has an attempt left. Theorems: `TypeCorrect`,
`SuccessIsReal`, `EffectsArePaid`, `SharedIsStale`, `LockedAlone` (while nobody has removed
a lock file, whoever is in the job loop owns the file) and the action property
`EndIsFinal`.

**`PlatformSend_proofs`.** From `NoneApart` (what stands for nothing is nothing else), a
hypothesis of each theorem. `SendOK` ties each confirmation to the draft planned for it,
`SentIsOver` says that whoever has sent is past sending, `RecordsAreTrue` covers the records
that writers of the audit have read and will write back. Theorems: `TypeCorrect`,
`RecipientAsReviewed` (no mail goes to anybody but the recipient the operator confirmed,
although its text may be another one), `ConfirmedOnce` (one mail at most for a confirmation)
and `AuditNeverLies` (writers that overlap lose records, but invent none). These hold for
every instance; the run of the module shows what does not.

**Model-checked only.** `CatchesUp`, `EveryJobEnds`, `DeadFilesYield`, `NewestCutSettles` and
`QueuedEnds`: liveness under fairness, and `ENABLED`, are out of the prover's reach. Every other
property of a passing run is stated by a theorem.

## Findings

**Two sessions.** `lib/pikiio-live-refresh-lock.js` promises one session ("live-refresh is
already running; refusing a second TMS session", line 290). A process that finds the file at
`operationPath` reads who wrote it, and if that process is dead renames the path away (lines
125 to 165). The rename takes whatever file is there by then. `lock_double_session` shows
what follows. A process dies after writing the run lock and before giving the serialization
back. Two others read its dead evidence. The first renames it, creates its own file and is
serialized; the second renames that file, which is the file of a live process, and is
serialized too. Both read the dead run lock. The first archives it and writes its own; the
second, on what it read before, archives the first one's and writes its own. The second
gives its serialization back, the first finds no file, which the release takes for "already
gone" (lines 100 to 102), and both are in a session.

What prevents it under `DiesUnserialized` is proved: without a dead serializer nobody
renames `operationPath`. The module does not show a double session from a crash in the
session alone, which is the ordinary case, and `lock_serialized` and the theorem say why.

**Two workers.** `scripts/pq-agent-worker.js` refuses a second worker ("Another local PQ
agent worker appears to be running", line 764). It creates its lock file and writes it
in two calls (lines 745 and 746). A second worker that reads the file in between cannot
parse it, takes it for stale (line 759), removes it and creates its own (lines 766 and
767); both are in the job loop, and the first one to leave removes the other's file
(line 775). `agent_lock` shows this without any crash or lost call. What remains true is
proved: until somebody removes a file in this way one worker is alone (`LockedAlone`), and
what two workers do to a job they share stays within its attempts (`EffectsArePaid`).

**Another text.** `lib/platform-send.js` says that "the operator approved a specific body;
the server recomputes sha256 over the body it is about to send and refuses on any
mismatch" (lines 15 to 17). The body it hashes is the one in the request (lines 140 to
146). What Gmail sends is the draft staged a moment before, and its body is that of the
action's row in the queue if it has one (`resolveHostedAction`, `api/actions/send.js`, lines
122 to 124), with the operator's recipients but not the operator's body
(`actionWithOperatorDraftOverrides`). The preview, a dry run, returns the action it was
given (line 112). A row appears when an action is first staged, also when the approval is
then refused or an answer is lost, and stays. When the brain later proposes another text
under the same id, the operator reviews and hashes that text, and the old one goes out.
`reviewed_body` finds it with one dashboard, one action and two confirmations.

## What is left out

- Of the modelled components: the content of messages and observations, digests and
  hashes (a completion is identified by its job and fence), processor versions, RLS and
  grants, validation of arguments the callers always get right, the length of leases and
  backoffs (any lease may expire at any time), the order in which claimable jobs are
  taken. Of the queue: the special completions of materializations, model extractions
  and claim manifests, and the operator routines that supersede jobs. Of the lock:
  evidence of another host or schema, which the code refuses, and writes that fail. Of the
  publication: the contents of cuts and packets, which are a function of the cut, and
  request keys other than those the hosted runs use, one for each cut. Of the model requests:
  parked and batch plans, attachments, the pricing of tokens, the resolution of reviews. Of
  the agent worker: job types it never claims, a source backfill that is queued a second
  time, priorities and poll intervals. Of the sending: drafts staged by the local agent, the
  retry of its failures, outbox and notes, which nobody reads on this way, and the checks
  of the truth packets, whose answer may be anything.
- A crash between creating a lock file and writing it leaves a file that every later
  process refuses until somebody removes it. The code says so (malformed evidence fails
  closed), the module models it, and no property asks for more.
- A page token that Gmail refuses is not modelled: the code would resume the batch with
  the same token for ever, and Gmail documents no lifetime for tokens.
- Components with no module yet are listed with their reason in `PROJECT.json`. Those
  that stay without one are presentation, text heuristics and provider I/O, where there
  is little state to check.

## The plan

Done: `SourceJournal` with `GmailMailboxSync` and `MailboxCoverage`; `SourceProcessingJobs` with
`JobOutcomes`; `NestedRunLock`; `TruthPublication` with `PublishedTruth`; `AgentWorker`;
`ModelRequests` with `ModelSpending`; `PlatformSend`; theorems for every safety property and
every refinement the runs check. What would come next, in this order:

1. `ShadowRound`: the orchestrator's decision that the queue is drained, over
   `SourceProcessingJobs` and `TruthPublication`. Does a cut contain the work it says it does?
2. `GmailMaterialization`: routes, obligations and the checkpoint chain, between a commit of
   the journal and the jobs that `Seal` puts into the queue; the special completions of the
   queue with it.
3. The parts of `PlatformSend` and `AgentWorker` that meet: drafts staged by the local agent
   and the retry of its failures.
4. `SourceSnapshots`: the journal's lease with one owner for all requests of a source.
5. Pure operators for precedence and temporal resolution, against reference definitions: a
   total preorder, results independent of the order of claims.

### Not modelled

Each component without a module is listed with its reason in `PROJECT.json`. The legacy
ingestion, the dashboard, the reports and most of the documents' handling are by far the
largest part of the code, and hold little state that two actors share: their difficulty is
in dates, names and wording, which a model would have to leave out. So the modules cover
a small share of the lines and most of the coordination.
