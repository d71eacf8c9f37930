-------------------------- MODULE TruthPublication --------------------------
(***************************************************************************)
(* From a sealed source cut to the head of a publication channel: the      *)
(* build pair of a cut and its lease, the approval that production needs,  *)
(* the compare-and-swap on the head, and rollbacks.  The database side is  *)
(* truth_build_publication_runtime.sql and                                 *)
(* truth_production_authority_isolation.sql; the other is a run of         *)
(* lib/relational-truth-build-runner.js as lib/hosted-truth-shadow-        *)
(* runtime.js starts it.                                                   *)
(*                                                                         *)
(* One channel.  Shadow and production have pairs, requests and heads of   *)
(* their own and share the sources only.                                   *)
(*                                                                         *)
(* Abstracted: a complete cut is the version of the source cursor, as one  *)
(* cursor only moves forward and the hash of a manifest names its content; *)
(* packets, which are a function of the cut; the build's versions; the     *)
(* check of the packet read back, which changes nothing.  Runs publish a   *)
(* cut under one and the same request key; each rollback has one of its    *)
(* own.  A database function is one step, but for the publication of a     *)
(* pair, which is two: what it checks before it waits for the channel's    *)
(* lock (Publish), and what it does under that lock (Commit).              *)
(***************************************************************************)
EXTENDS Naturals, FiniteSets, Sequences

CONSTANTS
    Runs,           \* the runs that may be at work at a time
    WorkerOf,       \* the worker id a run uses
    Production,     \* is this the production channel?
    MaxVersion,     \* bound on the version of the source cursor
    MaxRollbacks,   \* bound on the rollbacks that are published
    MaxApprovals,   \* bound on the approvals that are issued
    MaxFaults       \* bound on abandoned runs, lost leases, failed builds, gaps

ASSUME PublicationAssumption ==
    /\ Runs # {}
    /\ Production \in BOOLEAN
    /\ {MaxVersion, MaxRollbacks, MaxApprovals, MaxFaults} \subseteq Nat
    /\ WorkerOf = [r \in Runs |-> WorkerOf[r]]

Workers == {WorkerOf[r] : r \in Runs}
Cuts == 1 .. MaxVersion

VARIABLES
    cursor, gaps,   \* the sources: version of the cursor, anything missing?
    pair,           \* truth_build_pair_runs: the build pair of each cut
    publications,   \* truth_publications, in the order of their insertion
    head,           \* the publication that truth_publication_heads names, or 0
    approvals,      \* truth_production_publication_approvals
    run,            \* where each run is, and what it holds
    decision,       \* the rollback the operator is about to publish
    late,           \* calls of abandoned runs that may still be executed
    faults

sources == <<cursor, gaps>>
ledger == <<pair, publications, head, approvals>>
vars == <<cursor, gaps, pair, publications, head, approvals, run, decision, late, faults>>

NoPair == [status |-> "none", owner |-> CHOOSE w \in Workers : TRUE, fence |-> 0,
           live |-> FALSE, base |-> 0]
Standing(pc, cut, fence, expected) ==
    [pc |-> pc, cut |-> cut, fence |-> fence, expected |-> expected, approval |-> 0]
Idle == Standing("idle", 0, 0, 0)
NoDecision == [target |-> 0, expected |-> 0, approval |-> 0]

Init ==
    /\ cursor = 0
    /\ gaps = FALSE
    /\ pair = [c \in Cuts |-> NoPair]
    /\ publications = << >>
    /\ head = 0
    /\ approvals = << >>
    /\ run = [r \in Runs |-> Idle]
    /\ decision = NoDecision
    /\ late = {}
    /\ faults = 0

Ids == 1 .. Len(publications)
VersionOf(id) == IF id = 0 THEN 0 ELSE publications[id].version
CutOf(id) == IF id = 0 THEN 0 ELSE publications[id].cut
Published(c) == \E id \in Ids : publications[id].cut = c /\ ~publications[id].rollback
-----------------------------------------------------------------------------
(* The functions of the database                                           *)

(* mutant: an expired lease is not taken over *)
MutantClaimedOnce(c, worker) ==
    IF pair[c].status = "none"
      THEN [status |-> "running", owner |-> worker, fence |-> 1, live |-> TRUE, base |-> head]
    ELSE pair[c]
(* claim_truth_build_pair: the pair of cut c after a claim.  A worker that *)
(* holds the lease gets it again, fence and all.                           *)
Claimed(c, worker) ==
    IF pair[c].status = "none"
      THEN [status |-> "running", owner |-> worker, fence |-> 1, live |-> TRUE, base |-> head]
    ELSE IF pair[c].status = "running" /\ ~pair[c].live
      THEN [pair[c] EXCEPT !.owner = worker, !.fence = @ + 1, !.live = TRUE]
    ELSE pair[c]

(* mutant: the lease is checked without its fence *)
MutantHolds(c, worker, fence) ==
    /\ pair[c].status = "running"
    /\ pair[c].owner = worker

(* require_truth_build_pair_lease *)
Holds(c, worker, fence) ==
    /\ pair[c].status = "running"
    /\ pair[c].owner = worker
    /\ pair[c].fence = fence
    /\ pair[c].live

(* mutant: a pair that was completed can still be failed *)
MutantEnded(c, worker, fence, status) ==
    IF (status = "failed" /\ pair[c].status # "none") \/ Holds(c, worker, fence)
    THEN [pair[c] EXCEPT !.status = status] ELSE pair[c]

(* complete_truth_build_pair and fail_truth_build_pair: what is final      *)
(* stays, a lease that is stale is refused.                                *)
Ended(c, worker, fence, status) ==
    IF Holds(c, worker, fence) THEN [pair[c] EXCEPT !.status = status] ELSE pair[c]

(* mutant: the head is not compared with the one the caller has seen *)
MutantHeadAnyway(expected) == TRUE

HeadIs(expected) == VersionOf(head) = expected

(* mutant: any pair that is built may replace the head *)
MutantBaseAnyway(c) == TRUE
BaseIsHead(c) == pair[c].base = head

(* mutant: the cursors of the cut are not compared with those of the head  *)
MutantRegresses(c) == FALSE
Regresses(c) == c < CutOf(head)

(* mutant: the live cursors are compared when the approval is issued only *)
MutantLiveVector(c) == c <= cursor
LiveVector(c) == c = cursor /\ ~gaps

(* lock_truth_production_publication_approval: an approval is for one cut  *)
(* to replace one head.                                                    *)
Issued(a, c, expected) ==
    /\ approvals[a].status = "issued"
    /\ approvals[a].cut = c
    /\ approvals[a].expected = expected

NewApproval(c, expected) ==
    Append(approvals, [cut |-> c, expected |-> expected, status |-> "issued", publication |-> 0])

(* consume_truth_production_approval.  That the approval has not run out   *)
(* is not looked at again.                                                 *)
Unused(a) == Production => approvals[a].status # "consumed"
UsedUp(a, id) ==
    IF Production
      THEN [approvals EXCEPT ![a] = [@ EXCEPT !.status = "consumed", !.publication = id]]
    ELSE approvals

Successor(c, rollback, expected, a) ==
    [version |-> VersionOf(head) + 1, previous |-> head, cut |-> c,
     rollback |-> rollback, expected |-> expected, approval |-> a]

(* mutant: the approval is not used up *)
MutantInsert(c, rollback, expected, a) ==
    /\ publications' = Append(publications, Successor(c, rollback, expected, a))
    /\ head' = Len(publications) + 1
    /\ UNCHANGED approvals

Insert(c, rollback, expected, a) ==
    /\ publications' = Append(publications, Successor(c, rollback, expected, a))
    /\ head' = Len(publications) + 1
    /\ approvals' = UsedUp(a, Len(publications) + 1)

(* What publish_truth_build_pair_runtime_cas_authorized checks on its own, *)
(* before the lock of the channel is taken.                                *)
Authorized(c, expected, a) ==
    /\ pair[c].status = "succeeded"
    /\ Production => Issued(a, c, expected) /\ ~Published(c)

(* commit_truth_publication_runtime, under the lock: a request that has    *)
(* been carried out is answered with its receipt, and what is already      *)
(* published is not published again.                                       *)
Receipts(c, expected) ==
    {id \in Ids : /\ publications[id].cut = c /\ ~publications[id].rollback
                  /\ publications[id].expected = expected}

CommitAccepted(c, expected) ==
    /\ ~Published(c)
    /\ HeadIs(expected)
    /\ BaseIsHead(c)
    /\ ~Regresses(c)
    /\ Production => LiveVector(c)

(* The rest of the function: the approval is used up on the publication    *)
(* made, or on that of the receipt.                                        *)
CommitEffect(c, expected, a) ==
    IF CommitAccepted(c, expected) /\ Unused(a) THEN Insert(c, FALSE, expected, a)
    ELSE /\ UNCHANGED <<publications, head>>
         /\ approvals' \in IF Unused(a) /\ Receipts(c, expected) # {}
                           THEN {UsedUp(a, id) : id \in Receipts(c, expected)} ELSE {approvals}

(* publish_truth_rollback_forward_authorized *)
RollbackAccepted(target, expected, a) ==
    /\ VersionOf(target) < expected
    /\ Production => Issued(a, CutOf(target), expected)
    /\ HeadIs(expected)
-----------------------------------------------------------------------------
(* A run: one round of the orchestrator's build stage                      *)

At(r, pc) == run[r].pc = pc
Become(r, new) == run' = [run EXCEPT ![r] = new]
Goto(r, pc) == run' = [run EXCEPT ![r].pc = pc]

On(r, pc) == Standing(pc, run[r].cut, 0, 0)

(* sealCurrent: a cut is complete when nothing is missing from the sources *)
Seal(r) ==
    /\ At(r, "idle")
    /\ cursor > 0
    /\ ~gaps
    /\ Become(r, Standing(IF Production THEN "check" ELSE "claim", cursor, 0, 0))
    /\ UNCHANGED <<sources, ledger, decision, late, faults>>

(* Production is left alone when its head is of this cut. *)
CheckCurrent(r) ==
    /\ At(r, "check")
    /\ Become(r, IF CutOf(head) = run[r].cut THEN Idle ELSE On(r, "claim"))
    /\ UNCHANGED <<sources, ledger, decision, late, faults>>

(* What a run does with the answer to a claim: anything but a lease of its *)
(* own on a pair, or one that is built, is its end; so is a lease that     *)
(* recoverCompletion is given.                                             *)
AfterClaim(r, row) ==
    IF row.status = "succeeded" THEN On(r, "head")
    ELSE IF row.status = "running" /\ row.owner = WorkerOf[r] /\ At(r, "claim")
      THEN Standing("bundle", run[r].cut, row.fence, 0)
    ELSE Idle

Claim(r) ==
    /\ At(r, "claim") \/ At(r, "recover")
    /\ LET row == Claimed(run[r].cut, WorkerOf[r])
       IN  pair' = [pair EXCEPT ![run[r].cut] = row] /\ Become(r, AfterClaim(r, row))
    /\ UNCHANGED <<sources, publications, head, approvals, decision, late, faults>>

(* The inputs are read under the lease, and reduced twice. *)
ReadBundle(r) ==
    /\ At(r, "bundle")
    /\ IF Holds(run[r].cut, WorkerOf[r], run[r].fence) THEN Goto(r, "complete") ELSE Become(r, Idle)
    /\ UNCHANGED <<sources, ledger, decision, late, faults>>

(* A lease that is stale is an error worth a second call and a claim       *)
(* (recoverCompletion).                                                    *)
AfterComplete(r, row) ==
    IF row.status = "succeeded" THEN On(r, "head")
    ELSE IF row.status = "failed" THEN Idle
    ELSE On(r, "recover")

Complete(r) ==
    /\ At(r, "complete")
    /\ LET row == Ended(run[r].cut, WorkerOf[r], run[r].fence, "succeeded")
       IN  pair' = [pair EXCEPT ![run[r].cut] = row] /\ Become(r, AfterComplete(r, row))
    /\ UNCHANGED <<sources, publications, head, approvals, decision, late, faults>>

(* The reduction throws (failDeterministically), or the database finds the *)
(* packets unequal.                                                        *)
Fail(r) ==
    /\ At(r, "complete")
    /\ faults < MaxFaults
    /\ faults' = faults + 1
    /\ pair' = [pair EXCEPT ![run[r].cut] = Ended(run[r].cut, WorkerOf[r], run[r].fence, "failed")]
    /\ Become(r, Idle)
    /\ UNCHANGED <<sources, publications, head, approvals, decision, late>>

(* publishCompletedPair *)
ReadHead(r) ==
    /\ At(r, "head")
    /\ Become(r, Standing(IF Production THEN "approve" ELSE "publish", run[r].cut, 0, VersionOf(head)))
    /\ UNCHANGED <<sources, ledger, decision, late, faults>>

(* issueProductionApproval, refused when the head is no longer that *)
Approve(r) ==
    /\ At(r, "approve")
    /\ IF HeadIs(run[r].expected)
         THEN /\ Len(approvals) < MaxApprovals
              /\ approvals' = NewApproval(run[r].cut, run[r].expected)
              /\ Become(r, [run[r] EXCEPT !.pc = "publish", !.approval = Len(approvals) + 1])
         ELSE UNCHANGED approvals /\ Become(r, Idle)
    /\ UNCHANGED <<sources, pair, publications, head, decision, late, faults>>

(* The call to publish: refused at once, or on its way to the lock, which  *)
(* runs of one cut may reach side by side, each with an approval.          *)
Publish(r) ==
    /\ At(r, "publish")
    /\ IF Authorized(run[r].cut, run[r].expected, run[r].approval)
         THEN Goto(r, "commit") ELSE Become(r, Idle)
    /\ UNCHANGED <<sources, ledger, decision, late, faults>>

Commit(r) ==
    /\ At(r, "commit")
    /\ CommitEffect(run[r].cut, run[r].expected, run[r].approval)
    /\ Become(r, Idle)
    /\ UNCHANGED <<sources, pair, decision, late, faults>>

(* A run ends anywhere: its deadline, an abort, a crash, an answer it does *)
(* not get.  The call it was waiting for may still reach the database.     *)
CallsOf(pc) ==
    CASE pc \in {"claim", "recover"} -> {"claim"}
      [] pc = "complete" -> {"complete", "fail"}
      [] pc \in {"publish", "commit"} -> {pc}
      [] OTHER -> {}

Abandon(r) ==
    /\ ~At(r, "idle")
    /\ faults < MaxFaults
    /\ faults' = faults + 1
    /\ late' \in {late} \union {late \union {[fn |-> fn, worker |-> WorkerOf[r], call |-> run[r]]} :
                               fn \in CallsOf(run[r].pc)}
    /\ Become(r, Idle)
    /\ UNCHANGED <<sources, ledger, decision>>
-----------------------------------------------------------------------------
(* The operator's rollback: decided on what the dashboard shows, published *)
(* when the call gets through.                                             *)
Rollbacks == {id \in Ids : publications[id].rollback}

Decide ==
    /\ decision = NoDecision
    /\ Cardinality(Rollbacks) < MaxRollbacks
    /\ \E target \in Ids :
         /\ VersionOf(target) < VersionOf(head)
         /\ decision' = [target |-> target, expected |-> VersionOf(head),
                         approval |-> IF Production THEN Len(approvals) + 1 ELSE 0]
         /\ IF Production
              THEN /\ Len(approvals) < MaxApprovals
                   /\ approvals' = NewApproval(CutOf(target), VersionOf(head))
              ELSE UNCHANGED approvals
    /\ UNCHANGED <<sources, pair, publications, head, run, late, faults>>

RollBack ==
    /\ decision # NoDecision
    /\ IF RollbackAccepted(decision.target, decision.expected, decision.approval)
         THEN Insert(CutOf(decision.target), TRUE, decision.expected, decision.approval)
         ELSE UNCHANGED <<publications, head, approvals>>
    /\ decision' = NoDecision
    /\ UNCHANGED <<sources, pair, run, late, faults>>
-----------------------------------------------------------------------------
(* The environment                                                         *)

(* A call to publish that is authorized goes on to the lock. *)
Continued(m) ==
    IF m.fn = "publish" /\ Authorized(m.call.cut, m.call.expected, m.call.approval)
    THEN {[m EXCEPT !.fn = "commit"]} ELSE {}

LateCall(m) ==
    /\ late' = (late \ {m}) \union Continued(m)
    /\ CASE m.fn = "claim" ->
             /\ pair' = [pair EXCEPT ![m.call.cut] = Claimed(m.call.cut, m.worker)]
             /\ UNCHANGED <<publications, head, approvals>>
         [] m.fn \in {"complete", "fail"} ->
             /\ pair' = [pair EXCEPT ![m.call.cut] =
                    Ended(m.call.cut, m.worker, m.call.fence,
                          IF m.fn = "complete" THEN "succeeded" ELSE "failed")]
             /\ UNCHANGED <<publications, head, approvals>>
         [] m.fn = "publish" -> UNCHANGED ledger
         [] m.fn = "commit" ->
             /\ CommitEffect(m.call.cut, m.call.expected, m.call.approval)
             /\ UNCHANGED pair
    /\ UNCHANGED <<sources, run, decision, faults>>

(* A source commits; what its commit leaves undone is in the gaps. *)
Advance ==
    /\ cursor < MaxVersion
    /\ cursor' = cursor + 1
    /\ UNCHANGED <<gaps, ledger, run, decision, late, faults>>

GapOpens ==
    /\ ~gaps /\ faults < MaxFaults
    /\ gaps' = TRUE /\ faults' = faults + 1
    /\ UNCHANGED <<cursor, ledger, run, decision, late>>

GapCloses ==
    /\ gaps
    /\ gaps' = FALSE
    /\ UNCHANGED <<cursor, ledger, run, decision, late, faults>>

(* A lease times out, of a run that is gone, or of one still at work. *)
Building(c) ==
    \E r \in Runs : run[r].pc \in {"bundle", "complete"} /\ run[r].cut = c /\ run[r].fence = pair[c].fence

Expire(c) == pair[c].status = "running" /\ pair[c].live /\ pair' = [pair EXCEPT ![c].live = FALSE]

LeaseTimesOut(c) ==
    /\ Expire(c) /\ ~Building(c)
    /\ UNCHANGED <<sources, publications, head, approvals, run, decision, late, faults>>

LeaseSlips(c) ==
    /\ Expire(c) /\ Building(c)
    /\ faults < MaxFaults
    /\ faults' = faults + 1
    /\ UNCHANGED <<sources, publications, head, approvals, run, decision, late>>

ApprovalExpires(a) ==
    /\ approvals[a].status = "issued"
    /\ approvals' = [approvals EXCEPT ![a].status = "expired"]
    /\ UNCHANGED <<sources, pair, publications, head, run, decision, late, faults>>

Step(r) ==
    \/ Seal(r) \/ CheckCurrent(r) \/ Claim(r) \/ ReadBundle(r) \/ Complete(r)
    \/ ReadHead(r) \/ Approve(r) \/ Publish(r) \/ Commit(r)

Next ==
    \/ \E r \in Runs : Step(r) \/ Fail(r) \/ Abandon(r)
    \/ Decide \/ RollBack
    \/ \E m \in late : LateCall(m)
    \/ Advance \/ GapOpens \/ GapCloses
    \/ \E c \in Cuts : LeaseTimesOut(c) \/ LeaseSlips(c)
    \/ \E a \in DOMAIN approvals : ApprovalExpires(a)

Spec == Init /\ [][Next]_vars
FairSpec ==
    /\ Spec
    /\ \A r \in Runs : WF_vars(Step(r))
    /\ WF_vars(Advance) /\ WF_vars(GapCloses)
    /\ \A c \in Cuts : WF_vars(LeaseTimesOut(c))
-----------------------------------------------------------------------------
Publication == [version : Nat, previous : Nat, cut : Cuts, rollback : BOOLEAN, expected : Nat,
                approval : Nat]
Approval == [cut : Cuts, expected : Nat, status : {"issued", "consumed", "expired"}, publication : Nat]
Pair == [status : {"none", "running", "succeeded", "failed"}, owner : Workers, fence : Nat,
         live : BOOLEAN, base : Nat]
Points == {"idle", "check", "claim", "bundle", "complete", "recover", "head", "approve", "publish",
           "commit"}
RunState == [pc : Points, cut : 0 .. MaxVersion, fence : Nat, expected : Nat, approval : Nat]
Call == [fn : {"claim", "complete", "fail", "publish", "commit"}, worker : Workers, call : RunState]

(* Types; a run or a call that is not idle is about a cut, and only the    *)
(* production channel has approvals.                                       *)
TypeOK ==
    /\ cursor \in 0 .. MaxVersion /\ gaps \in BOOLEAN
    /\ pair \in [Cuts -> Pair]
    /\ publications \in Seq(Publication)
    /\ head \in 0 .. Len(publications)
    /\ approvals \in Seq(Approval)
    /\ run \in [Runs -> RunState]
    /\ decision \in [target : 0 .. Len(publications), expected : Nat, approval : Nat]
    /\ late \subseteq Call
    /\ faults \in 0 .. MaxFaults
    /\ \A r \in Runs : run[r].pc # "idle" => run[r].cut \in 1 .. cursor
    /\ \A m \in late : m.call.cut \in 1 .. cursor

(* "truth publication compare-and-swap failed"                             *)
(* (truth_build_publication_runtime.sql:1084): the publications are one    *)
(* line, the head is its end, and each replaced what its publisher had     *)
(* seen as the head, in one of several calls that raced or came late.      *)
LinearHistory ==
    /\ head = Len(publications)
    /\ \A id \in Ids :
         /\ publications[id].version = id
         /\ publications[id].previous = id - 1
         /\ publications[id].expected = id - 1

(* "truth build pair base is no longer the publication head"               *)
(* (truth_build_publication_runtime.sql:1102): what a build published      *)
(* replaced the very publication that was the head when its pair was       *)
(* claimed, and the pair was built.                                        *)
BuiltOnPredecessor ==
    \A id \in Ids : ~publications[id].rollback =>
        /\ pair[publications[id].cut].status = "succeeded"
        /\ pair[publications[id].cut].base = publications[id].previous

(* "consumed production approval receipt is inconsistent"                  *)
(* (truth_production_authority_isolation.sql:681): in production nothing   *)
(* is published or rolled back to without an approval used up on it, and   *)
(* an approval is used up on the very transition it was issued for, of its *)
(* cut onto its head.  Two runs of one cut that are both past the check    *)
(* for what is already published (:771) use up both their approvals on the *)
(* one publication: the second is given the receipt of the first.          *)
ApprovedTransitions ==
    Production =>
      /\ \A a \in DOMAIN approvals : approvals[a].status = "consumed" =>
           /\ approvals[a].publication \in Ids
           /\ publications[approvals[a].publication].cut = approvals[a].cut
           /\ publications[approvals[a].publication].previous = approvals[a].expected
      /\ \A id \in Ids :
           /\ publications[id].approval \in DOMAIN approvals
           /\ approvals[publications[id].approval].status = "consumed"
           /\ approvals[publications[id].approval].publication = id

(* "final immutable" (the guard of truth_build_pair_runs,                  *)
(* truth_build_publication_runtime.sql:2233): what a pair ended as, and    *)
(* the base it was claimed on, are never changed, whoever completes, fails *)
(* or claims it again.                                                     *)
EndedPairsStay ==
    [][ \A c \in Cuts :
          /\ pair[c].status \in {"succeeded", "failed"} => pair'[c] = pair[c]
          /\ pair[c].status # "none" => pair'[c].base = pair[c].base
      ]_vars

(* A pair ends by the hands of the run that was given its lease last, and  *)
(* before that lease ran out: a run that has lost it to another can        *)
(* neither complete nor fail what the other is building                    *)
(* (truth_build_publication_runtime.sql:167-196).                          *)
EndedUnderLease ==
    [][ \A c \in Cuts : pair[c].status = "running" /\ pair'[c].status # "running" =>
          /\ pair[c].live
          /\ \/ \E r \in Runs : run'[r] # run[r] /\ run[r].fence = pair[c].fence
             \/ \E m \in late \ late' : m.call.fence = pair[c].fence
      ]_vars

(* The publications are what readers are promised: forward over new cuts,  *)
(* back only by rollback, and in production never without the state of the *)
(* sources at that moment.                                                 *)
Truth == INSTANCE PublishedTruth WITH
    shown <- CutOf(head),
    offered <- {publications[id].cut : id \in Ids}
ShowsTruth == Truth!Spec

(* The newest cut is not left alone: in the end it is published, its pair  *)
(* failed, or another publication has taken the place of the one it was    *)
(* built on.  (Then it is never published: the idempotency key of a pair   *)
(* is its cut, lib/hosted-truth-shadow-runtime.js:775, and the next cut    *)
(* makes up for it.)                                                       *)
NewestCutSettles ==
    (cursor = MaxVersion) ~>
      \/ Published(MaxVersion)
      \/ pair[MaxVersion].status = "failed"
      \/ pair[MaxVersion].status # "none" /\ pair[MaxVersion].base # head
=============================================================================
