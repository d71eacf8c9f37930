-------------------------- MODULE GmailMailboxSync --------------------------
(***************************************************************************)
(* Runs of the Gmail synchronisation against one mailbox and one journal.  *)
(* A run is what lib/truth-shadow-orchestrator.js does first: the          *)
(* incremental history sync (lib/gmail-incremental-sync.js) and, when that *)
(* answers backfill_required or reconcile_required, the mailbox scan       *)
(* (lib/gmail-mailbox-backfill.js), under the same lease owner.            *)
(*                                                                         *)
(* renewLease before a write is folded into the write: both check the same *)
(* owner, fence and expiry, and a run that fails either of them ends.      *)
(* A run is named by the owner id it passes, one of Owners; the cron makes *)
(* a new one for every request, so a name that is used again stands for    *)
(* another request.                                                        *)
(*                                                                         *)
(* Runs overlap, end at any point (deadline, abort, crash), lose their     *)
(* lease, and may leave a write in flight that the database executes after *)
(* the run is gone.                                                        *)
(***************************************************************************)
EXTENDS GmailProvider, SourceJournal

CONSTANT
    MaxFaults     \* bound: runs that stop early, leases that expire under a run
                  \* at work, and runs started when there is nothing to fetch

ASSUME MaxFaultsAssumption == MaxFaults \in Nat

VARIABLES
    run,        \* run[r] : the local variables of run r
    late,       \* writes of ended runs the database has not executed yet
    faults      \* how many of MaxFaults are used

syncVars == <<run, late, faults>>
vars == <<providerVars, journalVars, syncVars>>

(* fence, start, batch, ordinal, token, anchor: leaseFence,                *)
(* startCursorValue, batchId, pageOrdinal, requestPageToken,               *)
(* anchorHistoryId (recoveryAnchorValue in the history sync).  resp: the   *)
(* page fetched and not yet appended.                                      *)
Ended == [pc |-> "idle", mode |-> "history", fence |-> 0, start |-> 0, batch |-> 0,
          ordinal |-> 0, token |-> NoToken, anchor |-> 0,
          resp |-> [next |-> NoToken, hid |-> 0, ids |-> {}]]

Init ==
    /\ ProviderInit
    /\ JournalInit
    /\ run = [r \in Owners |-> Ended]
    /\ late = {}
    /\ faults = 0

Fault == faults < MaxFaults /\ faults' = faults + 1

At(r, pc) == run[r].pc = pc
Goto(r, pc) == run' = [run EXCEPT ![r].pc = pc]
End(r) == run' = [run EXCEPT ![r] = Ended]
Holds(r) == LeaseHeld(r, run[r].fence)

(* There is something a run would fetch. *)
Behind == cursor.status # "live" \/ cursor.value < HistoryId

(* A step that touches only the run. *)
Local == UNCHANGED <<providerVars, journalVars, late, faults>>
-----------------------------------------------------------------------------
(* The cron handler starts a run when there is something to fetch, and     *)
(* sometimes when there is nothing.                                        *)
Started(r) ==
    \/ At(r, "acquire") /\ UNCHANGED faults
    \/ At(r, "idle") /\ Behind /\ UNCHANGED faults
    \/ At(r, "idle") /\ ~Behind /\ Fault

(* acquireLease, and the returns that depend on the status it reports: the *)
(* history sync answers backfill_required or reconcile_required and the    *)
(* orchestrator goes on to the scan, which acquires again; a status that   *)
(* does not fit the scan's mode ends the run with the lease still held.    *)
(* Only the second acquire of a request can find the lease its own.        *)
Granted(r) == AcquireAccepted(r) /\ (At(r, "idle") => ~cursor.live)

Acquire(r) ==
    LET mode == ModeFor(cursor.status)
        granted == [run[r] EXCEPT !.fence = IF cursor.live THEN cursor.fence ELSE cursor.fence + 1,
                                  !.start = cursor.value]
    IN  /\ Started(r)
        /\ \/ /\ Granted(r)
              /\ AcquireEffect(r)
              /\ run' = [run EXCEPT ![r] =
                    IF run[r].mode = mode
                    THEN [granted EXCEPT !.pc = "begin"]
                    ELSE IF run[r].mode = "history"
                         THEN [Ended EXCEPT !.pc = "acquire", !.mode = mode]
                         ELSE Ended]
           \/ /\ ~Granted(r)
              /\ End(r)
              /\ UNCHANGED journalVars
        /\ UNCHANGED <<providerVars, late>>

(* The scan anchor a receipt of beginBatch fixes: the gap's anchor for a   *)
(* reconciliation, the anchor of the persisted pages for a backfill that   *)
(* resumes, none yet for a new backfill.                                   *)
(* mutant: a resumed backfill takes a new anchor *)
MutantAnchorAnew(mode, b) ==
    IF mode = "reconciliation" THEN (CHOOSE g \in OpenGaps : TRUE).anchor ELSE 0

ReceiptAnchor(mode, b) ==
    CASE mode = "reconciliation"               -> (CHOOSE g \in OpenGaps : TRUE).anchor
      [] mode = "backfill" /\ PagesOf(b) # {}  -> LastPage(b).hid
      [] OTHER                                 -> 0

(* beginBatch and the client's checks of its receipt.  A resumed scan      *)
(* whose pages carry another anchor than the open gap is refused.          *)
Begin(r) ==
    LET mode == run[r].mode
        b == BeginBatch
        resumed == PagesOf(b) # {}
        anchor == ReceiptAnchor(mode, b)
        consistent == /\ cursor.value = run[r].start
                      /\ mode = "reconciliation" /\ resumed => LastPage(b).hid = anchor
        next == IF FinalPersisted(b) THEN "commit_batch"
                ELSE IF mode = "backfill" /\ anchor = 0 THEN "capture_profile_anchor"
                ELSE "list"
    IN  /\ At(r, "begin")
        /\ \/ /\ BeginAccepted(r, run[r].fence, mode)
              /\ BeginEffect(mode)
              /\ run' = [run EXCEPT ![r] =
                    IF consistent
                    THEN [run[r] EXCEPT !.pc = next, !.batch = b, !.ordinal = PageCount(b),
                                        !.token = IF resumed THEN LastPage(b).next ELSE NoToken,
                                        !.anchor = anchor]
                    ELSE Ended]
           \/ /\ ~BeginAccepted(r, run[r].fence, mode)
              /\ End(r)
              /\ UNCHANGED journalVars
        /\ UNCHANGED <<providerVars, late, faults>>

(* getProfile before the first page of a backfill: the anchor is read      *)
(* before the scan it bounds, and the lease is checked after it.           *)
CaptureAnchor(r) ==
    /\ At(r, "capture_profile_anchor")
    /\ IF HistoryId >= run[r].start /\ Holds(r)
       THEN run' = [run EXCEPT ![r].pc = "list", ![r].anchor = HistoryId]
       ELSE End(r)
    /\ Local
-----------------------------------------------------------------------------
(* listHistory or listMessages: one page. *)
ListHistory(r) ==
    /\ run[r].mode = "history" /\ ~HistoryExpired(run[r].start)
    /\ \E resp \in HistoryResponses(run[r].start, run[r].token) :
          run' = [run EXCEPT ![r].pc = "append_page", ![r].resp = resp]

ListMessages(r) ==
    /\ run[r].mode # "history"
    /\ \E resp \in MailboxResponses(run[r].token) :
          run' = [run EXCEPT ![r].pc = "append_page",
                             ![r].resp = [next |-> resp.next, hid |-> run[r].anchor,
                                          ids |-> resp.ids]]

List(r) ==
    /\ At(r, "list")
    /\ ListHistory(r) \/ ListMessages(r)
    /\ Local

(* listHistory answers 404 for the start; getProfile then gives the        *)
(* recovery anchor.                                                        *)
HistoryGap(r) ==
    /\ At(r, "list") /\ run[r].mode = "history" /\ HistoryExpired(run[r].start)
    /\ run' = [run EXCEPT ![r].pc = "mark_history_expired", ![r].anchor = HistoryId]
    /\ Local
-----------------------------------------------------------------------------
(* The three writes, as the run sends them. *)
(* mutant: the page carries the id the mailbox has when it is written *)
MutantPageCurrentId(r) ==
    [batch |-> run[r].batch, ordinal |-> run[r].ordinal, req |-> run[r].token,
     next |-> run[r].resp.next, hid |-> HistoryId, ids |-> run[r].resp.ids,
     final |-> run[r].resp.next = NoToken]

(* mutant: the page keeps additions only *)
MutantPageAdditions(r) ==
    [batch |-> run[r].batch, ordinal |-> run[r].ordinal, req |-> run[r].token,
     next |-> run[r].resp.next, hid |-> run[r].resp.hid,
     ids |-> {h \in run[r].resp.ids : run[r].mode = "history" => log[h].kind = "added"},
     final |-> run[r].resp.next = NoToken]

PageOf(r) == [batch |-> run[r].batch, ordinal |-> run[r].ordinal, req |-> run[r].token,
              next |-> run[r].resp.next, hid |-> run[r].resp.hid, ids |-> run[r].resp.ids,
              final |-> run[r].resp.next = NoToken]

AppendCall(r) == [rpc |-> "append_page", owner |-> r, fence |-> run[r].fence,
                  page |-> PageOf(r)]
CommitCall(r) == [rpc |-> "commit_batch", owner |-> r, fence |-> run[r].fence,
                  batch |-> run[r].batch]
MarkCall(r)   == [rpc |-> "mark_history_expired", owner |-> r, fence |-> run[r].fence,
                  prior |-> run[r].start, anchor |-> run[r].anchor]

Accepted(c) ==
    CASE c.rpc = "append_page"          -> AppendAccepted(c.owner, c.fence, c.page)
      [] c.rpc = "commit_batch"         -> CommitAccepted(c.owner, c.fence, c.batch)
      [] c.rpc = "mark_history_expired" -> MarkAccepted(c.owner, c.fence, c.prior, c.anchor)

Execute(c) ==
    CASE c.rpc = "append_page"          -> AppendEffect(c.page)
      [] c.rpc = "commit_batch"         -> CommitEffect(c.batch)
      [] c.rpc = "mark_history_expired" -> MarkEffect(c.anchor)

AppendPage(r) ==
    /\ At(r, "append_page")
    /\ \/ /\ Accepted(AppendCall(r))
          /\ Execute(AppendCall(r))
          /\ run' = [run EXCEPT ![r].pc = IF run[r].resp.next = NoToken THEN "commit_batch"
                                                                        ELSE "list",
                                ![r].ordinal = @ + 1, ![r].token = run[r].resp.next,
                                ![r].resp = Ended.resp]
       \/ /\ ~Accepted(AppendCall(r))
          /\ End(r)
          /\ UNCHANGED journalVars
    /\ UNCHANGED <<providerVars, late, faults>>

(* A batch already committed answers with its receipt; either way the run  *)
(* is over.                                                                *)
CommitBatch(r) ==
    /\ At(r, "commit_batch")
    /\ \/ Accepted(CommitCall(r)) /\ Execute(CommitCall(r))
       \/ ~Accepted(CommitCall(r)) /\ UNCHANGED journalVars
    /\ End(r)
    /\ UNCHANGED <<providerVars, late, faults>>

(* The run answers reconcile_required, and the orchestrator goes on to the *)
(* reconciliation scan.                                                    *)
MarkHistoryExpired(r) ==
    /\ At(r, "mark_history_expired")
    /\ \/ /\ Accepted(MarkCall(r))
          /\ Execute(MarkCall(r))
          /\ run' = [run EXCEPT ![r] = [Ended EXCEPT !.pc = "acquire", !.mode = "reconciliation"]]
       \/ /\ ~Accepted(MarkCall(r))
          /\ End(r)
          /\ UNCHANGED journalVars
    /\ UNCHANGED <<providerVars, late, faults>>
-----------------------------------------------------------------------------
(* The page budget or the deadline is reached (status "partial"), or the   *)
(* run is aborted or crashes.  The lease stays with its owner.  A write    *)
(* that was sent may reach the database later.                             *)
Stop(r) ==
    /\ ~At(r, "idle")
    /\ Fault
    /\ \/ UNCHANGED late
       \/ At(r, "append_page")          /\ late' = late \union {AppendCall(r)}
       \/ At(r, "commit_batch")         /\ late' = late \union {CommitCall(r)}
       \/ At(r, "mark_history_expired") /\ late' = late \union {MarkCall(r)}
    /\ End(r)
    /\ UNCHANGED <<providerVars, journalVars>>

LateWrite(c) ==
    /\ \/ Accepted(c) /\ Execute(c)
       \/ ~Accepted(c) /\ UNCHANGED journalVars
    /\ late' = late \ {c}
    /\ UNCHANGED <<providerVars, run, faults>>

(* The owner of the lease has a run under way. *)
OwnerAtWork == \E r \in Owners : cursor.owner = r /\ ~At(r, "idle")

LeaseTimesOut ==
    /\ ~OwnerAtWork
    /\ ExpireLease
    /\ UNCHANGED <<providerVars, syncVars>>

LeaseSlips ==
    /\ OwnerAtWork
    /\ Fault
    /\ ExpireLease
    /\ UNCHANGED <<providerVars, run, late>>

Mailbox == ProviderNext /\ UNCHANGED <<journalVars, syncVars>>

Step(r) ==
    \/ Acquire(r) \/ Begin(r) \/ CaptureAnchor(r) \/ List(r)
    \/ HistoryGap(r) \/ AppendPage(r) \/ CommitBatch(r) \/ MarkHistoryExpired(r)

Next ==
    \/ \E r \in Owners : Step(r) \/ Stop(r)
    \/ \E c \in late : LateWrite(c)
    \/ LeaseTimesOut
    \/ LeaseSlips
    \/ Mailbox

(* The cron starts runs again and again, and the platform runs what it     *)
(* started: every run moves on unless it stops.  Time passes: a lease whose*)
(* owner is gone times out.                                                *)
Fairness == (\A r \in Owners : WF_vars(Step(r))) /\ WF_vars(LeaseTimesOut)

Spec == Init /\ [][Next]_vars
FairSpec == Spec /\ Fairness
-----------------------------------------------------------------------------
CommittedBatches == {b \in DOMAIN batches : batches[b].status = "committed"}

(* The ids in the committed pages of batches of the given modes. *)
Observed(modes) ==
    UNION {p.ids : p \in {q \in pages : q.batch \in CommittedBatches
                                       /\ batches[q.batch].mode \in modes}}

ObservedEvents   == Observed({"history"})
ObservedMessages == {log[h].msg : h \in {e \in ObservedEvents : log[e].kind = "added"}}
                      \union Observed({"backfill", "reconciliation"})

(* Between two committed cursors of a mailbox scan, history was not read.  *)
ScannedOver(h) ==
    \E b \in CommittedBatches : /\ batches[b].mode # "history"
                                /\ batches[b].value < h /\ h <= batches[b].committed

TypeOK ==
    /\ cursor \in [value : 0..MaxHistory, version : Nat, status : {"backfill_required", "live",
                    "reconcile_required"}, owner : Owners \union {NoOwner}, fence : Nat, live : BOOLEAN]
    /\ batches \in Seq([mode : Modes, version : Nat, value : 0..MaxHistory,
                        status : {"running", "committed", "failed"}, committed : 0..MaxHistory])
    /\ \A p \in pages : p \in [batch : DOMAIN batches, ordinal : Nat, req : 0..MaxHistory,
                                next : 0..MaxHistory, hid : HistoryIds, ids : SUBSET HistoryIds,
                                final : BOOLEAN]
    /\ \A g \in gaps : g \in [prior : HistoryIds, anchor : HistoryIds,
                              status : {"open", "reconciled_current_mailbox"}]
    /\ log \in Seq(Events) /\ Len(log) \in HistoryIds /\ retained \in 1..(MaxHistory + 1)
    /\ faults \in 0..MaxFaults

(* The cursor never promises what was not read: a committed history batch  *)
(* holds every history record from the cursor it started at to the cursor  *)
(* it committed, and none beyond it, whoever wrote its pages and however   *)
(* often it was resumed (append_gmail_ingest_page, ChainComplete).         *)
HistoryBatchExact ==
    \A b \in CommittedBatches :
        batches[b].mode = "history" =>
            UNION {p.ids : p \in PagesOf(b)} = (batches[b].value + 1)..batches[b].committed

(* Every message that is in the mailbox and is no newer than the cursor is *)
(* known to the journal: a scan whose anchor is read too late, or whose    *)
(* resumed pages carry another anchor, would lose mail for good.           *)
NoLiveMessageMissed ==
    \A m \in Live(log) : m <= cursor.value => m \in ObservedMessages

(* A deletion up to the cursor is in a committed history page, or falls in *)
(* the span a mailbox scan jumped over, where the gap records the loss.    *)
DeletionSeenOrScannedOver ==
    \A h \in 1..cursor.value :
        log[h].kind = "deleted" => h \in ObservedEvents \/ ScannedOver(h)

(* One scan, one anchor: all pages of a backfill or reconciliation carry   *)
(* the anchor its first page was listed under, although the database does  *)
(* not compare them; a run that resumes the batch must reuse it.           *)
ScanKeepsAnchor ==
    \A p, q \in pages :
        p.batch = q.batch /\ batches[p.batch].mode # "history" => p.hid = q.hid

(* There is never more than one batch to resume, and it starts at the      *)
(* cursor: no commit or expiry strands a running batch behind the cursor.  *)
OneRunningBatch ==
    \A b, c \in DOMAIN batches :
        batches[b].status = "running" /\ batches[c].status = "running" =>
            b = c /\ AtCursor(b)

(* A cursor that needs reconciliation has exactly one open gap, from the   *)
(* cursor to an anchor not behind it, so that acquire and begin, which     *)
(* raise an error without it, can never wedge; no other gap stays open.    *)
ReconcileHasGap ==
    IF cursor.status = "reconcile_required"
    THEN \E g \in OpenGaps : g.anchor >= cursor.value /\ \A h \in gaps : h.status = "open" => h = g
    ELSE \A h \in gaps : h.status # "open"

(* Committed batches chain: each starts at the cursor the one before it    *)
(* committed, the first at the empty cursor, and the last one is the       *)
(* cursor: two writers never commit from the same cursor.                  *)
CommitsChain ==
    /\ \A b \in CommittedBatches :
          IF batches[b].version = 0 THEN batches[b].value = 0
          ELSE \E c \in CommittedBatches : /\ batches[c].version = batches[b].version - 1
                                           /\ batches[c].committed = batches[b].value
    /\ \A b, c \in CommittedBatches : batches[b].version = batches[c].version => b = c
    /\ cursor.version = Cardinality(CommittedBatches)

(* The cursor moves forward only, and only with a new version; a lease     *)
(* fence is never handed out twice.                                        *)
CursorNeverRegresses ==
    [][ /\ cursor'.value >= cursor.value
        /\ cursor'.value # cursor.value => cursor'.version = cursor.version + 1
        /\ cursor'.version \in {cursor.version, cursor.version + 1}
        /\ cursor'.owner # cursor.owner /\ cursor'.owner # NoOwner => cursor'.fence > cursor.fence
      ]_cursor

(* What is committed stays as it is: neither a late write nor a run that   *)
(* lost its lease adds to, or changes, a batch that is no longer running.  *)
ClosedBatchesFrozen ==
    [][ \A b \in DOMAIN batches :
          batches[b].status # "running" => batches'[b] = batches[b] /\ PagesOf(b)' = PagesOf(b)
      ]_<<batches, pages>>

(* Once the mailbox is quiet and the faults are over, the runs bring the   *)
(* cursor to the end of the history and keep it there.                     *)
CatchesUp == <>[]~Behind

(* The abstract promise this implements. *)
Coverage == INSTANCE MailboxCoverage WITH position <- cursor.value, known <- ObservedMessages
Covers == Coverage!Spec
=============================================================================
