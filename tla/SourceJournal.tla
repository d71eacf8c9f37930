--------------------------- MODULE SourceJournal ---------------------------
(***************************************************************************)
(* The durable mailbox journal of one Gmail connection: the rows           *)
(* source_cursors, source_ingest_batches, gmail_ingest_pages and           *)
(* gmail_completeness_gaps, and the functions of                           *)
(* 20260709200000_truth_source_observation_journal.sql (append and commit  *)
(* as 20260709241400_truth_gmail_parse_checkpoint.sql redefines them) that *)
(* change them.  A function is one transaction that locks the cursor row   *)
(* first, so each is one atomic operator: an "...Accepted" predicate (its  *)
(* checks) and an effect.                                                  *)
(***************************************************************************)
EXTENDS Integers, Sequences, FiniteSets

CONSTANTS Owners,     \* lease owner ids
          NoOwner     \* lease_owner is null

ASSUME OwnerAssumption == NoOwner \notin Owners

VARIABLES
    cursor,     \* the source_cursors row
    batches,    \* source_ingest_batches, in started_at order
    pages,      \* gmail_ingest_pages: append-only
    gaps        \* gmail_completeness_gaps of type HISTORY_EXPIRED

journalVars == <<cursor, batches, pages, gaps>>

Modes == {"history", "backfill", "reconciliation"}

ModeFor(status) == CASE status = "live"               -> "history"
                     [] status = "backfill_required"  -> "backfill"
                     [] status = "reconcile_required" -> "reconciliation"

(* source_cursors as acquire_source_sync_lease first inserts it *)
JournalInit ==
    /\ cursor = [value |-> 0, version |-> 0, status |-> "backfill_required",
                 owner |-> NoOwner, fence |-> 0, live |-> FALSE]
    /\ batches = << >>
    /\ pages = {}
    /\ gaps = {}

PagesOf(b)   == {p \in pages : p.batch = b}
PageCount(b) == Cardinality(PagesOf(b))
LastPage(b)  == CHOOSE p \in PagesOf(b) : \A q \in PagesOf(b) : q.ordinal <= p.ordinal
FinalPersisted(b) == PagesOf(b) # {} /\ LastPage(b).final

OpenGaps == {g \in gaps : g.status = "open" /\ g.prior = cursor.value}

(* live stands for lease_expires_at > clock_timestamp() *)
LeaseHeld(o, f) == cursor.owner = o /\ cursor.fence = f /\ cursor.live

AtCursor(b) == /\ batches[b].version = cursor.version
               /\ batches[b].value = cursor.value

RunningBatches == {b \in DOMAIN batches : batches[b].status = "running" /\ AtCursor(b)}
-----------------------------------------------------------------------------
(* acquire_source_sync_lease *)
AcquireAccepted(o) ==
    /\ cursor.status = "reconcile_required" => OpenGaps # {}
    /\ cursor.live => cursor.owner = o

AcquireEffect(o) ==
    /\ cursor' = IF cursor.live
                 THEN cursor                \* same owner: only the expiry moves
                 ELSE [cursor EXCEPT !.owner = o, !.fence = @ + 1, !.live = TRUE]
    /\ UNCHANGED <<batches, pages, gaps>>

(* begin_source_ingest_batch: resume the running batch at the cursor, or   *)
(* open one                                                                *)
ResumedBatch == CHOOSE b \in RunningBatches : \A c \in RunningBatches : c <= b

BeginAccepted(o, f, mode) ==
    /\ LeaseHeld(o, f)
    /\ mode = ModeFor(cursor.status)
    /\ mode = "reconciliation" => OpenGaps # {}
    /\ RunningBatches # {} => batches[ResumedBatch].mode = mode

BeginBatch == IF RunningBatches # {} THEN ResumedBatch ELSE Len(batches) + 1

BeginEffect(mode) ==
    /\ batches' = IF RunningBatches # {} THEN batches
                  ELSE Append(batches, [mode |-> mode, version |-> cursor.version,
                                        value |-> cursor.value, status |-> "running",
                                        committed |-> 0])
    /\ UNCHANGED <<cursor, pages, gaps>>
-----------------------------------------------------------------------------
(* append_gmail_ingest_page: a page already there must be the same page *)
AppendAccepted(o, f, page) ==
    /\ LeaseHeld(o, f)
    /\ page.batch \in RunningBatches
    /\ \A p \in PagesOf(page.batch) : p.ordinal = page.ordinal => p = page

AppendEffect(page) ==
    /\ pages' = pages \union {page}
    /\ UNCHANGED <<cursor, batches, gaps>>

(* The checks commit_source_ingest_batch makes on the persisted pages: a   *)
(* gapless chain of tokens from the first page to the one final page.      *)
ChainComplete(b) ==
    LET last == PageCount(b) - 1
    IN  /\ {p.ordinal : p \in PagesOf(b)} = 0..last
        /\ Cardinality({p \in PagesOf(b) : p.final}) = 1
        /\ \A p \in PagesOf(b) :
              /\ p.ordinal = 0 => p.req = 0
              /\ p.ordinal > 0 => \E q \in PagesOf(b) : q.ordinal = p.ordinal - 1 /\ q.next = p.req
              /\ p.final => p.ordinal = last /\ p.next = 0
              /\ ~p.final => p.next # 0

NextCursor(b) == LastPage(b).hid

(* mutant: a commit that checks the pages but not who commits, nor whether *)
(* the batch is still the one at the cursor                                *)
MutantCommitUnfenced(o, f, b) == PagesOf(b) # {} /\ ChainComplete(b)

CommitAccepted(o, f, b) ==
    /\ LeaseHeld(o, f)
    /\ b \in RunningBatches
    /\ PagesOf(b) # {}
    /\ ChainComplete(b)
    /\ NextCursor(b) >= batches[b].value
    /\ batches[b].mode = "reconciliation" => \E g \in OpenGaps : g.anchor = NextCursor(b)

(* mutant: a commit that leaves the gap open *)
MutantCommitLeavesGap(b) ==
    /\ batches' = [batches EXCEPT ![b].status = "committed", ![b].committed = NextCursor(b)]
    /\ cursor' = [cursor EXCEPT !.value = NextCursor(b), !.version = @ + 1, !.status = "live",
                                !.owner = NoOwner, !.live = FALSE]
    /\ UNCHANGED <<pages, gaps>>

CommitEffect(b) ==
    /\ batches' = [batches EXCEPT ![b].status = "committed", ![b].committed = NextCursor(b)]
    /\ cursor' = [cursor EXCEPT !.value = NextCursor(b), !.version = @ + 1, !.status = "live",
                                !.owner = NoOwner, !.live = FALSE]
    /\ gaps' = IF batches[b].mode = "reconciliation"
               THEN {IF g \in OpenGaps /\ g.anchor = NextCursor(b)
                     THEN [g EXCEPT !.status = "reconciled_current_mailbox"] ELSE g : g \in gaps}
               ELSE gaps
    /\ UNCHANGED pages

(* mark_gmail_history_expired *)
MarkAccepted(o, f, prior, anchor) ==
    /\ LeaseHeld(o, f)
    /\ cursor.value = prior
    /\ prior > 0 /\ anchor > 0 /\ anchor >= prior

(* mutant: the unique index takes in the gaps already closed *)
MutantGapsOncePerCursor(anchor) ==
    IF \E g \in gaps : g.prior = cursor.value THEN gaps
    ELSE gaps \union {[prior |-> cursor.value, anchor |-> anchor, status |-> "open"]}

MarkedGaps(anchor) ==       \* on conflict do nothing
    IF OpenGaps # {} THEN gaps
    ELSE gaps \union {[prior |-> cursor.value, anchor |-> anchor, status |-> "open"]}

MarkedCursor ==
    [cursor EXCEPT !.status = "reconcile_required", !.owner = NoOwner, !.live = FALSE]

(* mutant: every batch of the connection is failed *)
MutantMarkFailsAll(anchor) ==
    /\ gaps' = MarkedGaps(anchor)
    /\ batches' = [b \in DOMAIN batches |-> [batches[b] EXCEPT !.status = "failed"]]
    /\ cursor' = MarkedCursor
    /\ UNCHANGED pages

MarkEffect(anchor) ==
    /\ gaps' = MarkedGaps(anchor)
    /\ batches' = [b \in DOMAIN batches |->
                     IF b \in RunningBatches THEN [batches[b] EXCEPT !.status = "failed"]
                                             ELSE batches[b]]
    /\ cursor' = MarkedCursor
    /\ UNCHANGED pages

(* The clock passes lease_expires_at. *)
ExpireLease ==
    /\ cursor.live
    /\ cursor' = [cursor EXCEPT !.live = FALSE]
    /\ UNCHANGED <<batches, pages, gaps>>
=============================================================================
