----------------------- MODULE GmailMailboxSync_proofs -----------------------
(***************************************************************************)
(* What the mailbox journal guarantees for any length of the history, any  *)
(* number of runs and any number of faults: the properties of its rows.    *)
(* What its pages say of the mailbox is shown on top of them, in           *)
(* MailboxCoverage_proofs.                                                 *)
(*                                                                         *)
(* The argument is on the functions of the database: Journal is kept by    *)
(* each of them, whoever calls it and whenever, provided the values in the *)
(* call are of their types.  That the runs send such values needs that the *)
(* last page of a batch exists, from which a resumed scan takes its anchor.*)
(***************************************************************************)
EXTENDS GmailMailboxSync, TLAPS, FiniteSetTheorems, SequenceTheorems, WellFoundedInduction

Positions == 0..MaxHistory

CursorRow == [value : Positions, version : Nat,
              status : {"backfill_required", "live", "reconcile_required"},
              owner : Owners \union {NoOwner}, fence : Nat, live : BOOLEAN]

BatchRow == [mode : Modes, version : Nat, value : Positions,
             status : {"running", "committed", "failed"}, committed : Positions]

PageRow == [batch : Nat, ordinal : Nat, req : Positions, next : Positions,
            hid : HistoryIds, ids : SUBSET HistoryIds, final : BOOLEAN]

GapRow == [prior : HistoryIds, anchor : HistoryIds,
           status : {"open", "reconciled_current_mailbox"}]

JournalTyped ==
    /\ cursor \in CursorRow
    /\ batches \in Seq(BatchRow)
    /\ \A p \in pages : p \in PageRow /\ p.batch \in DOMAIN batches
    /\ IsFiniteSet(pages) /\ \E n \in Nat : \A p \in pages : p.ordinal <= n
    /\ gaps \subseteq GapRow

(* CommitsChain, and where the chain ends: at the cursor. *)
Chain ==
    /\ CommitsChain
    /\ \A b \in CommittedBatches : batches[b].version < cursor.version
    /\ IF cursor.version = 0 THEN cursor.value = 0
       ELSE \E c \in CommittedBatches : /\ batches[c].version = cursor.version - 1
                                        /\ batches[c].committed = cursor.value

(* A batch that can be resumed is of the mode the cursor asks for: a       *)
(* commit that ends a reconciliation is one of a reconciliation batch.     *)
RunningFitsStatus ==
    \A b \in DOMAIN batches :
        batches[b].status = "running" => batches[b].mode = ModeFor(cursor.status)

Journal == JournalTyped /\ OneRunningBatch /\ RunningFitsStatus /\ ReconcileHasGap /\ Chain
-----------------------------------------------------------------------------
(* A bounded, non-empty set of naturals has a greatest element: its image  *)
(* under n - x has a least one.                                            *)
LEMMA GreatestExists ==
    ASSUME NEW S, S \subseteq Nat, S # {}, NEW n \in Nat, \A x \in S : x <= n
    PROVE  \E x \in S : \A y \in S : y <= x
  <1> DEFINE T == {n - x : x \in S}
  <1>1. T \subseteq Nat
    <2> SUFFICES ASSUME NEW x \in S PROVE n - x \in Nat
      OBVIOUS
    <2> QED OBVIOUS
  <1>2. T # {}
    OBVIOUS
  <1>3. PICK t \in T : \A u \in T : ~(<<u, t>> \in OpToRel(<, Nat))
    BY <1>1, <1>2, NatLessThanWellFounded, WFMin
  <1>4. \A u \in T : ~(u < t)
    BY <1>1, <1>3 DEF OpToRel
  <1>5. PICK x \in S : t = n - x
    BY <1>3
  <1>6. ASSUME NEW y \in S PROVE y <= x
    <2>1. ~(n - y < n - x)
      BY <1>4, <1>5
    <2> QED BY <2>1
  <1> QED BY <1>6

(* LastPage(b) is the page it says it is, whenever b has pages. *)
LEMMA LastPageExists ==
    ASSUME JournalTyped, NEW b, PagesOf(b) # {}
    PROVE  LastPage(b) \in PagesOf(b) /\ LastPage(b) \in PageRow
  <1> DEFINE S == {p.ordinal : p \in PagesOf(b)}
  <1>1. PagesOf(b) \subseteq pages /\ \A p \in PagesOf(b) : p \in PageRow /\ p.ordinal \in Nat
    BY DEF JournalTyped, PagesOf, PageRow
  <1>2. PICK n \in Nat : \A p \in pages : p.ordinal <= n
    BY DEF JournalTyped
  <1>3. S \subseteq Nat /\ S # {} /\ \A x \in S : x <= n
    BY <1>1, <1>2
  <1>4. PICK x \in S : \A y \in S : y <= x
    BY <1>2, <1>3, GreatestExists
  <1>5. \E p \in PagesOf(b) : \A q \in PagesOf(b) : q.ordinal <= p.ordinal
    BY <1>4
  <1>6. LastPage(b) \in PagesOf(b)
    BY <1>5 DEF LastPage
  <1> QED BY <1>1, <1>6

(* The pages of a batch can be counted. *)
LEMMA PageCountIsNat ==
    ASSUME JournalTyped, NEW b
    PROVE  PageCount(b) \in Nat
  BY FS_Subset, FS_CardinalityType DEF JournalTyped, PageCount, PagesOf
-----------------------------------------------------------------------------
(* The rows of a batch: what changes them, one lemma per function. *)
LEMMA BatchesTyped ==
    ASSUME JournalTyped
    PROVE  /\ Len(batches) \in Nat /\ DOMAIN batches = 1..Len(batches)
           /\ \A b \in DOMAIN batches : batches[b] \in BatchRow
  BY DEF JournalTyped

(* The committed batches can be counted: the chain needs it to have an     *)
(* end.                                                                    *)
LEMMA CommittedFinite ==
    ASSUME JournalTyped
    PROVE  IsFiniteSet(CommittedBatches) /\ CommittedBatches \subseteq 1..Len(batches)
  <1>1. CommittedBatches \subseteq 1..Len(batches) /\ Len(batches) \in Int
    BY BatchesTyped DEF CommittedBatches
  <1>2. IsFiniteSet(1..Len(batches))
    BY <1>1, FS_Interval
  <1> QED BY <1>1, <1>2, FS_Subset

(* A step that changes neither the batches nor the cursor's value, version *)
(* and status, nor the gaps. *)
LEMMA LeaseStepKeeps ==
    ASSUME Journal, UNCHANGED <<batches, pages, gaps>>, cursor' \in CursorRow,
           cursor'.value = cursor.value, cursor'.version = cursor.version,
           cursor'.status = cursor.status
    PROVE  Journal'
  <1>1. JournalTyped'
    BY DEF Journal, JournalTyped
  <1>2. OneRunningBatch'
    BY DEF Journal, OneRunningBatch, AtCursor
  <1>5. RunningFitsStatus'
    BY DEF Journal, RunningFitsStatus, ModeFor
  <1>3. ReconcileHasGap'
    BY DEF Journal, ReconcileHasGap, OpenGaps
  <1>4. Chain'
    BY DEF Journal, Chain, CommitsChain, CommittedBatches
  <1> QED BY <1>1, <1>2, <1>3, <1>4, <1>5 DEF Journal

(* acquire_source_sync_lease keeps the journal: it takes the lease, and    *)
(* nothing the journal says of batches depends on who holds it.            *)
LEMMA AcquireKeeps ==
    ASSUME Journal, NEW o \in Owners, AcquireAccepted(o), AcquireEffect(o)
    PROVE  Journal'
  <1>1. cursor \in CursorRow
    BY DEF Journal, JournalTyped
  <1>2. /\ cursor' \in CursorRow /\ cursor'.value = cursor.value
        /\ cursor'.version = cursor.version /\ cursor'.status = cursor.status
    <2>1. CASE cursor.live
      BY <1>1, <2>1 DEF AcquireEffect
    <2>2. CASE ~cursor.live
      <3> DEFINE v == cursor.fence + 1
      <3>1. cursor' = [cursor EXCEPT !.owner = o, !.fence = v, !.live = TRUE]
        BY <2>2 DEF AcquireEffect
      <3>2. v \in Nat
        BY <1>1 DEF CursorRow
      <3> HIDE DEF v
      <3> QED BY <1>1, <3>1, <3>2 DEF CursorRow
    <2> QED BY <2>1, <2>2
  <1> QED BY <1>2, LeaseStepKeeps DEF AcquireEffect

(* So does the end of a lease. *)
LEMMA ExpireKeeps ==
    ASSUME Journal, ExpireLease
    PROVE  Journal'
  <1>1. cursor \in CursorRow
    BY DEF Journal, JournalTyped
  <1>2. /\ cursor' \in CursorRow /\ cursor'.value = cursor.value
        /\ cursor'.version = cursor.version /\ cursor'.status = cursor.status
    BY <1>1 DEF ExpireLease, CursorRow
  <1> QED BY <1>2, LeaseStepKeeps DEF ExpireLease

(* A batch is opened only when none runs: whatever runs is at the cursor. *)
LEMMA BeginKeeps ==
    ASSUME Journal, NEW o, NEW f, NEW mode \in Modes, BeginAccepted(o, f, mode),
           BeginEffect(mode)
    PROVE  Journal'
  <1>1. CASE RunningBatches # {}
    <2>1. UNCHANGED <<cursor, batches, pages, gaps>>
      BY <1>1 DEF BeginEffect
    <2> QED BY <2>1, LeaseStepKeeps DEF Journal, JournalTyped
  <1>2. CASE RunningBatches = {}
    <2> DEFINE new == [mode |-> mode, version |-> cursor.version, value |-> cursor.value,
                       status |-> "running", committed |-> 0]
               n == Len(batches) + 1
    <2>1. batches' = Append(batches, new) /\ UNCHANGED <<cursor, pages, gaps>>
      BY <1>2 DEF BeginEffect
    <2>2. new \in BatchRow
      BY MaxHistoryAssumption DEF Journal, JournalTyped, CursorRow, BatchRow, Positions
    <2>3. batches \in Seq(BatchRow)
      BY DEF Journal, JournalTyped
    <2>4. /\ batches' \in Seq(BatchRow) /\ DOMAIN batches' = DOMAIN batches \union {n}
          /\ n \notin DOMAIN batches /\ batches'[n] = new
          /\ \A b \in DOMAIN batches : batches'[b] = batches[b]
      <3> HIDE DEF new
      <3> QED BY <2>1, <2>2, <2>3
    <2>5. JournalTyped'
      BY <2>1, <2>4 DEF Journal, JournalTyped
    <2>6. \A b \in DOMAIN batches : batches[b].status # "running"
      BY <1>2 DEF Journal, OneRunningBatch, RunningBatches
    <2>7. OneRunningBatch'
      BY <2>1, <2>4, <2>6 DEF OneRunningBatch, AtCursor
    <2>8. ReconcileHasGap'
      BY <2>1 DEF Journal, ReconcileHasGap, OpenGaps
    <2>12. RunningFitsStatus'
      <3>1. mode = ModeFor(cursor.status) /\ ModeFor(cursor.status)' = ModeFor(cursor.status)
        BY <2>1 DEF BeginAccepted, ModeFor
      <3>2. new.mode = mode
        OBVIOUS
      <3> HIDE DEF new
      <3> QED BY <2>4, <2>6, <3>1, <3>2 DEF RunningFitsStatus
    <2>9. CommittedBatches' = CommittedBatches
      BY <2>4 DEF CommittedBatches
    <2>10. \A b \in CommittedBatches : b \in DOMAIN batches /\ batches'[b] = batches[b]
      BY <2>4 DEF CommittedBatches
    <2>11. Chain'
      BY <2>1, <2>9, <2>10 DEF Journal, Chain, CommitsChain
    <2> QED BY <2>5, <2>7, <2>8, <2>11, <2>12 DEF Journal
  <1> QED BY <1>1, <1>2

(* append_gmail_ingest_page adds one page to a batch that exists. *)
LEMMA AppendKeeps ==
    ASSUME Journal, NEW o, NEW f, NEW page \in PageRow,
           AppendAccepted(o, f, page), AppendEffect(page)
    PROVE  Journal'
  <1>1. pages' = pages \union {page} /\ UNCHANGED <<cursor, batches, gaps>>
    BY DEF AppendEffect
  <1>2. page.batch \in DOMAIN batches
    BY DEF AppendAccepted, RunningBatches
  <1>3. IsFiniteSet(pages')
    BY <1>1, FS_AddElement DEF Journal, JournalTyped
  <1>4. \E n \in Nat : \A p \in pages' : p.ordinal <= n
    <2>1. PICK n \in Nat : \A p \in pages : p.ordinal <= n
      BY DEF Journal, JournalTyped
    <2> DEFINE m == IF page.ordinal <= n THEN n ELSE page.ordinal
    <2>2. m \in Nat /\ page.ordinal \in Nat /\ \A p \in pages : p.ordinal \in Nat
      BY DEF Journal, JournalTyped, PageRow
    <2>3. \A p \in pages' : p.ordinal <= m
      BY <1>1, <2>1, <2>2
    <2> QED BY <2>2, <2>3
  <1>5. JournalTyped'
    BY <1>1, <1>2, <1>3, <1>4 DEF Journal, JournalTyped
  <1>6. OneRunningBatch' /\ RunningFitsStatus' /\ ReconcileHasGap'
    BY <1>1 DEF Journal, OneRunningBatch, RunningFitsStatus, ModeFor, AtCursor, ReconcileHasGap,
                OpenGaps
  <1>7. Chain'
    BY <1>1 DEF Journal, Chain, CommitsChain, CommittedBatches
  <1> QED BY <1>5, <1>6, <1>7 DEF Journal
-----------------------------------------------------------------------------
(* What a commit reads and writes. *)
LEMMA CommitStep ==
    ASSUME Journal, NEW o, NEW f, NEW b, CommitAccepted(o, f, b), CommitEffect(b)
    PROVE  /\ b \in DOMAIN batches /\ batches[b].status = "running" /\ AtCursor(b)
           /\ NextCursor(b) \in HistoryIds /\ NextCursor(b) >= cursor.value
           /\ cursor' \in CursorRow
           /\ cursor'.value = NextCursor(b) /\ cursor'.version = cursor.version + 1
           /\ cursor'.status = "live" /\ cursor'.owner = NoOwner
           /\ batches' \in Seq(BatchRow) /\ DOMAIN batches' = DOMAIN batches
           /\ \A c \in DOMAIN batches : c # b => batches'[c] = batches[c]
           /\ batches'[b].status = "committed" /\ batches'[b].committed = NextCursor(b)
           /\ batches'[b].version = cursor.version /\ batches'[b].value = cursor.value
  <1> DEFINE n == NextCursor(b)
  <1>1. b \in DOMAIN batches /\ batches[b].status = "running" /\ AtCursor(b)
    BY DEF CommitAccepted, RunningBatches
  <1>2. n \in HistoryIds /\ n >= cursor.value
    <2>1. LastPage(b) \in PageRow
      BY LastPageExists DEF CommitAccepted, Journal
    <2>2. batches[b].value = cursor.value
      BY <1>1 DEF AtCursor
    <2> QED BY <2>1, <2>2 DEF NextCursor, CommitAccepted, PageRow
  <1>3. /\ batches' = [batches EXCEPT ![b].status = "committed", ![b].committed = n]
        /\ cursor' = [cursor EXCEPT !.value = n, !.version = @ + 1, !.status = "live",
                                    !.owner = NoOwner, !.live = FALSE]
    BY DEF CommitEffect
  <1>4. n \in Positions
    BY <1>2, MaxHistoryAssumption DEF HistoryIds, Positions
  <1> HIDE DEF n
  <1>5. cursor \in CursorRow /\ batches \in Seq(BatchRow) /\ batches[b] \in BatchRow
    BY <1>1 DEF Journal, JournalTyped
  <1>6. /\ cursor' \in CursorRow /\ cursor'.value = n /\ cursor'.version = cursor.version + 1
        /\ cursor'.status = "live" /\ cursor'.owner = NoOwner
    <2> DEFINE v == cursor.version + 1
    <2>1. v \in Nat
      BY <1>5 DEF CursorRow
    <2>2. cursor' = [cursor EXCEPT !.value = n, !.version = v, !.status = "live",
                                   !.owner = NoOwner, !.live = FALSE]
      BY <1>3
    <2> HIDE DEF v
    <2>3. /\ cursor' \in CursorRow /\ cursor'.value = n /\ cursor'.version = v
          /\ cursor'.status = "live" /\ cursor'.owner = NoOwner
      BY <1>4, <1>5, <2>1, <2>2 DEF CursorRow
    <2> QED BY <2>3 DEF v
  <1> DEFINE done == [batches[b] EXCEPT !.status = "committed", !.committed = n]
  <1>7. /\ done \in BatchRow /\ done.status = "committed" /\ done.committed = n
        /\ done.version = batches[b].version /\ done.value = batches[b].value
    BY <1>4, <1>5 DEF BatchRow
  <1>8. batches' = [batches EXCEPT ![b] = done]
    BY <1>3, <1>5
  <1> HIDE DEF done
  <1>9. /\ batches' \in Seq(BatchRow) /\ DOMAIN batches' = DOMAIN batches /\ batches'[b] = done
        /\ \A c \in DOMAIN batches : c # b => batches'[c] = batches[c]
    BY <1>1, <1>5, <1>7, <1>8
  <1> QED BY <1>1, <1>2, <1>6, <1>7, <1>9 DEF AtCursor, n

(* commit_source_ingest_batch extends the chain by the batch it closes,    *)
(* moves the cursor to its end and closes the gaps of a reconciliation.    *)
LEMMA CommitKeeps ==
    ASSUME Journal, NEW o, NEW f, NEW b, CommitAccepted(o, f, b), CommitEffect(b)
    PROVE  Journal'
  <1>1. /\ b \in DOMAIN batches /\ batches[b].status = "running" /\ AtCursor(b)
        /\ NextCursor(b) \in HistoryIds /\ NextCursor(b) >= cursor.value
        /\ cursor' \in CursorRow
        /\ cursor'.value = NextCursor(b) /\ cursor'.version = cursor.version + 1
        /\ cursor'.status = "live"
        /\ batches' \in Seq(BatchRow) /\ DOMAIN batches' = DOMAIN batches
        /\ \A c \in DOMAIN batches : c # b => batches'[c] = batches[c]
        /\ batches'[b].status = "committed" /\ batches'[b].committed = NextCursor(b)
        /\ batches'[b].version = cursor.version /\ batches'[b].value = cursor.value
    BY CommitStep
  <1>2. pages' = pages /\ gaps' = IF batches[b].mode = "reconciliation"
               THEN {IF g \in OpenGaps /\ g.anchor = NextCursor(b)
                     THEN [g EXCEPT !.status = "reconciled_current_mailbox"] ELSE g : g \in gaps}
               ELSE gaps
    BY DEF CommitEffect
  <1>3. cursor \in CursorRow
    BY DEF Journal, JournalTyped
  <1>4. JournalTyped'
    <2>1. gaps' \subseteq GapRow
      <3>1. gaps \subseteq GapRow
        BY DEF Journal, JournalTyped
      <3>2. \A g \in gaps : [g EXCEPT !.status = "reconciled_current_mailbox"] \in GapRow
        BY <3>1 DEF GapRow
      <3> QED BY <1>2, <3>1, <3>2
    <2> QED BY <1>1, <1>2, <2>1 DEF Journal, JournalTyped
  <1>5. \A c \in DOMAIN batches : c # b => batches[c].status # "running"
    BY <1>1 DEF Journal, OneRunningBatch
  <1>6. OneRunningBatch' /\ RunningFitsStatus'
    BY <1>1, <1>5 DEF OneRunningBatch, RunningFitsStatus
  <1>7. ReconcileHasGap'
    <2>1. CASE cursor.status # "reconcile_required"
      <3>1. \A g \in gaps : g.status # "open"
        BY <2>1 DEF Journal, ReconcileHasGap
      <3>2. gaps' = gaps
        BY <1>2, <3>1 DEF OpenGaps
      <3> QED BY <1>1, <3>1, <3>2 DEF ReconcileHasGap
    <2>2. CASE cursor.status = "reconcile_required"
      <3>1. batches[b].mode = "reconciliation"
        BY <1>1, <2>2 DEF Journal, RunningFitsStatus, ModeFor
      <3>2. \A g \in gaps : g.status = "open" => g \in OpenGaps /\ g.anchor = NextCursor(b)
        BY <2>2, <3>1 DEF CommitAccepted, Journal, ReconcileHasGap, OpenGaps
      <3>3. ASSUME NEW h \in gaps' PROVE h.status # "open"
        <4>1. PICK g \in gaps : h = IF g \in OpenGaps /\ g.anchor = NextCursor(b)
                                   THEN [g EXCEPT !.status = "reconciled_current_mailbox"] ELSE g
          BY <1>2, <3>1
        <4>2. g \in GapRow
          BY DEF Journal, JournalTyped
        <4> QED BY <3>2, <4>1, <4>2 DEF GapRow
      <3> QED BY <1>1, <3>3 DEF ReconcileHasGap
    <2> QED BY <2>1, <2>2
  <1>8. CommittedBatches' = CommittedBatches \union {b} /\ b \notin CommittedBatches
    BY <1>1 DEF CommittedBatches
  <1>9. Chain'
    <2>1. \A c \in CommittedBatches : batches'[c] = batches[c] /\ c \in DOMAIN batches
                                      /\ batches[c].version < cursor.version
                                      /\ batches[c].version \in Nat
      BY <1>1, <1>8, BatchesTyped DEF CommittedBatches, Journal, Chain, BatchRow
    <2>2. Cardinality(CommittedBatches') = Cardinality(CommittedBatches) + 1
      BY <1>8, CommittedFinite, FS_AddElement DEF Journal
    <2>3. cursor'.version = Cardinality(CommittedBatches')
      BY <1>1, <2>2 DEF Journal, Chain, CommitsChain
    <2>4. \A c \in CommittedBatches' :
             IF batches'[c].version = 0 THEN batches'[c].value = 0
             ELSE \E d \in CommittedBatches' : /\ batches'[d].version = batches'[c].version - 1
                                               /\ batches'[d].committed = batches'[c].value
      <3>1. ASSUME NEW c \in CommittedBatches
            PROVE  IF batches'[c].version = 0 THEN batches'[c].value = 0
                   ELSE \E d \in CommittedBatches' : /\ batches'[d].version = batches'[c].version - 1
                                                     /\ batches'[d].committed = batches'[c].value
        BY <1>8, <2>1 DEF Journal, Chain, CommitsChain
      <3>2. IF batches'[b].version = 0 THEN batches'[b].value = 0
            ELSE \E d \in CommittedBatches' : /\ batches'[d].version = batches'[b].version - 1
                                              /\ batches'[d].committed = batches'[b].value
        BY <1>1, <1>8, <2>1 DEF Journal, Chain
      <3> QED BY <1>8, <3>1, <3>2
    <2>5. \A c, d \in CommittedBatches' : batches'[c].version = batches'[d].version => c = d
      BY <1>1, <1>3, <1>8, <2>1 DEF Journal, Chain, CommitsChain, CursorRow
    <2>6. \A c \in CommittedBatches' : batches'[c].version < cursor'.version
      BY <1>1, <1>3, <1>8, <2>1 DEF CursorRow
    <2>7. cursor'.version # 0 /\ b \in CommittedBatches' /\ batches'[b].version = cursor'.version - 1
      BY <1>1, <1>3, <1>8 DEF CursorRow
    <2> QED BY <1>1, <2>3, <2>4, <2>5, <2>6, <2>7 DEF Chain, CommitsChain
  <1> QED BY <1>4, <1>6, <1>7, <1>9 DEF Journal

(* An expiry fails the one batch that runs, and leaves one gap open: the   *)
(* one that was, or a new one.                                             *)
LEMMA MarkKeeps ==
    ASSUME Journal, NEW o, NEW f, NEW prior, NEW anchor \in Positions,
           MarkAccepted(o, f, prior, anchor), MarkEffect(anchor)
    PROVE  Journal'
  <1>1. /\ gaps' = MarkedGaps(anchor) /\ pages' = pages
        /\ batches' = [b \in DOMAIN batches |->
                         IF b \in RunningBatches THEN [batches[b] EXCEPT !.status = "failed"]
                                                 ELSE batches[b]]
        /\ cursor' = [cursor EXCEPT !.status = "reconcile_required", !.owner = NoOwner,
                                    !.live = FALSE]
    BY DEF MarkEffect, MarkedCursor
  <1>2. cursor \in CursorRow /\ batches \in Seq(BatchRow) /\ gaps \subseteq GapRow
    BY DEF Journal, JournalTyped
  <1>3. /\ cursor' \in CursorRow /\ cursor'.status = "reconcile_required"
        /\ cursor'.value = cursor.value /\ cursor'.version = cursor.version
    BY <1>1, <1>2 DEF CursorRow
  <1>4. \A b \in DOMAIN batches : /\ batches'[b] \in BatchRow
                                  /\ batches'[b].status # "running"
                                  /\ batches[b].status # "running" => batches'[b] = batches[b]
                                  /\ batches[b].status = "running" => batches'[b].status = "failed"
    <2>1. \A b \in DOMAIN batches : batches[b].status = "running" <=> b \in RunningBatches
      BY DEF Journal, OneRunningBatch, RunningBatches
    <2> SUFFICES ASSUME NEW b \in DOMAIN batches
                 PROVE  /\ batches'[b] \in BatchRow
                        /\ batches'[b].status # "running"
                        /\ batches[b].status # "running" => batches'[b] = batches[b]
                        /\ batches[b].status = "running" => batches'[b].status = "failed"
      OBVIOUS
    <2>2. batches[b] \in BatchRow
      BY <1>2
    <2>3. CASE b \in RunningBatches
      <3>1. batches'[b] = [batches[b] EXCEPT !.status = "failed"]
        BY <1>1, <2>3
      <3> QED BY <2>1, <2>2, <2>3, <3>1 DEF BatchRow
    <2>4. CASE b \notin RunningBatches
      BY <1>1, <2>1, <2>2, <2>4
    <2> QED BY <2>3, <2>4
  <1>5. batches' \in Seq(BatchRow) /\ DOMAIN batches' = DOMAIN batches
    <2>1. DOMAIN batches = 1..Len(batches) /\ Len(batches) \in Nat
      BY <1>2
    <2>2. batches' \in [1..Len(batches) -> BatchRow]
      BY <1>1, <1>4, <2>1
    <2> QED BY <2>1, <2>2, SeqDef
  <1>6. gaps' \subseteq GapRow /\ ReconcileHasGap'
    <2>1. cursor.value \in HistoryIds /\ anchor \in HistoryIds /\ anchor >= cursor.value
      BY <1>2, MaxHistoryAssumption DEF MarkAccepted, CursorRow, Positions, HistoryIds
    <2>2. CASE OpenGaps # {}
      <3>1. gaps' = gaps /\ OpenGaps' = OpenGaps
        BY <1>1, <1>3, <2>2 DEF MarkedGaps, OpenGaps
      <3>2. cursor.status = "reconcile_required"
        BY <2>2 DEF Journal, ReconcileHasGap, OpenGaps
      <3> QED BY <1>2, <1>3, <3>1, <3>2 DEF Journal, ReconcileHasGap
    <2>3. CASE OpenGaps = {}
      <3> DEFINE g == [prior |-> cursor.value, anchor |-> anchor, status |-> "open"]
      <3>1. gaps' = gaps \union {g}
        BY <1>1, <2>3 DEF MarkedGaps
      <3>2. g \in GapRow /\ g.status = "open" /\ g.prior = cursor.value /\ g.anchor = anchor
        BY <2>1 DEF GapRow
      <3> HIDE DEF g
      <3>3. \A h \in gaps : h.status # "open"
        BY <2>3 DEF Journal, ReconcileHasGap
      <3>4. g \in OpenGaps'
        BY <1>3, <3>1, <3>2 DEF OpenGaps
      <3> QED BY <1>2, <1>3, <2>1, <3>1, <3>2, <3>3, <3>4 DEF ReconcileHasGap
    <2> QED BY <2>2, <2>3
  <1>7. JournalTyped'
    BY <1>1, <1>3, <1>5, <1>6 DEF Journal, JournalTyped
  <1>8. OneRunningBatch' /\ RunningFitsStatus'
    BY <1>4, <1>5 DEF OneRunningBatch, RunningFitsStatus
  <1>9. CommittedBatches' = CommittedBatches
        /\ \A b \in CommittedBatches : b \in DOMAIN batches /\ batches'[b] = batches[b]
    BY <1>4, <1>5 DEF CommittedBatches
  <1>10. Chain'
    BY <1>3, <1>9 DEF Journal, Chain, CommitsChain
  <1> QED BY <1>6, <1>7, <1>8, <1>10 DEF Journal
-----------------------------------------------------------------------------
(* The calls of the runs, and their local variables. *)
ProviderTyped ==
    log \in Seq(Events) /\ Len(log) \in HistoryIds /\ retained \in 1..(MaxHistory + 1)

RunRow == [pc : {"idle", "acquire", "begin", "capture_profile_anchor", "list", "append_page",
                 "commit_batch", "mark_history_expired"},
           mode : Modes, fence : Nat, start : Positions, batch : Nat, ordinal : Nat,
           token : Positions, anchor : Positions,
           resp : [next : Positions, hid : Positions, ids : SUBSET HistoryIds]]

RunTyped(x) ==
    /\ x \in RunRow
    /\ x.pc = "append_page" => x.resp.hid \in HistoryIds
    /\ x.pc \in {"list", "append_page"} /\ x.mode # "history" => x.anchor \in HistoryIds

RunsTyped == run \in [Owners -> RunRow] /\ \A r \in Owners : RunTyped(run[r])

CallTyped(c) ==
    /\ c.rpc \in {"append_page", "commit_batch", "mark_history_expired"}
    /\ c.rpc = "append_page" => c.page \in PageRow
    /\ c.rpc = "mark_history_expired" => c.anchor \in Positions

LateTyped == \A c \in late : CallTyped(c)

IInv == Journal /\ ProviderTyped /\ RunsTyped /\ LateTyped /\ faults \in 0..MaxFaults

(* Whoever makes a call and whenever it is executed, the journal keeps. *)
LEMMA ExecuteKeeps ==
    ASSUME Journal, NEW c, CallTyped(c), Accepted(c), Execute(c)
    PROVE  Journal'
  <1>1. CASE c.rpc = "append_page"
    BY <1>1, AppendKeeps DEF Accepted, Execute, CallTyped
  <1>2. CASE c.rpc = "commit_batch"
    BY <1>2, CommitKeeps DEF Accepted, Execute
  <1>3. CASE c.rpc = "mark_history_expired"
    BY <1>3, MarkKeeps DEF Accepted, Execute, CallTyped
  <1> QED BY <1>1, <1>2, <1>3 DEF CallTyped

(* What a run sends to the database is of its type, for a run that is. *)
LEMMA CallsAreTyped ==
    ASSUME NEW r \in Owners, RunTyped(run[r])
    PROVE  /\ At(r, "append_page") => CallTyped(AppendCall(r))
           /\ CallTyped(CommitCall(r))
           /\ CallTyped(MarkCall(r))
  <1>1. run[r] \in RunRow /\ (At(r, "append_page") => run[r].resp.hid \in HistoryIds)
    BY DEF RunTyped, At
  <1>2. ASSUME At(r, "append_page") PROVE PageOf(r) \in PageRow
    <2>1. (run[r].resp.next = NoToken) \in BOOLEAN
      OBVIOUS
    <2> QED BY <1>1, <1>2, <2>1 DEF PageOf, PageRow, RunRow
  <1>3. run[r].anchor \in Positions
    BY <1>1 DEF RunRow
  <1> QED BY <1>2, <1>3 DEF CallTyped, AppendCall, CommitCall, MarkCall

(* A run that has not started, or is over, is of its type. *)
LEMMA EndedTyped == RunTyped(Ended)
  BY MaxHistoryAssumption DEF RunTyped, Ended, RunRow, Modes, Positions, HistoryIds, NoToken

(* A step of one run that leaves it typed. *)
LEMMA OneRunSteps ==
    ASSUME RunsTyped, NEW r \in Owners, NEW x, RunTyped(x), run' = [run EXCEPT ![r] = x]
    PROVE  RunsTyped'
  BY DEF RunsTyped, RunTyped

(* So are the answers of Gmail, which the run keeps. *)
LEMMA ResponsesTyped ==
    ASSUME ProviderTyped, NEW start \in Positions, NEW token \in Positions
    PROVE  /\ \A x \in HistoryResponses(start, token) :
                 x.next \in Positions /\ x.hid \in HistoryIds /\ x.ids \in SUBSET HistoryIds
           /\ \A x \in MailboxResponses(token) :
                 x.next \in Positions /\ x.ids \in SUBSET HistoryIds
  <1>1. HistoryId \in HistoryIds /\ HistoryIds = 1..MaxHistory /\ Positions = 0..MaxHistory
        /\ NoToken = 0 /\ MaxHistory \in Nat
    BY MaxHistoryAssumption DEF ProviderTyped, HistoryId, HistoryIds, Positions, NoToken
  <1>2. ASSUME NEW x \in HistoryResponses(start, token)
        PROVE  x.next \in Positions /\ x.hid \in HistoryIds /\ x.ids \in SUBSET HistoryIds
    <2> DEFINE from == IF token = NoToken THEN start ELSE token
    <2>1. from \in Positions
      OBVIOUS
    <2>2. PICK to \in (from + 1)..HistoryId \union {HistoryId} :
             x = [next |-> IF to = HistoryId THEN NoToken ELSE to,
                  hid |-> HistoryId, ids |-> (from + 1)..to]
      BY <1>2 DEF HistoryResponses
    <2>3. to \in HistoryIds /\ (from + 1)..to \subseteq HistoryIds
      BY <1>1, <2>1, <2>2
    <2> QED BY <1>1, <2>2, <2>3
  <1>3. ASSUME NEW x \in MailboxResponses(token)
        PROVE  x.next \in Positions /\ x.ids \in SUBSET HistoryIds
    <2> DEFINE rest == {m \in Live(log) : token = NoToken \/ m < token}
    <2>1. rest \subseteq HistoryIds
      <3>1. \A i \in DOMAIN log : log[i] \in Events
        BY DEF ProviderTyped
      <3>2. Live(log) \subseteq HistoryIds
        BY <3>1 DEF Live, Added, Events
      <3> QED BY <3>2
    <2>2. CASE rest = {}
      BY <1>1, <1>3, <2>2 DEF MailboxResponses
    <2>3. CASE rest # {}
      <3>1. PICK c \in rest : x = [next |-> IF \E m \in rest : m < c THEN c ELSE NoToken,
                                   ids |-> {m \in rest : m >= c}]
        BY <1>3, <2>3 DEF MailboxResponses
      <3> DEFINE next == IF \E m \in rest : m < c THEN c ELSE NoToken
                 ids == {m \in rest : m >= c}
      <3>2. next \in Positions
        BY <1>1, <2>1
      <3>3. ids \in SUBSET HistoryIds
        BY <2>1
      <3>4. x = [next |-> next, ids |-> ids]
        BY <3>1
      <3> HIDE DEF next, ids
      <3> QED BY <3>2, <3>3, <3>4
    <2> QED BY <2>2, <2>3
  <1> QED BY <1>2, <1>3

(* The anchor of a scan is one of the mailbox's history ids: that of the   *)
(* gap, that of the pages there already are, or, when it is 0, one to be   *)
(* captured before the first page is listed.                               *)
LEMMA AnchorsTyped ==
    ASSUME Journal, NEW o, NEW f, NEW mode \in Modes, BeginAccepted(o, f, mode), NEW b \in Nat
    PROVE  /\ ReceiptAnchor(mode, b) \in Positions
           /\ mode = "reconciliation" => ReceiptAnchor(mode, b) \in HistoryIds
           /\ mode = "backfill" /\ ReceiptAnchor(mode, b) # 0 => ReceiptAnchor(mode, b) \in HistoryIds
           /\ PagesOf(b) # {} => LastPage(b).next \in Positions
  <1>1. HistoryIds \subseteq Positions /\ 0 \in Positions
    BY MaxHistoryAssumption DEF HistoryIds, Positions
  <1>2. PagesOf(b) # {} => LastPage(b).next \in Positions /\ LastPage(b).hid \in HistoryIds
    BY LastPageExists DEF Journal, PageRow
  <1>3. CASE mode = "reconciliation"
    <2>1. OpenGaps # {} /\ OpenGaps \subseteq GapRow
      BY <1>3 DEF BeginAccepted, OpenGaps, Journal, JournalTyped
    <2>2. (CHOOSE g \in OpenGaps : TRUE) \in OpenGaps
      BY <2>1
    <2>3. ReceiptAnchor(mode, b) = (CHOOSE g \in OpenGaps : TRUE).anchor
      BY <1>3 DEF ReceiptAnchor
    <2>4. ReceiptAnchor(mode, b) \in HistoryIds
      BY <2>1, <2>2, <2>3 DEF GapRow
    <2> QED BY <1>1, <1>2, <1>3, <2>4
  <1>4. CASE mode # "reconciliation"
    BY <1>1, <1>2, <1>4 DEF ReceiptAnchor
  <1> QED BY <1>3, <1>4
-----------------------------------------------------------------------------
(* The invariant holds of an empty journal and a mailbox of one message. *)
LEMMA InitInv == Init => IInv
  <1> SUFFICES ASSUME Init PROVE IInv
    OBVIOUS
  <1>1. ProviderTyped
    <2>1. log = <<[kind |-> "added", msg |-> 1]>> /\ retained = 1
      BY DEF Init, ProviderInit
    <2>2. [kind |-> "added", msg |-> 1] \in Events
      BY MaxHistoryAssumption DEF Events, HistoryIds
    <2> QED BY <2>1, <2>2, MaxHistoryAssumption DEF ProviderTyped, HistoryIds
  <1>2. /\ cursor = [value |-> 0, version |-> 0, status |-> "backfill_required",
                     owner |-> NoOwner, fence |-> 0, live |-> FALSE]
        /\ batches = << >> /\ pages = {} /\ gaps = {}
    BY DEF Init, JournalInit
  <1>3. JournalTyped
    <2>1. cursor \in CursorRow
      BY <1>2, MaxHistoryAssumption DEF CursorRow, Positions
    <2> QED BY <1>2, <2>1, FS_EmptySet DEF JournalTyped
  <1>4. DOMAIN batches = {} /\ CommittedBatches = {}
    BY <1>2 DEF CommittedBatches
  <1>5. OneRunningBatch /\ RunningFitsStatus /\ ReconcileHasGap
    BY <1>2, <1>4 DEF OneRunningBatch, RunningFitsStatus, ReconcileHasGap
  <1>6. Chain
    BY <1>2, <1>4, FS_EmptySet DEF Chain, CommitsChain
  <1>7. RunsTyped
    BY EndedTyped DEF Init, RunsTyped, RunTyped
  <1>8. LateTyped /\ faults \in 0..MaxFaults
    BY MaxFaultsAssumption DEF Init, LateTyped
  <1> QED BY <1>1, <1>3, <1>5, <1>6, <1>7, <1>8 DEF IInv, Journal

(* The mailbox stays of its type, whatever is added, deleted or forgotten. *)
LEMMA ProviderKeeps ==
    ASSUME ProviderTyped, ProviderNext
    PROVE  ProviderTyped'
  <1>1. CASE MessageAdded
    <2>1. [kind |-> "added", msg |-> HistoryId + 1] \in Events
      <3>1. HistoryId + 1 \in HistoryIds
        BY <1>1, MaxHistoryAssumption DEF MessageAdded, ProviderTyped, HistoryId, HistoryIds
      <3> QED BY <3>1 DEF Events
    <2> QED BY <1>1, <2>1, MaxHistoryAssumption
            DEF MessageAdded, ProviderTyped, HistoryId, HistoryIds
  <1>2. CASE MessageDeleted
    <2>1. PICK m \in Live(log) : log' = Append(log, [kind |-> "deleted", msg |-> m])
      BY <1>2 DEF MessageDeleted
    <2>2. m \in HistoryIds
      <3>1. \A i \in DOMAIN log : log[i] \in Events
        BY DEF ProviderTyped
      <3> QED BY <3>1 DEF Live, Added, Events
    <2>3. [kind |-> "deleted", msg |-> m] \in Events
      BY <2>2 DEF Events
    <2> QED BY <1>2, <2>1, <2>3, MaxHistoryAssumption
            DEF MessageDeleted, ProviderTyped, HistoryId, HistoryIds
  <1>3. CASE HistoryForgotten
    BY <1>3, MaxHistoryAssumption DEF HistoryForgotten, ProviderTyped, HistoryId, HistoryIds
  <1> QED BY <1>1, <1>2, <1>3 DEF ProviderNext

(* No step uses more faults than there are. *)
LEMMA FaultKeeps == faults \in 0..MaxFaults /\ (Fault \/ UNCHANGED faults) => faults' \in 0..MaxFaults
  BY MaxFaultsAssumption DEF Fault

(* The steps of a run. *)
LEMMA AcquireInv ==
    ASSUME IInv, NEW r \in Owners, Acquire(r)
    PROVE  IInv'
  <1> DEFINE mode == ModeFor(cursor.status)
             fence == IF cursor.live THEN cursor.fence ELSE cursor.fence + 1
             granted == [run[r] EXCEPT !.fence = fence, !.start = cursor.value]
  <1>1. /\ Journal /\ ProviderTyped /\ RunsTyped /\ LateTyped /\ faults \in 0..MaxFaults
        /\ cursor \in CursorRow
    BY DEF IInv, Journal, JournalTyped
  <1>2. ProviderTyped' /\ LateTyped' /\ faults' \in 0..MaxFaults
    BY <1>1, FaultKeeps DEF Acquire, Started, ProviderTyped, providerVars, LateTyped, HistoryIds
  <1>3. mode \in Modes
    BY <1>1 DEF ModeFor, Modes, CursorRow
  <1>4. RunTyped([granted EXCEPT !.pc = "begin"])
    <2>1. run[r] \in RunRow
      BY <1>1 DEF RunsTyped
    <2>2. fence \in Nat /\ cursor.value \in Positions
      BY <1>1 DEF CursorRow
    <2> HIDE DEF fence
    <2> QED BY <2>1, <2>2 DEF RunTyped, RunRow
  <1>5. RunTyped([Ended EXCEPT !.pc = "acquire", !.mode = mode])
    <2> HIDE DEF mode
    <2> QED BY <1>3, EndedTyped DEF RunTyped, RunRow
  <1>6. CASE Granted(r) /\ AcquireEffect(r)
             /\ run' = [run EXCEPT ![r] =
                    IF run[r].mode = mode
                    THEN [granted EXCEPT !.pc = "begin"]
                    ELSE IF run[r].mode = "history"
                         THEN [Ended EXCEPT !.pc = "acquire", !.mode = mode]
                         ELSE Ended]
    <2>1. Journal'
      BY <1>1, <1>6, AcquireKeeps DEF Granted
    <2>2. RunsTyped'
      <3> HIDE DEF granted, mode
      <3> QED BY <1>1, <1>4, <1>5, <1>6, EndedTyped, OneRunSteps
    <2> QED BY <1>2, <2>1, <2>2 DEF IInv
  <1>7. CASE End(r) /\ UNCHANGED journalVars
    <2>1. Journal'
      BY <1>1, <1>7, LeaseStepKeeps DEF journalVars
    <2>2. RunsTyped'
      BY <1>1, <1>7, EndedTyped, OneRunSteps DEF End
    <2> QED BY <1>2, <2>1, <2>2 DEF IInv
  <1> QED BY <1>6, <1>7 DEF Acquire

(* The other steps move the run to x and the journal by at most one call. *)
LEMMA RunStepInv ==
    ASSUME IInv, NEW r \in Owners, NEW x, RunTyped(x), run' = [run EXCEPT ![r] = x],
           Journal', UNCHANGED <<providerVars, late, faults>>
    PROVE  IInv'
  <1>1. RunsTyped'
    BY OneRunSteps DEF IInv
  <1> QED BY <1>1 DEF IInv, ProviderTyped, providerVars, LateTyped, HistoryIds

(* A step that does not touch the journal keeps it. *)
LEMMA QuietJournal ==
    ASSUME Journal, UNCHANGED journalVars
    PROVE  Journal'
  BY LeaseStepKeeps DEF journalVars, Journal, JournalTyped

(* Begin keeps the invariant: the anchor it takes from the last page of a  *)
(* resumed batch is of its type.                                           *)
LEMMA BeginInv ==
    ASSUME IInv, NEW r \in Owners, Begin(r)
    PROVE  IInv'
  <1> DEFINE mode == run[r].mode
             b == BeginBatch
             anchor == ReceiptAnchor(mode, b)
             next == IF FinalPersisted(b) THEN "commit_batch"
                     ELSE IF mode = "backfill" /\ anchor = 0 THEN "capture_profile_anchor"
                     ELSE "list"
             token == IF PagesOf(b) # {} THEN LastPage(b).next ELSE NoToken
             x == [run[r] EXCEPT !.pc = next, !.batch = b, !.ordinal = PageCount(b),
                                 !.token = token, !.anchor = anchor]
  <1>1. UNCHANGED <<providerVars, late, faults>> /\ Journal /\ run[r] \in RunRow /\ mode \in Modes
    BY DEF Begin, IInv, RunsTyped, RunRow
  <1>2. \/ /\ BeginAccepted(r, run[r].fence, mode) /\ BeginEffect(mode)
           /\ run' = [run EXCEPT ![r] = x] \/ End(r)
        \/ End(r) /\ UNCHANGED journalVars
    BY DEF Begin, End
  <1>3. CASE BeginAccepted(r, run[r].fence, mode) /\ BeginEffect(mode)
             /\ (run' = [run EXCEPT ![r] = x] \/ End(r))
    <2>1. Journal'
      BY <1>1, <1>3, BeginKeeps
    <2>2. b \in Nat
      <3>1. Len(batches) \in Nat /\ DOMAIN batches = 1..Len(batches)
        BY <1>1, BatchesTyped DEF Journal
      <3>2. RunningBatches # {} => ResumedBatch \in RunningBatches
        <4>1. \A c, d \in RunningBatches : c = d
          BY <1>1 DEF Journal, OneRunningBatch, RunningBatches
        <4>2. RunningBatches \subseteq Nat
          BY <3>1 DEF RunningBatches
        <4>3. ASSUME RunningBatches # {}
              PROVE  \E d \in RunningBatches : \A c \in RunningBatches : c <= d
          <5>1. PICK d \in RunningBatches : TRUE
            BY <4>3
          <5>2. d <= d
            BY <4>2, <5>1
          <5> QED BY <4>1, <5>1, <5>2
        <4> QED BY <4>3 DEF ResumedBatch
      <3> QED BY <3>1, <3>2 DEF BeginBatch, RunningBatches
    <2>3. /\ anchor \in Positions
          /\ next = "list" /\ mode # "history" => anchor \in HistoryIds
          /\ token \in Positions
      <3>1. /\ anchor \in Positions
            /\ mode = "reconciliation" => anchor \in HistoryIds
            /\ mode = "backfill" /\ anchor # 0 => anchor \in HistoryIds
            /\ PagesOf(b) # {} => LastPage(b).next \in Positions
        <4> HIDE DEF b
        <4> QED BY <1>1, <1>3, <2>2, AnchorsTyped
      <3> HIDE DEF anchor
      <3> QED BY <1>1, <3>1, MaxHistoryAssumption DEF Modes, Positions, NoToken
    <2>4. PageCount(b) \in Nat
      BY <1>1, PageCountIsNat DEF Journal
    <2>5. next \in {"commit_batch", "capture_profile_anchor", "list"}
      OBVIOUS
    <2>6. RunTyped(x)
      <3> HIDE DEF anchor, next, token, b
      <3>1. /\ x \in RunRow /\ x.pc = next /\ x.mode = mode /\ x.anchor = anchor
        BY <1>1, <2>2, <2>3, <2>4, <2>5 DEF RunRow
      <3> QED BY <2>3, <2>5, <3>1 DEF RunTyped
    <2>7. CASE run' = [run EXCEPT ![r] = x]
      <3> HIDE DEF x
      <3> QED BY <1>1, <2>1, <2>6, <2>7, RunStepInv
    <2>8. CASE End(r)
      BY <1>1, <2>1, <2>8, EndedTyped, RunStepInv DEF End
    <2> QED BY <1>3, <2>7, <2>8
  <1>4. CASE End(r) /\ UNCHANGED journalVars
    BY <1>1, <1>4, EndedTyped, RunStepInv, QuietJournal DEF End
  <1> QED BY <1>2, <1>3, <1>4

(* So do the steps that only read from Gmail. *)
LEMMA ListInv ==
    ASSUME IInv, NEW r \in Owners, CaptureAnchor(r) \/ List(r) \/ HistoryGap(r)
    PROVE  IInv'
  <1>1. /\ UNCHANGED <<providerVars, journalVars, late, faults>> /\ Journal /\ ProviderTyped
        /\ RunTyped(run[r]) /\ run[r] \in RunRow
    BY DEF CaptureAnchor, List, HistoryGap, Local, IInv, RunsTyped
  <1>2. Journal'
    BY <1>1, QuietJournal
  <1>3. HistoryId \in HistoryIds /\ HistoryId \in Positions
    BY <1>1, MaxHistoryAssumption DEF ProviderTyped, HistoryId, HistoryIds, Positions
  <1>4. CASE CaptureAnchor(r)
    <2>1. RunTyped([run[r] EXCEPT !.pc = "list", !.anchor = HistoryId])
      <3> DEFINE h == HistoryId
      <3>1. h \in HistoryIds /\ h \in Positions
        BY <1>3
      <3> HIDE DEF h
      <3>2. RunTyped([run[r] EXCEPT !.pc = "list", !.anchor = h])
        BY <1>1, <3>1 DEF RunTyped, RunRow
      <3> QED BY <3>2 DEF h
    <2>2. \/ run' = [run EXCEPT ![r] = [run[r] EXCEPT !.pc = "list", !.anchor = HistoryId]]
          \/ run' = [run EXCEPT ![r] = Ended]
      BY <1>4 DEF CaptureAnchor, End, IInv, RunsTyped
    <2> QED BY <1>1, <1>2, <2>1, <2>2, EndedTyped, RunStepInv
  <1>5. CASE List(r)
    <2>1. PICK resp : /\ run' = [run EXCEPT ![r] = [run[r] EXCEPT !.pc = "append_page", !.resp = resp]]
                      /\ resp \in [next : Positions, hid : HistoryIds, ids : SUBSET HistoryIds]
                      /\ run[r].mode # "history" => run[r].anchor \in HistoryIds
      <3>1. run[r].start \in Positions /\ run[r].token \in Positions
        BY <1>1 DEF RunRow
      <3>2. CASE ListHistory(r)
        <4>1. PICK resp \in HistoryResponses(run[r].start, run[r].token) :
                 run' = [run EXCEPT ![r].pc = "append_page", ![r].resp = resp]
          BY <3>2 DEF ListHistory
        <4>2. resp.next \in Positions /\ resp.hid \in HistoryIds /\ resp.ids \in SUBSET HistoryIds
          BY <1>1, <3>1, ResponsesTyped
        <4>3. resp = [next |-> resp.next, hid |-> resp.hid, ids |-> resp.ids]
          BY DEF HistoryResponses
        <4>4. resp \in [next : Positions, hid : HistoryIds, ids : SUBSET HistoryIds]
          BY <4>2, <4>3
        <4> QED BY <3>2, <4>1, <4>4 DEF ListHistory, IInv, RunsTyped
      <3>3. CASE ListMessages(r)
        <4>1. PICK resp \in MailboxResponses(run[r].token) :
                 run' = [run EXCEPT ![r].pc = "append_page",
                             ![r].resp = [next |-> resp.next, hid |-> run[r].anchor,
                                          ids |-> resp.ids]]
          BY <3>3 DEF ListMessages
        <4>2. resp.next \in Positions /\ resp.ids \in SUBSET HistoryIds
          BY <1>1, <3>1, ResponsesTyped
        <4>3. run[r].anchor \in HistoryIds
          BY <1>1, <1>5, <3>3 DEF List, ListMessages, At, RunTyped
        <4> DEFINE y == [next |-> resp.next, hid |-> run[r].anchor, ids |-> resp.ids]
        <4>4. y \in [next : Positions, hid : HistoryIds, ids : SUBSET HistoryIds]
          BY <4>2, <4>3
        <4>5. run' = [run EXCEPT ![r] = [run[r] EXCEPT !.pc = "append_page", !.resp = y]]
          BY <4>1 DEF IInv, RunsTyped
        <4> QED BY <4>3, <4>4, <4>5
      <3> QED BY <1>5, <3>2, <3>3 DEF List
    <2>2. HistoryIds \subseteq Positions
      BY MaxHistoryAssumption DEF HistoryIds, Positions
    <2>3. RunTyped([run[r] EXCEPT !.pc = "append_page", !.resp = resp])
      BY <1>1, <2>1, <2>2 DEF RunTyped, RunRow
    <2> QED BY <1>1, <1>2, <2>1, <2>3, RunStepInv
  <1>6. CASE HistoryGap(r)
    <2>1. RunTyped([run[r] EXCEPT !.pc = "mark_history_expired", !.anchor = HistoryId])
      <3> DEFINE h == HistoryId
      <3>1. h \in Positions
        BY <1>3
      <3> HIDE DEF h
      <3>2. RunTyped([run[r] EXCEPT !.pc = "mark_history_expired", !.anchor = h])
        BY <1>1, <3>1 DEF RunTyped, RunRow
      <3> QED BY <3>2 DEF h
    <2>2. run' = [run EXCEPT ![r] = [run[r] EXCEPT !.pc = "mark_history_expired", !.anchor = HistoryId]]
      BY <1>6 DEF HistoryGap, IInv, RunsTyped
    <2> QED BY <1>1, <1>2, <2>1, <2>2, RunStepInv
  <1> QED BY <1>4, <1>5, <1>6

(* So do the three writes of a run, accepted or refused. *)
LEMMA WriteInv ==
    ASSUME IInv, NEW r \in Owners, AppendPage(r) \/ CommitBatch(r) \/ MarkHistoryExpired(r)
    PROVE  IInv'
  <1>1. UNCHANGED <<providerVars, late, faults>> /\ Journal /\ RunTyped(run[r]) /\ run[r] \in RunRow
    BY DEF AppendPage, CommitBatch, MarkHistoryExpired, IInv, RunsTyped
  <1>2. UNCHANGED journalVars => Journal'
    BY <1>1, QuietJournal
  <1>3. CASE AppendPage(r)
    <2> DEFINE x == [run[r] EXCEPT !.pc = IF run[r].resp.next = NoToken THEN "commit_batch" ELSE "list",
                                   !.ordinal = run[r].ordinal + 1, !.token = run[r].resp.next,
                                   !.resp = Ended.resp]
    <2>1. \/ /\ Accepted(AppendCall(r)) /\ Execute(AppendCall(r))
             /\ run' = [run EXCEPT ![r] = x]
          \/ run' = [run EXCEPT ![r] = Ended] /\ UNCHANGED journalVars
      BY <1>3 DEF AppendPage, End, IInv, RunsTyped
    <2>2. Journal'
      BY <1>1, <1>2, <1>3, <2>1, CallsAreTyped, ExecuteKeeps DEF AppendPage
    <2>3. CASE run' = [run EXCEPT ![r] = Ended]
      BY <1>1, <2>2, <2>3, EndedTyped, RunStepInv
    <2>4. CASE Accepted(AppendCall(r)) /\ run' = [run EXCEPT ![r] = x]
      <3> DEFINE pc == IF run[r].resp.next = NoToken THEN "commit_batch" ELSE "list"
                 n == run[r].ordinal + 1
      <3>1. n \in Nat /\ run[r].resp.next \in Positions /\ pc \in {"commit_batch", "list"}
        BY <1>1 DEF RunRow
      <3>2. Ended.resp \in [next : Positions, hid : Positions, ids : SUBSET HistoryIds]
        BY EndedTyped DEF RunTyped, RunRow
      <3>3. run[r].mode # "history" => run[r].anchor \in HistoryIds
        BY <1>1, <1>3 DEF AppendPage, At, RunTyped
      <3> HIDE DEF pc, n
      <3>4. x = [run[r] EXCEPT !.pc = pc, !.ordinal = n, !.token = run[r].resp.next,
                               !.resp = Ended.resp]
        BY DEF pc, n
      <3>5. x \in RunRow /\ x.pc = pc /\ x.mode = run[r].mode /\ x.anchor = run[r].anchor
        <4> DEFINE resp == Ended.resp
                   token == run[r].resp.next
        <4>1. /\ resp \in [next : Positions, hid : Positions, ids : SUBSET HistoryIds]
              /\ token \in Positions /\ run[r] \in RunRow
              /\ x = [run[r] EXCEPT !.pc = pc, !.ordinal = n, !.token = token, !.resp = resp]
          BY <1>1, <3>1, <3>2, <3>4
        <4> HIDE DEF resp, token, x
        <4> QED BY <3>1, <4>1 DEF RunRow
      <3> HIDE DEF x
      <3>6. RunTyped(x)
        BY <3>1, <3>3, <3>5 DEF RunTyped
      <3> QED BY <1>1, <2>2, <2>4, <3>6, RunStepInv
    <2> QED BY <2>1, <2>3, <2>4
  <1>4. CASE CommitBatch(r)
    <2>1. Journal'
      BY <1>1, <1>2, <1>4, CallsAreTyped, ExecuteKeeps DEF CommitBatch
    <2> QED BY <1>1, <1>4, <2>1, EndedTyped, RunStepInv DEF CommitBatch, End
  <1>5. CASE MarkHistoryExpired(r)
    <2>1. Journal'
      BY <1>1, <1>2, <1>5, CallsAreTyped, ExecuteKeeps DEF MarkHistoryExpired
    <2>2. RunTyped([Ended EXCEPT !.pc = "acquire", !.mode = "reconciliation"])
      BY EndedTyped DEF RunTyped, RunRow, Modes
    <2> QED BY <1>1, <1>5, <2>1, <2>2, EndedTyped, RunStepInv DEF MarkHistoryExpired, End
  <1> QED BY <1>3, <1>4, <1>5

(* A run that stops may leave a write under way, which is still of its     *)
(* type.                                                                   *)
LEMMA StopInv ==
    ASSUME IInv, NEW r \in Owners, Stop(r)
    PROVE  IInv'
  <1>1. Journal' /\ ProviderTyped'
    BY QuietJournal DEF Stop, IInv, ProviderTyped, providerVars, HistoryIds
  <1>2. RunsTyped'
    BY EndedTyped, OneRunSteps DEF Stop, End, IInv
  <1>3. RunTyped(run[r])
    BY DEF IInv, RunsTyped
  <1>4. LateTyped'
    BY <1>3, CallsAreTyped DEF Stop, IInv, LateTyped
  <1>5. faults' \in 0..MaxFaults
    BY FaultKeeps DEF Stop, IInv
  <1> QED BY <1>1, <1>2, <1>4, <1>5 DEF IInv

(* The invariant is inductive: every step of every run, of the mailbox and *)
(* of the clock keeps it.                                                  *)
LEMMA NextInv == IInv /\ [Next]_vars => IInv'
  <1> SUFFICES ASSUME IInv, [Next]_vars PROVE IInv'
    OBVIOUS
  <1>1. ASSUME NEW r \in Owners, Step(r) PROVE IInv'
    BY <1>1, AcquireInv, BeginInv, ListInv, WriteInv DEF Step
  <1>2. ASSUME NEW r \in Owners, Stop(r) PROVE IInv'
    BY <1>2, StopInv
  <1>3. ASSUME NEW c \in late, LateWrite(c) PROVE IInv'
    <2>1. Journal'
      BY <1>3, ExecuteKeeps, QuietJournal DEF LateWrite, IInv, LateTyped
    <2> QED BY <1>3, <2>1
            DEF LateWrite, IInv, ProviderTyped, providerVars, HistoryIds, RunsTyped, RunTyped, LateTyped
  <1>4. ASSUME LeaseTimesOut \/ LeaseSlips PROVE IInv'
    <2>1. Journal'
      BY <1>4, ExpireKeeps DEF LeaseTimesOut, LeaseSlips, IInv
    <2>2. faults' \in 0..MaxFaults
      BY <1>4, FaultKeeps DEF LeaseTimesOut, LeaseSlips, IInv, syncVars
    <2> QED BY <1>4, <2>1, <2>2
            DEF LeaseTimesOut, LeaseSlips, IInv, ProviderTyped, providerVars, syncVars, HistoryIds,
                RunsTyped, RunTyped, LateTyped
  <1>5. ASSUME Mailbox PROVE IInv'
    <2>1. Journal' /\ ProviderTyped'
      BY <1>5, ProviderKeeps, QuietJournal DEF Mailbox, IInv
    <2> QED BY <1>5, <2>1 DEF Mailbox, IInv, syncVars, RunsTyped, RunTyped, LateTyped
  <1>6. CASE UNCHANGED vars
    <2>1. Journal'
      BY <1>6, QuietJournal DEF vars, IInv
    <2> QED BY <1>6, <2>1 DEF vars, IInv, ProviderTyped, providerVars, syncVars, HistoryIds,
                              RunsTyped, RunTyped, LateTyped
  <1> QED BY <1>1, <1>2, <1>3, <1>4, <1>5, <1>6 DEF Next

(* The strengthening holds of every reachable state. *)
THEOREM Invariance == Spec => []IInv
  <1> QED BY InitInv, NextInv, PTL DEF Spec
-----------------------------------------------------------------------------
(* The rows of the journal and the log of the mailbox stay in their types. *)
THEOREM TypeCorrect == Spec => []TypeOK
  <1>1. IInv => TypeOK
    BY DEF IInv, Journal, JournalTyped, ProviderTyped, TypeOK, CursorRow, BatchRow, PageRow, GapRow,
           Positions
  <1> QED BY <1>1, Invariance, PTL

(* No commit or expiry strands a running batch behind the cursor, and two  *)
(* overlapping runs never have two batches to resume.                      *)
THEOREM AtMostOneRunning == Spec => []OneRunningBatch
  <1>1. IInv => OneRunningBatch
    BY DEF IInv, Journal
  <1> QED BY <1>1, Invariance, PTL

(* The errors acquire and begin raise when the gap of a reconciliation is  *)
(* missing cannot occur, and no gap stays open behind the cursor.          *)
THEOREM ReconcileNeverWedges == Spec => []ReconcileHasGap
  <1>1. IInv => ReconcileHasGap
    BY DEF IInv, Journal
  <1> QED BY <1>1, Invariance, PTL

(* However runs overlap and writes arrive late, the committed batches form *)
(* one chain of cursors.                                                   *)
THEOREM OneChain == Spec => []CommitsChain
  <1>1. IInv => CommitsChain
    BY DEF IInv, Journal, Chain
  <1> QED BY <1>1, Invariance, PTL
-----------------------------------------------------------------------------
(* The calls that can change the journal in a step. *)
LEMMA JournalSteps ==
    ASSUME IInv, [Next]_vars
    PROVE  \/ UNCHANGED journalVars
           \/ \E r \in Owners : AcquireAccepted(r) /\ AcquireEffect(r)
           \/ ExpireLease
           \/ \E mode \in Modes : BeginEffect(mode)
           \/ \E c : CallTyped(c) /\ Accepted(c) /\ Execute(c)
  <1>1. ASSUME NEW r \in Owners, Begin(r)
        PROVE  UNCHANGED journalVars \/ \E mode \in Modes : BeginEffect(mode)
    <2>1. run[r].mode \in Modes
      BY DEF IInv, RunsTyped, RunRow
    <2> QED BY <1>1, <2>1 DEF Begin
  <1>2. ASSUME NEW r \in Owners, AppendPage(r) \/ CommitBatch(r) \/ MarkHistoryExpired(r)
        PROVE  UNCHANGED journalVars \/ \E c : CallTyped(c) /\ Accepted(c) /\ Execute(c)
    <2>1. RunTyped(run[r])
      BY DEF IInv, RunsTyped
    <2> QED BY <1>2, <2>1, CallsAreTyped DEF AppendPage, CommitBatch, MarkHistoryExpired
  <1>3. ASSUME NEW c \in late, LateWrite(c)
        PROVE  UNCHANGED journalVars \/ \E d : CallTyped(d) /\ Accepted(d) /\ Execute(d)
    BY <1>3 DEF LateWrite, IInv, LateTyped
  <1>4. ASSUME NEW r \in Owners, Acquire(r)
        PROVE  UNCHANGED journalVars \/ (AcquireAccepted(r) /\ AcquireEffect(r))
    BY <1>4 DEF Acquire, Granted
  <1>5. ASSUME NEW r \in Owners, CaptureAnchor(r) \/ List(r) \/ HistoryGap(r) \/ Stop(r)
        PROVE  UNCHANGED journalVars
    BY <1>5 DEF CaptureAnchor, List, HistoryGap, Stop, Local
  <1> QED BY <1>1, <1>2, <1>3, <1>4, <1>5
          DEF Next, Step, LeaseTimesOut, LeaseSlips, Mailbox, vars

(* The cursor and the fences move forward only, whatever the runs do. *)
THEOREM CursorMovesForward == Spec => CursorNeverRegresses
  <1> DEFINE Forward ==
        /\ cursor'.value >= cursor.value
        /\ cursor'.value # cursor.value => cursor'.version = cursor.version + 1
        /\ cursor'.version \in {cursor.version, cursor.version + 1}
        /\ cursor'.owner # cursor.owner /\ cursor'.owner # NoOwner => cursor'.fence > cursor.fence
  <1>1. IInv /\ [Next]_vars => [Forward]_cursor
    <2> SUFFICES ASSUME IInv, [Next]_vars, cursor' # cursor PROVE Forward
      OBVIOUS
    <2>1. cursor \in CursorRow /\ Journal /\ cursor.value >= cursor.value
          /\ cursor.fence \in Nat /\ cursor.fence + 1 > cursor.fence
      <3>1. cursor \in CursorRow /\ Journal
        BY DEF IInv, Journal, JournalTyped
      <3>2. cursor.value \in Int /\ cursor.fence \in Nat
        BY <3>1 DEF CursorRow, Positions
      <3> QED BY <3>1, <3>2
    <2>2. ASSUME NEW r \in Owners, AcquireEffect(r) PROVE Forward
      <3>1. cursor' = [cursor EXCEPT !.owner = r, !.fence = cursor.fence + 1, !.live = TRUE]
        BY <2>2 DEF AcquireEffect
      <3>2. /\ cursor'.value = cursor.value /\ cursor'.version = cursor.version
            /\ cursor'.fence = cursor.fence + 1
        BY <2>1, <3>1 DEF CursorRow
      <3> QED BY <2>1, <3>2
    <2>3. CASE ExpireLease
      <3>1. /\ cursor'.value = cursor.value /\ cursor'.version = cursor.version
            /\ cursor'.owner = cursor.owner
        BY <2>1, <2>3 DEF ExpireLease, CursorRow
      <3> QED BY <2>1, <3>1
    <2>4. ASSUME NEW c, CallTyped(c), Accepted(c), Execute(c) PROVE Forward
      <3>1. CASE c.rpc = "append_page"
        BY <2>4, <3>1 DEF Execute, AppendEffect
      <3>2. CASE c.rpc = "commit_batch"
        <4>1. /\ NextCursor(c.batch) >= cursor.value /\ cursor'.value = NextCursor(c.batch)
              /\ cursor'.version = cursor.version + 1 /\ cursor'.owner = NoOwner
          BY <2>1, <2>4, <3>2, CommitStep DEF Accepted, Execute
        <4> QED BY <2>1, <4>1
      <3>3. CASE c.rpc = "mark_history_expired"
        <4>1. cursor' = [cursor EXCEPT !.status = "reconcile_required", !.owner = NoOwner, !.live = FALSE]
          BY <2>4, <3>3 DEF Execute, MarkEffect, MarkedCursor
        <4>2. /\ cursor'.value = cursor.value /\ cursor'.version = cursor.version
              /\ cursor'.owner = NoOwner
          BY <2>1, <4>1 DEF CursorRow
        <4> QED BY <2>1, <4>2
      <3> QED BY <2>4, <3>1, <3>2, <3>3 DEF CallTyped
    <2> QED BY <2>2, <2>3, <2>4, JournalSteps DEF BeginEffect, journalVars
  <1> QED BY <1>1, Invariance, PTL DEF Spec, CursorNeverRegresses

(* A batch that is committed or failed keeps its row and its pages. *)
THEOREM ClosedBatchesStay == Spec => ClosedBatchesFrozen
  <1> DEFINE Frozen == \A b \in DOMAIN batches :
        batches[b].status # "running" => batches'[b] = batches[b] /\ PagesOf(b)' = PagesOf(b)
  <1>1. IInv /\ [Next]_vars => [Frozen]_<<batches, pages>>
    <2> SUFFICES ASSUME IInv, [Next]_vars, NEW b \in DOMAIN batches, batches[b].status # "running"
                 PROVE  batches'[b] = batches[b] /\ PagesOf(b)' = PagesOf(b)
      OBVIOUS
    <2>1. Journal /\ batches \in Seq(BatchRow)
      BY DEF IInv, Journal, JournalTyped
    <2>2. UNCHANGED <<batches, pages>> => batches'[b] = batches[b] /\ PagesOf(b)' = PagesOf(b)
      BY DEF PagesOf
    <2>3. ASSUME NEW mode \in Modes, BeginEffect(mode)
          PROVE  batches'[b] = batches[b] /\ PagesOf(b)' = PagesOf(b)
      BY <2>1, <2>2, <2>3 DEF BeginEffect, PagesOf
    <2>4. ASSUME NEW c, Accepted(c), Execute(c), CallTyped(c)
          PROVE  batches'[b] = batches[b] /\ PagesOf(b)' = PagesOf(b)
      <3>1. CASE c.rpc = "append_page"
        BY <2>4, <3>1 DEF Accepted, Execute, AppendAccepted, AppendEffect, RunningBatches, PagesOf
      <3>2. CASE c.rpc = "commit_batch"
        <4>1. b # c.batch /\ pages' = pages
          BY <2>4, <3>2 DEF Accepted, Execute, CommitAccepted, CommitEffect, RunningBatches
        <4>2. batches'[b] = batches[b]
          BY <2>1, <2>4, <3>2, <4>1, CommitStep DEF Accepted, Execute
        <4> QED BY <4>1, <4>2 DEF PagesOf
      <3>3. CASE c.rpc = "mark_history_expired"
        BY <2>4, <3>3 DEF Execute, MarkEffect, RunningBatches, PagesOf
      <3> QED BY <2>4, <3>1, <3>2, <3>3 DEF CallTyped
    <2> QED BY <2>2, <2>3, <2>4, JournalSteps DEF AcquireEffect, ExpireLease, journalVars
  <1> QED BY <1>1, Invariance, PTL DEF Spec, ClosedBatchesFrozen
=============================================================================
