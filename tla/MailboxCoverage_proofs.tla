----------------------- MODULE MailboxCoverage_proofs -----------------------
(***************************************************************************)
(* What the pages of the journal say of the mailbox, for any length of the *)
(* history, any number of runs and any number of faults: the cursor never  *)
(* passes what was read, and the journal implements MailboxCoverage.       *)
(*                                                                         *)
(* The database does not look at Gmail: that a page is the one its batch   *)
(* lacks is a matter of who sends it.  The argument is that a fence has at *)
(* most one writer, a run or the write it left behind (OneWriter), so that *)
(* what this writer has in its hands still fits the batch when it arrives  *)
(* (Fits), however much the mailbox has changed since it was listed.       *)
(***************************************************************************)
EXTENDS GmailMailboxSync_proofs

(* A batch has read up to here: the token of the next page, and, of the    *)
(* history, the id of the last record seen.                                *)
NextToken(b) == IF PagesOf(b) = {} THEN NoToken ELSE LastPage(b).next
ReadTo(b) == IF PagesOf(b) = {} THEN batches[b].value
             ELSE IF LastPage(b).final THEN LastPage(b).hid ELSE LastPage(b).next

Ids(b) == UNION {p.ids : p \in PagesOf(b)}

(* The mailbox: a message is named by the record that added it, and only a *)
(* message that was added can be deleted.                                  *)
LogNamed ==
    \A i \in DOMAIN log : IF log[i].kind = "added" THEN log[i].msg = i
                          ELSE log[i].msg \in Added(log)

(* No id is ahead of the mailbox. *)
NotAhead ==
    /\ cursor.value <= Len(log)
    /\ \A g \in gaps : g.anchor <= Len(log)
    /\ \A p \in pages : p.hid <= Len(log)

AnchorsNotAhead ==
    /\ \A r \in Owners : run[r].anchor <= Len(log)
    /\ \A c \in late : c.rpc = "mark_history_expired" => c.anchor <= Len(log)

(* Ordinals are counted, so that the last page is the one added last. *)
PagesCounted ==
    \A p \in pages :
        /\ p.ordinal < PageCount(p.batch)
        /\ p.final <=> p.next = NoToken
        /\ \A q \in pages : q.batch = p.batch /\ q.ordinal = p.ordinal => q = p

(* A history batch has every record from its start to where it has read. *)
HistoryRead ==
    \A b \in DOMAIN batches :
        batches[b].mode = "history" =>
            /\ batches[b].value <= ReadTo(b) /\ ReadTo(b) <= Len(log)
            /\ Ids(b) = (batches[b].value + 1)..ReadTo(b)

(* A scan has every message now in the mailbox between the token and its   *)
(* anchor.                                                                 *)
ScanRead ==
    \A b \in DOMAIN batches :
        batches[b].mode # "history" =>
            /\ Ids(b) \subseteq Added(log)
            /\ PagesOf(b) # {} =>
                  \A m \in Live(log) :
                      LastPage(b).next <= m /\ m <= LastPage(b).hid => m \in Ids(b)

CommittedWhole ==
    \A b \in CommittedBatches :
        FinalPersisted(b) /\ batches[b].committed = LastPage(b).hid

Read == PagesCounted /\ HistoryRead /\ ScanRead /\ ScanKeepsAnchor /\ CommittedWhole
Known == NoLiveMessageMissed /\ DeletionSeenOrScannedOver
-----------------------------------------------------------------------------
(* The page is the one its batch lacks: it goes on where the batch stops,  *)
(* and has what there is in the mailbox from there to its end.             *)
Fits(p) ==
    /\ p.batch \in RunningBatches /\ ~FinalPersisted(p.batch)
    /\ p.ordinal = PageCount(p.batch)
    /\ p.final <=> p.next = NoToken
    /\ p.hid <= Len(log)
    /\ IF batches[p.batch].mode = "history"
       THEN LET to == IF p.final THEN p.hid ELSE p.next
            IN  ReadTo(p.batch) <= to /\ to <= Len(log) /\ p.ids = (ReadTo(p.batch) + 1)..to
       ELSE /\ \A q \in PagesOf(p.batch) : q.hid = p.hid
            /\ p.ids \subseteq Added(log)
            /\ \A m \in Live(log) :
                  /\ p.next <= m /\ m <= p.hid
                  /\ NextToken(p.batch) = NoToken \/ m < NextToken(p.batch)
                  => m \in p.ids

(* What a run under its lease knows of the batch it is filling. *)
Follows(r) ==
    \E b \in RunningBatches :
        /\ run[r].batch = b /\ ~FinalPersisted(b)
        /\ batches[b].mode = run[r].mode
        /\ run[r].start = cursor.value
        /\ run[r].ordinal = PageCount(b)
        /\ run[r].token = NextToken(b)
        /\ run[r].pc = "capture_profile_anchor" => run[r].mode # "history" /\ PagesOf(b) = {}
        /\ run[r].pc # "capture_profile_anchor" /\ run[r].mode # "history" =>
              \A q \in PagesOf(b) : q.hid = run[r].anchor
        /\ run[r].pc = "append_page" =>
              /\ \A p \in {PageOf(r)} : Fits(p)
              /\ run[r].mode # "history" => run[r].resp.hid = run[r].anchor

Filling == {"capture_profile_anchor", "list", "append_page"}

Writers ==
    /\ \A r \in Owners : run[r].pc \in Filling /\ Holds(r) => Follows(r)
    /\ \A c \in late :
          c.rpc = "append_page" /\ LeaseHeld(c.owner, c.fence) => Fits(c.page)

(* Fences are handed out once: under the lease there is a run of its owner *)
(* or one write that such a run has left behind, and no other.             *)
OneWriter ==
    /\ \A r \in Owners : run[r].fence <= cursor.fence
    /\ \A c \in late : c.owner \in Owners /\ c.fence \in Nat /\ c.fence <= cursor.fence
    /\ \A c \in late :
          LeaseHeld(c.owner, c.fence) =>
              /\ At(c.owner, "idle")
              /\ \A d \in late : LeaseHeld(d.owner, d.fence) => d = c

CInv == LogNamed /\ NotAhead /\ AnchorsNotAhead /\ Read /\ Known /\ Writers /\ OneWriter
-----------------------------------------------------------------------------
(* The log only grows, and below its old end messages only go. *)
Grown ==
    /\ Len(log) \in Nat /\ Len(log') \in Nat /\ Len(log) <= Len(log')
    /\ \A i \in 1..Len(log) : log'[i] = log[i]
    /\ Added(log) \subseteq Added(log') /\ Live(log') \subseteq Int
    /\ \A m \in Live(log') : m <= Len(log) => m \in Live(log)

(* What the log adds is named by positions, and what is live was added.   *)
LEMMA LiveTyped ==
    ASSUME ProviderTyped
    PROVE  /\ Len(log) \in Nat /\ DOMAIN log = 1..Len(log)
           /\ Added(log) \subseteq HistoryIds /\ Live(log) \subseteq Added(log)
  <1>1. Len(log) \in Nat /\ DOMAIN log = 1..Len(log) /\ \A i \in DOMAIN log : log[i] \in Events
    BY DEF ProviderTyped
  <1>2. Added(log) \subseteq HistoryIds
    BY <1>1 DEF Added, Events
  <1> QED BY <1>1, <1>2 DEF Live

(* A log that stays as it is counts as grown.                             *)
LEMMA StillGrown ==
    ASSUME ProviderTyped, UNCHANGED log
    PROVE  Grown
  BY LiveTyped DEF Grown, Added, Live, DeletedBy, HistoryIds

(* What Gmail does to the log. *)
LEMMA AppendGrows ==
    ASSUME ProviderTyped, LogNamed, NEW e \in Events, log' = Append(log, e),
           IF e.kind = "added" THEN e.msg = Len(log) + 1 ELSE e.msg \in Added(log)
    PROVE  Grown /\ LogNamed'
  <1> DEFINE n == Len(log)
  <1>1. /\ n \in Nat /\ DOMAIN log = 1..n /\ Len(log') = n + 1 /\ DOMAIN log' = 1..(n + 1)
        /\ log'[n + 1] = e /\ \A i \in 1..n : log'[i] = log[i] /\ log[i] \in Events
    BY DEF ProviderTyped
  <1> HIDE DEF n
  <1>2. Added(log) \subseteq Added(log')
    BY <1>1 DEF Added
  <1>3. LogNamed'
    <2> SUFFICES ASSUME NEW i \in 1..(n + 1)
                 PROVE  IF log'[i].kind = "added" THEN log'[i].msg = i
                        ELSE log'[i].msg \in Added(log')
      BY <1>1 DEF LogNamed
    <2>1. CASE i = n + 1
      BY <1>1, <1>2, <2>1 DEF n
    <2>2. CASE i # n + 1
      <3>1. i \in 1..n
        BY <1>1, <2>2
      <3> QED BY <1>1, <1>2, <3>1 DEF LogNamed
    <2> QED BY <2>1, <2>2
  <1>4. ASSUME NEW m \in Live(log'), m <= n PROVE m \in Live(log)
    <2>1. PICK i \in 1..(n + 1) : log'[i].kind = "added" /\ log'[i].msg = m
      BY <1>1, <1>4 DEF Live, Added
    <2>2. i = m
      BY <1>1, <1>3, <2>1 DEF LogNamed
    <2>3. i \in 1..n
      BY <1>1, <1>4, <2>2
    <2>4. m \in Added(log)
      BY <1>1, <2>1, <2>3 DEF Added
    <2>5. DeletedBy(log, Len(log)) \subseteq DeletedBy(log', Len(log'))
      BY <1>1 DEF DeletedBy, n
    <2> QED BY <1>4, <2>4, <2>5 DEF Live
  <1>5. Live(log') \subseteq Int
    <2>1. \A i \in 1..(n + 1) : log'[i].msg \in Int
      BY <1>1 DEF Events, HistoryIds
    <2> QED BY <1>1, <2>1 DEF Live, Added
  <1> QED BY <1>1, <1>2, <1>3, <1>4, <1>5 DEF Grown, n

(* Each change of the mailbox appends to the log and keeps its names.     *)
LEMMA MailboxGrows ==
    ASSUME ProviderTyped, LogNamed, ProviderNext
    PROVE  Grown /\ LogNamed'
  <1>1. Len(log) \in Nat /\ Len(log) < MaxHistory => Len(log) + 1 \in HistoryIds
    BY MaxHistoryAssumption DEF HistoryIds
  <1>2. CASE MessageAdded
    <2> DEFINE e == [kind |-> "added", msg |-> HistoryId + 1]
    <2>1. e \in Events /\ e.kind = "added" /\ e.msg = Len(log) + 1 /\ log' = Append(log, e)
      BY <1>1, <1>2, LiveTyped DEF MessageAdded, HistoryId, Events
    <2> HIDE DEF e
    <2> QED BY <2>1, AppendGrows
  <1>3. CASE MessageDeleted
    <2>1. PICK m \in Live(log) : log' = Append(log, [kind |-> "deleted", msg |-> m])
      BY <1>3 DEF MessageDeleted
    <2> DEFINE e == [kind |-> "deleted", msg |-> m]
    <2>2. e \in Events /\ e.kind # "added" /\ e.msg \in Added(log) /\ log' = Append(log, e)
      BY <2>1, LiveTyped DEF Events
    <2> HIDE DEF e
    <2> QED BY <2>2, AppendGrows
  <1>4. CASE HistoryForgotten
    BY <1>4, StillGrown DEF HistoryForgotten, LogNamed
  <1> QED BY <1>2, <1>3, <1>4 DEF ProviderNext
-----------------------------------------------------------------------------
(* A batch whose pages stay has read what it had. *)
LEMMA PagesKept ==
    ASSUME NEW b, PagesOf(b)' = PagesOf(b)
    PROVE  /\ PageCount(b)' = PageCount(b) /\ LastPage(b)' = LastPage(b) /\ Ids(b)' = Ids(b)
           /\ NextToken(b)' = NextToken(b) /\ (FinalPersisted(b)' <=> FinalPersisted(b))
           /\ batches'[b].value = batches[b].value => ReadTo(b)' = ReadTo(b)
  <1>1. LastPage(b)' = LastPage(b)
    BY DEF LastPage
  <1>2. PageCount(b)' = PageCount(b) /\ Ids(b)' = Ids(b)
    BY DEF PageCount, Ids
  <1>3. NextToken(b)' = NextToken(b) /\ (FinalPersisted(b)' <=> FinalPersisted(b))
    BY <1>1 DEF NextToken, FinalPersisted
  <1>4. batches'[b].value = batches[b].value => ReadTo(b)' = ReadTo(b)
    BY <1>1 DEF ReadTo
  <1> QED BY <1>1, <1>2, <1>3, <1>4

(* The ids observed, batch by batch. *)
LEMMA ObservedIds ==
    ASSUME NEW modes
    PROVE  /\ Observed(modes) = UNION {Ids(b) : b \in {c \in CommittedBatches : batches[c].mode \in modes}}
           /\ Observed(modes)' = UNION {Ids(b)' : b \in {c \in CommittedBatches' : batches'[c].mode \in modes}}
  BY DEF Observed, Ids, PagesOf

(* What the batches have read stays read when the mailbox changes, and     *)
(* when a batch is opened, closed or failed.                               *)
LEMMA ReadKeeps ==
    ASSUME Journal, ProviderTyped, Grown, NotAhead, PagesCounted, HistoryRead, ScanRead, ScanKeepsAnchor,
           UNCHANGED pages,
           \A b \in DOMAIN batches : /\ b \in DOMAIN batches'
                                     /\ batches'[b].mode = batches[b].mode
                                     /\ batches'[b].value = batches[b].value,
           \A b \in DOMAIN batches' : b \notin DOMAIN batches =>
                /\ PagesOf(b) = {} /\ batches'[b].value \in Nat /\ batches'[b].value <= Len(log)
    PROVE  PagesCounted' /\ HistoryRead' /\ ScanRead' /\ ScanKeepsAnchor'
  <1>1. \A b : PagesOf(b)' = PagesOf(b)
    BY DEF PagesOf
  <1>2. \A p \in pages : p.batch \in DOMAIN batches /\ p \in PageRow
    BY DEF Journal, JournalTyped
  <1>3. PagesCounted'
    <2>1. \A p \in pages : PageCount(p.batch)' = PageCount(p.batch)
      BY <1>1, PagesKept
    <2> QED BY <2>1 DEF PagesCounted
  <1>4. ScanKeepsAnchor'
    BY <1>2 DEF ScanKeepsAnchor
  <1>5. HistoryRead'
    <2> SUFFICES ASSUME NEW b \in DOMAIN batches', batches'[b].mode = "history"
                 PROVE  /\ batches'[b].value <= ReadTo(b)' /\ ReadTo(b)' <= Len(log')
                        /\ Ids(b)' = (batches'[b].value + 1)..ReadTo(b)'
      BY DEF HistoryRead
    <2>1. CASE b \in DOMAIN batches
      <3>1. batches'[b].value = batches[b].value /\ ReadTo(b)' = ReadTo(b) /\ Ids(b)' = Ids(b)
        BY <1>1, <2>1, PagesKept
      <3>2. batches[b].value <= ReadTo(b) /\ ReadTo(b) <= Len(log) /\ batches[b].value \in Nat
        BY <2>1, BatchesTyped DEF HistoryRead, Journal, BatchRow, Positions
      <3>3. ReadTo(b) \in Int
        <4>1. PagesOf(b) # {} => LastPage(b) \in PageRow
          BY LastPageExists DEF Journal
        <4> QED BY <3>2, <4>1 DEF ReadTo, PageRow, Positions, HistoryIds
      <3>4. ReadTo(b) <= Len(log')
        BY <3>2, <3>3 DEF Grown
      <3> QED BY <2>1, <3>1, <3>2, <3>4 DEF HistoryRead
    <2>2. CASE b \notin DOMAIN batches
      <3>1. PagesOf(b)' = {} /\ batches'[b].value \in Nat /\ batches'[b].value <= Len(log')
        BY <1>1, <2>2 DEF Grown
      <3>2. ReadTo(b)' = batches'[b].value /\ Ids(b)' = {}
        BY <3>1 DEF ReadTo, Ids
      <3> QED BY <3>1, <3>2
    <2> QED BY <2>1, <2>2
  <1>6. ScanRead'
    <2> SUFFICES ASSUME NEW b \in DOMAIN batches', batches'[b].mode # "history"
                 PROVE  /\ Ids(b)' \subseteq Added(log')
                        /\ PagesOf(b)' # {} =>
                              \A m \in Live(log') :
                                LastPage(b)'.next <= m /\ m <= LastPage(b)'.hid => m \in Ids(b)'
      BY DEF ScanRead
    <2>1. CASE b \in DOMAIN batches
      <3>1. Ids(b)' = Ids(b) /\ LastPage(b)' = LastPage(b) /\ PagesOf(b)' = PagesOf(b)
        BY <1>1, PagesKept
      <3>2. Ids(b) \subseteq Added(log')
        BY <2>1 DEF ScanRead, Grown
      <3>3. ASSUME PagesOf(b) # {}, NEW m \in Live(log'), LastPage(b).next <= m,
                   m <= LastPage(b).hid
            PROVE  m \in Ids(b)
        <4>1. LastPage(b) \in pages /\ LastPage(b) \in PageRow
          BY <3>3, LastPageExists DEF Journal, PagesOf
        <4>2. LastPage(b).hid <= Len(log) /\ LastPage(b).hid \in Int
          BY <4>1 DEF NotAhead, PageRow, HistoryIds
        <4>3. m \in Int
          BY <3>3 DEF Grown
        <4>4. m \in Live(log)
          BY <3>3, <4>2, <4>3 DEF Grown
        <4> QED BY <2>1, <3>3, <4>4 DEF ScanRead
      <3> QED BY <3>1, <3>2, <3>3
    <2>2. CASE b \notin DOMAIN batches
      BY <1>1, <2>2 DEF Ids
    <2> QED BY <2>1, <2>2
  <1> QED BY <1>3, <1>4, <1>5, <1>6

(* Only records that are in the log have been observed. *)
LEMMA EventsInLog ==
    ASSUME Journal, ProviderTyped, HistoryRead
    PROVE  ObservedEvents \subseteq 1..Len(log)
  <1> SUFFICES ASSUME NEW h \in ObservedEvents PROVE h \in 1..Len(log)
    OBVIOUS
  <1>1. PICK b \in CommittedBatches : batches[b].mode = "history" /\ h \in Ids(b)
    BY ObservedIds DEF ObservedEvents
  <1>2. /\ b \in DOMAIN batches /\ ReadTo(b) <= Len(log)
        /\ Ids(b) = (batches[b].value + 1)..ReadTo(b) /\ batches[b].value \in Nat
    BY <1>1, BatchesTyped DEF HistoryRead, CommittedBatches, Journal, BatchRow, Positions
  <1>3. ReadTo(b) \in Int /\ Len(log) \in Nat
    <2>1. PagesOf(b) # {} => LastPage(b) \in PageRow
      BY LastPageExists DEF Journal
    <2> QED BY <1>2, <2>1, LiveTyped DEF ReadTo, PageRow, Positions, HistoryIds
  <1> QED BY <1>1, <1>2, <1>3

(* Nothing that is known is forgotten, and nothing new is claimed, as long *)
(* as no batch is committed.                                               *)
LEMMA KnownKeeps ==
    ASSUME Journal, ProviderTyped, Grown, NotAhead, Read, Known, cursor'.value = cursor.value,
           CommittedBatches' = CommittedBatches,
           \A b \in CommittedBatches : batches'[b] = batches[b] /\ PagesOf(b)' = PagesOf(b)
    PROVE  Known' /\ CommittedWhole' /\ ObservedMessages' = ObservedMessages
           /\ ObservedEvents' = ObservedEvents
  <1>1. \A b \in CommittedBatches : /\ Ids(b)' = Ids(b) /\ LastPage(b)' = LastPage(b)
                                    /\ FinalPersisted(b)' <=> FinalPersisted(b)
    BY PagesKept
  <1>2. ASSUME NEW modes PROVE Observed(modes)' = Observed(modes)
    <2> DEFINE S == {c \in CommittedBatches : batches[c].mode \in modes}
    <2>1. {c \in CommittedBatches' : batches'[c].mode \in modes} = S
      OBVIOUS
    <2>2. Observed(modes)' = UNION {Ids(b)' : b \in S}
      BY <2>1, ObservedIds
    <2>3. {Ids(b)' : b \in S} = {Ids(b) : b \in S}
      BY <1>1
    <2> QED BY <2>2, <2>3, ObservedIds
  <1>3. ObservedEvents' = ObservedEvents
    BY <1>2 DEF ObservedEvents
  <1>4. ObservedMessages' = ObservedMessages
    <2>1. \A h \in ObservedEvents : log'[h] = log[h]
      BY EventsInLog DEF Grown, Read
    <2> QED BY <1>2, <1>3, <2>1 DEF ObservedMessages
  <1>5. CommittedWhole'
    BY <1>1 DEF CommittedWhole, Read
  <1>6. cursor.value \in 0..Len(log)
    BY DEF Journal, JournalTyped, CursorRow, Positions, NotAhead, Grown
  <1>7. NoLiveMessageMissed'
    BY <1>4, <1>6 DEF Known, NoLiveMessageMissed, Grown
  <1>8. DeletionSeenOrScannedOver'
    <2>1. \A h : ScannedOver(h)' <=> ScannedOver(h)
      BY DEF ScannedOver
    <2>2. \A h \in 1..cursor.value : log'[h] = log[h]
      BY <1>6 DEF Grown
    <2> QED BY <1>3, <2>1, <2>2 DEF Known, DeletionSeenOrScannedOver
  <1> QED BY <1>3, <1>4, <1>5, <1>7, <1>8 DEF Known
-----------------------------------------------------------------------------
(* The page that fits becomes the last one of its batch. *)
LEMMA AppendedIsLast ==
    ASSUME Journal, PagesCounted, NEW p \in PageRow, Fits(p), AppendEffect(p)
    PROVE  /\ PagesOf(p.batch)' = PagesOf(p.batch) \union {p} /\ p \notin PagesOf(p.batch)
           /\ PageCount(p.batch)' = PageCount(p.batch) + 1
           /\ LastPage(p.batch)' = p
           /\ Ids(p.batch)' = Ids(p.batch) \union p.ids
           /\ \A b : b # p.batch => PagesOf(b)' = PagesOf(b)
  <1> DEFINE b == p.batch
  <1>1. pages' = pages \union {p}
    BY DEF AppendEffect
  <1>2. PagesOf(b)' = PagesOf(b) \union {p} /\ \A c : c # b => PagesOf(c)' = PagesOf(c)
    BY <1>1 DEF PagesOf
  <1>3. PageCount(b) \in Nat /\ p.ordinal = PageCount(b)
    BY PageCountIsNat DEF Journal, Fits
  <1>4. \A q \in PagesOf(b) : q.ordinal \in Nat /\ q.ordinal < p.ordinal
    BY <1>3 DEF PagesCounted, PagesOf, Journal, JournalTyped, PageRow
  <1>5. p \notin PagesOf(b)
    BY <1>3, <1>4
  <1>6. PageCount(b)' = PageCount(b) + 1
    <2>1. IsFiniteSet(PagesOf(b))
      BY FS_Subset DEF Journal, JournalTyped, PagesOf
    <2>2. Cardinality(PagesOf(b) \union {p}) = Cardinality(PagesOf(b)) + 1
      BY <1>5, <2>1, FS_AddElement
    <2> QED BY <1>2, <2>2 DEF PageCount
  <1>7. LastPage(b)' = p
    <2> DEFINE S == PagesOf(b) \union {p}
    <2>1. LastPage(b)' = CHOOSE x \in S : \A q \in S : q.ordinal <= x.ordinal
      BY <1>2 DEF LastPage
    <2>2. \A q \in S : q.ordinal <= p.ordinal
      BY <1>3, <1>4
    <2>3. \A x \in S : (\A q \in S : q.ordinal <= x.ordinal) => x = p
      BY <1>3, <1>4
    <2> HIDE DEF S
    <2>4. p \in S
      BY DEF S
    <2> QED BY <2>1, <2>2, <2>3, <2>4
  <1>8. Ids(b)' = Ids(b) \union p.ids
    BY <1>2 DEF Ids
  <1> QED BY <1>2, <1>5, <1>6, <1>7, <1>8

(* A batch goes on reading where it stopped: what it has read grows by the *)
(* page that fits and has no hole.                                         *)
LEMMA AppendReads ==
    ASSUME Journal, ProviderTyped, NotAhead, Read, NEW p \in PageRow, Fits(p), AppendEffect(p),
           UNCHANGED log
    PROVE  PagesCounted' /\ HistoryRead' /\ ScanRead' /\ ScanKeepsAnchor'
           /\ \A c \in CommittedBatches : PagesOf(c)' = PagesOf(c)
  <1> DEFINE b == p.batch
  <1>1. /\ pages' = pages \union {p} /\ batches' = batches /\ cursor' = cursor /\ gaps' = gaps
        /\ b \in DOMAIN batches /\ batches[b].status = "running"
        /\ ~FinalPersisted(b) /\ p.ordinal = PageCount(b) /\ (p.final <=> p.next = NoToken)
    BY DEF AppendEffect, Fits, RunningBatches
  <1>2. /\ PagesOf(b)' = PagesOf(b) \union {p} /\ PageCount(b)' = PageCount(b) + 1
        /\ LastPage(b)' = p /\ Ids(b)' = Ids(b) \union p.ids
        /\ \A c : c # b => PagesOf(c)' = PagesOf(c)
    BY AppendedIsLast DEF Read
  <1>3. /\ PageCount(b) \in Nat /\ batches[b] \in BatchRow /\ DOMAIN batches' = DOMAIN batches
        /\ PagesOf(b) # {} => LastPage(b) \in PagesOf(b) /\ LastPage(b) \in PageRow
    BY <1>1, PageCountIsNat, BatchesTyped, LastPageExists DEF Journal
  <1>4. \A q \in pages : q.batch \in DOMAIN batches /\ q \in PageRow
    BY DEF Journal, JournalTyped
  <1>5. PagesCounted'
    <2>1. \A q \in pages : q.ordinal < PageCount(q.batch) /\ q.ordinal \in Nat
      BY <1>4 DEF Read, PagesCounted, PageRow
    <2>2. \A q \in pages : q.batch # b => PageCount(q.batch)' = PageCount(q.batch)
      BY <1>2, PagesKept
    <2>3. \A q \in pages' : q.ordinal < PageCount(q.batch)'
      <3> SUFFICES ASSUME NEW q \in pages' PROVE q.ordinal < PageCount(q.batch)'
        OBVIOUS
      <3>1. CASE q = p
        BY <1>1, <1>2, <1>3, <3>1
      <3>2. CASE q \in pages /\ q.batch = b
        BY <1>2, <1>3, <2>1, <3>2
      <3>3. CASE q \in pages /\ q.batch # b
        BY <2>1, <2>2, <3>3
      <3> QED BY <1>1, <3>1, <3>2, <3>3
    <2>4. \A q \in pages' : q.final <=> q.next = NoToken
      BY <1>1 DEF Read, PagesCounted
    <2>5. \A q \in pages : q.batch = b => q.ordinal # p.ordinal
      BY <1>1, <1>3, <2>1
    <2>6. \A q, x \in pages' : x.batch = q.batch /\ x.ordinal = q.ordinal => x = q
      BY <1>1, <2>5 DEF Read, PagesCounted
    <2> QED BY <2>3, <2>4, <2>6 DEF PagesCounted
  <1>6. HistoryRead'
    <2> SUFFICES ASSUME NEW c \in DOMAIN batches, batches[c].mode = "history"
                 PROVE  /\ batches[c].value <= ReadTo(c)' /\ ReadTo(c)' <= Len(log)
                        /\ Ids(c)' = (batches[c].value + 1)..ReadTo(c)'
      BY <1>1 DEF HistoryRead
    <2>1. /\ batches[c].value <= ReadTo(c) /\ ReadTo(c) <= Len(log)
          /\ Ids(c) = (batches[c].value + 1)..ReadTo(c)
      BY DEF Read, HistoryRead
    <2>2. CASE c # b
      BY <1>1, <1>2, <2>1, <2>2, PagesKept
    <2>3. CASE c = b
      <3> DEFINE to == IF p.final THEN p.hid ELSE p.next
      <3>1. ReadTo(b)' = to
        BY <1>2 DEF ReadTo
      <3>2. ReadTo(b) <= to /\ to <= Len(log) /\ p.ids = (ReadTo(b) + 1)..to
        BY <2>3 DEF Fits
      <3>3. to \in Int /\ batches[b].value \in Int /\ ReadTo(b) \in Int
        BY <1>3 DEF PageRow, Positions, HistoryIds, BatchRow, ReadTo
      <3> HIDE DEF to
      <3>4. Ids(b)' = (batches[b].value + 1)..to
        BY <1>2, <2>1, <2>3, <3>2, <3>3
      <3> QED BY <2>1, <2>3, <3>1, <3>2, <3>3, <3>4
    <2> QED BY <2>2, <2>3
  <1>7. ScanRead'
    <2> SUFFICES ASSUME NEW c \in DOMAIN batches, batches[c].mode # "history"
                 PROVE  /\ Ids(c)' \subseteq Added(log)
                        /\ PagesOf(c)' # {} =>
                              \A m \in Live(log) :
                                LastPage(c)'.next <= m /\ m <= LastPage(c)'.hid => m \in Ids(c)'
      BY <1>1 DEF ScanRead, Added, Live, DeletedBy
    <2>1. CASE c # b
      BY <1>2, <2>1, PagesKept DEF Read, ScanRead
    <2>2. CASE c = b
      <3>1. /\ p.ids \subseteq Added(log) /\ \A q \in PagesOf(b) : q.hid = p.hid
            /\ \A m \in Live(log) :
                  /\ p.next <= m /\ m <= p.hid
                  /\ NextToken(b) = NoToken \/ m < NextToken(b)
                  => m \in p.ids
        BY <2>2 DEF Fits
      <3>2. ASSUME NEW m \in Live(log), p.next <= m, m <= p.hid PROVE m \in Ids(b)'
        <4>1. CASE NextToken(b) = NoToken \/ m < NextToken(b)
          BY <1>2, <3>1, <3>2, <4>1
        <4>2. CASE NextToken(b) # NoToken /\ ~(m < NextToken(b))
          <5>1. PagesOf(b) # {} /\ NextToken(b) = LastPage(b).next
            BY <4>2 DEF NextToken
          <5>2. LastPage(b).hid = p.hid
            BY <1>3, <3>1, <5>1
          <5>3. m \in Int /\ LastPage(b).next \in Int
            BY <1>3, <5>1, LiveTyped DEF PageRow, Positions, HistoryIds
          <5>4. LastPage(b).next <= m /\ m <= LastPage(b).hid
            BY <3>2, <4>2, <5>1, <5>2, <5>3
          <5>5. m \in Ids(b)
            BY <2>2, <5>1, <5>4 DEF Read, ScanRead
          <5> QED BY <1>2, <5>5
        <4> QED BY <4>1, <4>2
      <3>3. Ids(b) \subseteq Added(log)
        BY <2>2 DEF Read, ScanRead
      <3> QED BY <1>2, <2>2, <3>1, <3>2, <3>3
    <2> QED BY <2>1, <2>2
  <1>8. ScanKeepsAnchor'
    <2>1. batches[b].mode # "history" => \A q \in pages : q.batch = b => q.hid = p.hid
      BY DEF Fits, PagesOf
    <2> QED BY <1>1, <2>1 DEF Read, ScanKeepsAnchor
  <1>9. \A c \in CommittedBatches : PagesOf(c)' = PagesOf(c)
    BY <1>1, <1>2 DEF CommittedBatches
  <1> QED BY <1>5, <1>6, <1>7, <1>8, <1>9
-----------------------------------------------------------------------------
(* What a commit finds: its checks on the chain of pages make the last     *)
(* page the final one.                                                     *)
LEMMA CommitFindsFinal ==
    ASSUME Journal, PagesCounted, NEW b, PagesOf(b) # {}, ChainComplete(b)
    PROVE  FinalPersisted(b)
  <1> DEFINE last == PageCount(b) - 1
  <1>1. PageCount(b) \in Nat /\ LastPage(b) \in PagesOf(b) /\ LastPage(b) \in PageRow
    BY PageCountIsNat, LastPageExists DEF Journal
  <1>2. PICK f \in PagesOf(b) : f.final
    <2>1. Cardinality({p \in PagesOf(b) : p.final}) = 1
      BY DEF ChainComplete
    <2>2. {p \in PagesOf(b) : p.final} # {}
      BY <2>1, FS_EmptySet
    <2> QED BY <2>2
  <1>3. f.ordinal = last
    BY <1>2 DEF ChainComplete
  <1>4. \A p \in PagesOf(b) : p.ordinal \in Nat /\ p.ordinal < PageCount(b)
    BY DEF PagesCounted, PagesOf, Journal, JournalTyped, PageRow
  <1>5. f.ordinal <= LastPage(b).ordinal
    <2> DEFINE Greatest(p) == \A q \in PagesOf(b) : q.ordinal <= p.ordinal
    <2>1. Greatest(f)
      BY <1>1, <1>3, <1>4
    <2>2. LastPage(b) = CHOOSE p \in PagesOf(b) : Greatest(p)
      BY DEF LastPage
    <2>3. Greatest(LastPage(b))
      <3> HIDE DEF Greatest
      <3> QED BY <2>1, <2>2
    <2> QED BY <2>3
  <1>6. LastPage(b).ordinal = f.ordinal
    BY <1>1, <1>3, <1>4, <1>5
  <1>7. LastPage(b) = f
    BY <1>1, <1>6 DEF PagesCounted, PagesOf
  <1> QED BY <1>1, <1>2, <1>7 DEF FinalPersisted

(* A commit moves the cursor to where its batch has read, and so to        *)
(* nothing that is not known.                                              *)
LEMMA CommitReads ==
    ASSUME Journal, ProviderTyped, LogNamed, NotAhead, Read, Known, NEW o, NEW f, NEW b,
           CommitAccepted(o, f, b), CommitEffect(b), UNCHANGED log
    PROVE  Read' /\ Known' /\ cursor'.value <= Len(log) /\ cursor'.value >= cursor.value
           /\ ObservedMessages \subseteq ObservedMessages'
  <1> DEFINE n == LastPage(b).hid
  <1>1. /\ b \in DOMAIN batches /\ batches[b].status = "running" /\ AtCursor(b)
        /\ NextCursor(b) \in HistoryIds /\ NextCursor(b) >= cursor.value
        /\ cursor'.value = NextCursor(b)
        /\ batches' \in Seq(BatchRow) /\ DOMAIN batches' = DOMAIN batches
        /\ \A c \in DOMAIN batches : c # b => batches'[c] = batches[c]
        /\ batches'[b].status = "committed" /\ batches'[b].committed = NextCursor(b)
        /\ batches'[b].value = cursor.value
    BY CommitStep
  <1>2. /\ cursor'.value = n /\ n >= cursor.value /\ n \in HistoryIds
        /\ batches[b].value = cursor.value /\ batches[b] \in BatchRow
        /\ batches'[b].mode = batches[b].mode
    <2>1. batches' = [batches EXCEPT ![b].status = "committed", ![b].committed = NextCursor(b)]
      BY DEF CommitEffect
    <2>2. batches[b] \in BatchRow
      BY <1>1, BatchesTyped DEF Journal
    <2>3. batches'[b].mode = batches[b].mode
      BY <1>1, <2>1, <2>2 DEF BatchRow
    <2> QED BY <1>1, <2>2, <2>3 DEF NextCursor, AtCursor
  <1> HIDE DEF n
  <1>3. pages' = pages /\ PagesOf(b) # {} /\ FinalPersisted(b) /\ ReadTo(b) = n
    <2>1. FinalPersisted(b) /\ PagesOf(b) # {}
      BY CommitFindsFinal DEF CommitAccepted, Read
    <2> QED BY <2>1 DEF CommitEffect, FinalPersisted, ReadTo, n
  <1>4. n <= Len(log)
    <2>1. LastPage(b) \in pages
      BY <1>3, LastPageExists DEF Journal, PagesOf
    <2> QED BY <2>1 DEF NotAhead, n
  <1>5. \A c : PagesOf(c)' = PagesOf(c)
    BY <1>3 DEF PagesOf
  <1>6. PagesCounted' /\ HistoryRead' /\ ScanRead' /\ ScanKeepsAnchor'
    BY <1>1, <1>2, <1>3, StillGrown, ReadKeeps DEF Read
  <1>7. CommittedBatches' = CommittedBatches \union {b} /\ b \notin CommittedBatches
        /\ \A c \in CommittedBatches : batches'[c] = batches[c]
    BY <1>1 DEF CommittedBatches
  <1>8. CommittedWhole'
    <2>1. \A c : LastPage(c)' = LastPage(c) /\ (FinalPersisted(c)' <=> FinalPersisted(c))
      BY <1>5, PagesKept
    <2> QED BY <1>1, <1>3, <1>7, <2>1 DEF Read, CommittedWhole, NextCursor
  <1>9. ASSUME NEW modes
        PROVE  /\ Observed(modes) \subseteq Observed(modes)'
               /\ batches[b].mode \in modes => Ids(b) \subseteq Observed(modes)'
    <2> DEFINE S == {c \in CommittedBatches : batches[c].mode \in modes}
               T == {c \in CommittedBatches' : batches'[c].mode \in modes}
    <2>1. S \subseteq T /\ (batches[b].mode \in modes => b \in T)
      BY <1>2, <1>7
    <2>2. \A c : Ids(c)' = Ids(c)
      BY <1>5, PagesKept
    <2>3. Observed(modes) = UNION {Ids(c) : c \in S} /\ Observed(modes)' = UNION {Ids(c)' : c \in T}
      BY ObservedIds
    <2> HIDE DEF S, T
    <2> QED BY <2>1, <2>2, <2>3
  <1>10. ObservedEvents \subseteq ObservedEvents'
         /\ (batches[b].mode = "history" => Ids(b) \subseteq ObservedEvents')
    BY <1>9 DEF ObservedEvents
  <1>11. ObservedMessages \subseteq ObservedMessages'
    BY <1>9, <1>10 DEF ObservedMessages
  <1>12. Len(log) \in Nat /\ cursor.value \in Int /\ n \in Int
    BY <1>2, LiveTyped DEF BatchRow, Positions, HistoryIds
  <1>13. batches[b].mode = "history" => Ids(b) = (cursor.value + 1)..n
    BY <1>1, <1>2, <1>3 DEF Read, HistoryRead
  <1>14. NoLiveMessageMissed'
    <2> SUFFICES ASSUME NEW m \in Live(log), m <= n PROVE m \in ObservedMessages'
      BY <1>2 DEF NoLiveMessageMissed
    <2>1. m \in HistoryIds /\ m \in Int
      BY LiveTyped DEF HistoryIds
    <2>2. CASE m <= cursor.value
      BY <1>11, <2>2 DEF Known, NoLiveMessageMissed
    <2>3. CASE ~(m <= cursor.value) /\ batches[b].mode = "history"
      <3>1. m \in ObservedEvents'
        BY <1>10, <1>12, <1>13, <2>1, <2>3
      <3>2. PICK i \in DOMAIN log : log[i].kind = "added" /\ log[i].msg = m
        BY LiveTyped DEF Added
      <3>3. i = m
        BY <3>2 DEF LogNamed
      <3> QED BY <3>1, <3>2, <3>3 DEF ObservedMessages
    <2>4. CASE batches[b].mode # "history"
      <3>1. LastPage(b).final /\ LastPage(b).next = NoToken
        <4>1. LastPage(b) \in pages /\ LastPage(b).final
          BY <1>3, LastPageExists DEF Journal, PagesOf, FinalPersisted
        <4> QED BY <4>1 DEF Read, PagesCounted
      <3>2. LastPage(b).next <= m
        BY <2>1, <3>1 DEF NoToken, HistoryIds
      <3>3. m \in Ids(b)
        BY <1>1, <1>3, <2>4, <3>2 DEF Read, ScanRead, n
      <3>4. batches[b].mode \in {"backfill", "reconciliation"}
        BY <1>2, <2>4 DEF BatchRow, Modes
      <3> QED BY <1>9, <3>3, <3>4 DEF ObservedMessages
    <2> QED BY <2>2, <2>3, <2>4
  <1>15. DeletionSeenOrScannedOver'
    <2> SUFFICES ASSUME NEW h \in 1..n, log[h].kind = "deleted"
                 PROVE  h \in ObservedEvents' \/ ScannedOver(h)'
      BY <1>2 DEF DeletionSeenOrScannedOver
    <2>1. CASE h <= cursor.value
      <3>1. h \in ObservedEvents \/ ScannedOver(h)
        BY <1>12, <2>1 DEF Known, DeletionSeenOrScannedOver
      <3>2. ScannedOver(h) => ScannedOver(h)'
        BY <1>7 DEF ScannedOver
      <3> QED BY <1>10, <3>1, <3>2
    <2>2. CASE ~(h <= cursor.value) /\ batches[b].mode = "history"
      BY <1>10, <1>12, <1>13, <2>2
    <2>3. CASE ~(h <= cursor.value) /\ batches[b].mode # "history"
      <3>1. b \in CommittedBatches' /\ batches'[b].value < h /\ h <= batches'[b].committed
        BY <1>1, <1>2, <1>7, <1>12, <2>3
      <3> QED BY <1>2, <2>3, <3>1 DEF ScannedOver
    <2> QED BY <2>1, <2>2, <2>3
  <1> QED BY <1>2, <1>4, <1>6, <1>8, <1>11, <1>14, <1>15 DEF Read, Known
-----------------------------------------------------------------------------
(* A page that fits goes on fitting while the journal stays, however the   *)
(* mailbox changes: what is added is newer than the page.                  *)
LEMMA FitsKeeps ==
    ASSUME Journal, ProviderTyped, Grown, UNCHANGED journalVars, NEW p \in PageRow, Fits(p)
    PROVE  Fits(p)'
  <1> DEFINE b == p.batch
  <1>1. /\ pages' = pages /\ batches' = batches /\ cursor' = cursor
        /\ RunningBatches' = RunningBatches
    BY DEF journalVars, RunningBatches, AtCursor
  <1>2. PagesOf(b)' = PagesOf(b)
    BY <1>1 DEF PagesOf
  <1>3. /\ PageCount(b)' = PageCount(b) /\ NextToken(b)' = NextToken(b) /\ ReadTo(b)' = ReadTo(b)
        /\ FinalPersisted(b)' <=> FinalPersisted(b)
    BY <1>1, <1>2, PagesKept
  <1>4. p.hid <= Len(log) /\ p.hid \in Int /\ Len(log) \in Nat /\ Len(log') \in Nat
        /\ Len(log) <= Len(log') /\ p.next \in Int
    BY DEF Fits, Grown, PageRow, HistoryIds, Positions
  <1>5. CASE batches[b].mode = "history"
    <2> DEFINE to == IF p.final THEN p.hid ELSE p.next
    <2>1. ReadTo(b) <= to /\ to <= Len(log) /\ p.ids = (ReadTo(b) + 1)..to
      BY <1>5 DEF Fits
    <2>2. to \in Int
      BY <1>4
    <2> HIDE DEF to
    <2>3. to <= Len(log')
      BY <1>4, <2>1, <2>2
    <2> QED BY <1>1, <1>2, <1>3, <1>4, <1>5, <2>1, <2>3 DEF Fits, to
  <1>6. CASE batches[b].mode # "history"
    <2>1. ASSUME NEW m \in Live(log'), p.next <= m, m <= p.hid,
                 NextToken(b) = NoToken \/ m < NextToken(b)
          PROVE  m \in p.ids
      <3>1. m \in Live(log)
        BY <1>4, <2>1 DEF Grown
      <3> QED BY <1>6, <2>1, <3>1 DEF Fits
    <2>2. p.ids \subseteq Added(log')
      BY <1>6 DEF Fits, Grown
    <2> QED BY <1>1, <1>2, <1>3, <1>4, <1>6, <2>1, <2>2 DEF Fits
  <1> QED BY <1>5, <1>6

(* The answers of Gmail are pages that fit: of the history from where the  *)
(* batch has read, *)
LEMMA HistoryFits ==
    ASSUME Journal, ProviderTyped, NotAhead, Read, NEW b \in RunningBatches, ~FinalPersisted(b),
           batches[b].mode = "history",
           NEW resp \in HistoryResponses(cursor.value, NextToken(b)),
           NEW p \in PageRow, p.batch = b, p.ordinal = PageCount(b), p.next = resp.next,
           p.hid = resp.hid, p.ids = resp.ids, p.final <=> p.next = NoToken
    PROVE  Fits(p)
  <1>1. b \in DOMAIN batches /\ batches[b].value = cursor.value /\ cursor.value \in Nat
    BY DEF RunningBatches, AtCursor, Journal, JournalTyped, CursorRow, Positions
  <1>2. PagesOf(b) # {} => LastPage(b) \in pages /\ LastPage(b) \in PageRow
    BY LastPageExists DEF Journal, PagesOf
  <1>3. ReadTo(b) <= Len(log) /\ Len(log) \in Nat
    BY <1>1, LiveTyped DEF Read, HistoryRead
  <1>4. ReadTo(b) = (IF NextToken(b) = NoToken THEN cursor.value ELSE NextToken(b))
        /\ ReadTo(b) \in Nat
    <2>1. CASE PagesOf(b) = {}
      BY <1>1, <2>1 DEF ReadTo, NextToken
    <2>2. CASE PagesOf(b) # {}
      <3>1. ~LastPage(b).final /\ LastPage(b).next # NoToken
        BY <1>2, <2>2 DEF FinalPersisted, Read, PagesCounted
      <3> QED BY <1>2, <2>2, <3>1 DEF ReadTo, NextToken, PageRow, Positions
    <2> QED BY <2>1, <2>2
  <1>5. PICK to \in (ReadTo(b) + 1)..HistoryId \union {HistoryId} :
           resp = [next |-> IF to = HistoryId THEN NoToken ELSE to,
                   hid |-> HistoryId, ids |-> (ReadTo(b) + 1)..to]
    BY <1>4 DEF HistoryResponses
  <1>6. /\ resp.hid = Len(log) /\ resp.ids = (ReadTo(b) + 1)..to
        /\ resp.next = IF to = Len(log) THEN NoToken ELSE to
    BY <1>5 DEF HistoryId
  <1>7. ReadTo(b) <= to /\ to <= Len(log) /\ (to # Len(log) => to # NoToken)
    BY <1>3, <1>4, <1>5 DEF HistoryId, NoToken
  <1>8. to = IF p.final THEN p.hid ELSE p.next
    BY <1>6, <1>7
  <1>9. p.hid <= Len(log)
    BY <1>3, <1>6
  <1> QED BY <1>6, <1>7, <1>8, <1>9 DEF Fits

(* and of the mailbox, from the token down. *)
LEMMA ScanFits ==
    ASSUME Journal, ProviderTyped, NEW b \in RunningBatches, ~FinalPersisted(b),
           batches[b].mode # "history",
           NEW resp \in MailboxResponses(NextToken(b)),
           NEW p \in PageRow, p.batch = b, p.ordinal = PageCount(b), p.next = resp.next,
           p.ids = resp.ids, p.final <=> p.next = NoToken, p.hid <= Len(log),
           \A q \in PagesOf(b) : q.hid = p.hid
    PROVE  Fits(p)
  <1> DEFINE rest == {m \in Live(log) : NextToken(b) = NoToken \/ m < NextToken(b)}
  <1>1. rest \subseteq Added(log) /\ rest \subseteq Int
    BY LiveTyped DEF HistoryIds
  <1>2. p.ids \subseteq rest /\ \A m \in rest : p.next <= m => m \in p.ids
    <2>1. CASE rest = {}
      BY <2>1 DEF MailboxResponses
    <2>2. CASE rest # {}
      <3>1. PICK c \in rest : resp = [next |-> IF \E m \in rest : m < c THEN c ELSE NoToken,
                                      ids |-> {m \in rest : m >= c}]
        BY <2>2 DEF MailboxResponses
      <3>2. resp.ids = {m \in rest : m >= c} /\ resp.next = IF \E m \in rest : m < c THEN c ELSE NoToken
        BY <3>1
      <3> HIDE DEF rest
      <3>3. \A m \in rest : p.next <= m => c <= m
        BY <1>1, <3>2
      <3> QED BY <1>1, <3>2, <3>3
    <2> QED BY <2>1, <2>2
  <1>3. p.ids \subseteq Added(log)
    BY <1>1, <1>2
  <1> QED BY <1>2, <1>3 DEF Fits
-----------------------------------------------------------------------------
(* What a run knows of its batch stays so while the journal does. *)
LEMMA FollowsKeeps ==
    ASSUME IInv, Grown, UNCHANGED journalVars, NEW r \in Owners, run'[r] = run[r], Follows(r)
    PROVE  Follows(r)'
  <1>1. PICK b \in RunningBatches :
          /\ run[r].batch = b /\ ~FinalPersisted(b)
          /\ batches[b].mode = run[r].mode
          /\ run[r].start = cursor.value
          /\ run[r].ordinal = PageCount(b)
          /\ run[r].token = NextToken(b)
          /\ run[r].pc = "capture_profile_anchor" => run[r].mode # "history" /\ PagesOf(b) = {}
          /\ run[r].pc # "capture_profile_anchor" /\ run[r].mode # "history" =>
                \A q \in PagesOf(b) : q.hid = run[r].anchor
          /\ run[r].pc = "append_page" =>
                /\ \A p \in {PageOf(r)} : Fits(p)
                /\ run[r].mode # "history" => run[r].resp.hid = run[r].anchor
    BY DEF Follows
  <1>2. /\ pages' = pages /\ batches' = batches /\ cursor' = cursor
        /\ RunningBatches' = RunningBatches /\ PagesOf(b)' = PagesOf(b)
    BY DEF journalVars, RunningBatches, AtCursor, PagesOf
  <1>3. /\ PageCount(b)' = PageCount(b) /\ NextToken(b)' = NextToken(b)
        /\ FinalPersisted(b)' <=> FinalPersisted(b)
    BY <1>2, PagesKept
  <1>4. run[r].pc = "append_page" => \A p \in {PageOf(r)'} : Fits(p)'
    <2> SUFFICES ASSUME run[r].pc = "append_page", NEW p, p = PageOf(r) PROVE Fits(p)'
      BY DEF PageOf
    <2>1. p \in PageRow
      BY CallsAreTyped DEF IInv, RunsTyped, CallTyped, AppendCall, At
    <2> QED BY <1>1, <2>1, FitsKeeps DEF IInv
  <1> QED BY <1>1, <1>2, <1>3, <1>4 DEF Follows

(* Under the lease of a run that is at work nobody else writes. *)
LEMMA SoleWriter ==
    ASSUME OneWriter, NEW r \in Owners, Holds(r), ~At(r, "idle")
    PROVE  /\ \A q \in Owners : Holds(q) => q = r
           /\ \A c \in late : ~LeaseHeld(c.owner, c.fence)
  BY DEF OneWriter, Holds, LeaseHeld

(* When the journal does not change, what is read and known stays. *)
LEMMA QuietReads ==
    ASSUME IInv, CInv, Grown, UNCHANGED journalVars
    PROVE  NotAhead' /\ Read' /\ Known' /\ ObservedMessages' = ObservedMessages
  <1>1. /\ Journal /\ ProviderTyped /\ NotAhead /\ Read /\ Known
        /\ pages' = pages /\ batches' = batches /\ cursor' = cursor /\ gaps' = gaps
        /\ CommittedBatches' = CommittedBatches /\ \A b : PagesOf(b)' = PagesOf(b)
    BY DEF IInv, CInv, journalVars, CommittedBatches, PagesOf
  <1>2. PagesCounted' /\ HistoryRead' /\ ScanRead' /\ ScanKeepsAnchor'
    BY <1>1, ReadKeeps DEF Read
  <1>3. Known' /\ CommittedWhole' /\ ObservedMessages' = ObservedMessages
    BY <1>1, KnownKeeps
  <1>4. NotAhead'
    <2>1. /\ cursor.value \in Int /\ \A g \in gaps : g.anchor \in Int
          /\ \A p \in pages : p.hid \in Int
      BY <1>1 DEF Journal, JournalTyped, CursorRow, Positions, GapRow, HistoryIds, PageRow
    <2> QED BY <1>1, <2>1 DEF NotAhead, Grown
  <1> QED BY <1>2, <1>3, <1>4 DEF Read

(* A step of a run that leaves the journal and the mailbox alone. *)
LEMMA LocalStep ==
    ASSUME IInv, CInv, UNCHANGED <<log, journalVars, late>>, NEW r \in Owners, NEW x,
           run' = [run EXCEPT ![r] = x],
           x.anchor <= Len(log), x.fence <= cursor.fence, At(r, "idle") => x.pc = "idle",
           x.pc \in Filling /\ LeaseHeld(r, x.fence) => Follows(r)'
    PROVE  CInv'
  <1>1. Grown /\ LogNamed'
    BY StillGrown DEF IInv, CInv, LogNamed, Added
  <1>2. NotAhead' /\ Read' /\ Known'
    BY <1>1, QuietReads
  <1>3. run'[r] = x /\ \A q \in Owners : q # r => run'[q] = run[q]
    BY DEF IInv, RunsTyped
  <1>4. AnchorsNotAhead'
    BY <1>3 DEF CInv, AnchorsNotAhead
  <1>5. cursor' = cursor
    BY DEF journalVars
  <1>6. OneWriter'
    <2>1. \A q \in Owners : run'[q].fence <= cursor.fence
      BY <1>3 DEF CInv, OneWriter
    <2>2. \A q \in Owners : run[q].pc = "idle" => run'[q].pc = "idle"
      BY <1>3 DEF At
    <2> QED BY <1>5, <2>1, <2>2 DEF CInv, OneWriter, LeaseHeld, At
  <1>7. Writers'
    <2>1. ASSUME NEW q \in Owners, run'[q].pc \in Filling, Holds(q)' PROVE Follows(q)'
      <3>1. CASE q = r
        BY <1>3, <1>5, <2>1, <3>1 DEF Holds, LeaseHeld
      <3>2. CASE q # r
        <4>1. run'[q] = run[q]
          BY <1>3, <3>2
        <4>2. Follows(q)
          BY <1>5, <2>1, <4>1 DEF CInv, Writers, Holds, LeaseHeld
        <4> QED BY <1>1, <4>1, <4>2, FollowsKeeps
      <3> QED BY <3>1, <3>2
    <2>2. ASSUME NEW c \in late, c.rpc = "append_page", LeaseHeld(c.owner, c.fence)
          PROVE  Fits(c.page)'
      <3>1. Fits(c.page) /\ c.page \in PageRow
        BY <2>2 DEF CInv, Writers, IInv, LateTyped, CallTyped
      <3> QED BY <1>1, <3>1, FitsKeeps DEF IInv
    <2> QED BY <1>5, <2>1, <2>2 DEF Writers, LeaseHeld
  <1> QED BY <1>1, <1>2, <1>4, <1>6, <1>7 DEF CInv

(* A run that ends. *)
LEMMA EndStep ==
    ASSUME IInv, CInv, UNCHANGED <<log, journalVars, late>>, NEW r \in Owners, End(r)
    PROVE  CInv'
  <1>1. Ended.pc = "idle" /\ Ended.anchor = 0 /\ Ended.fence = 0 /\ Ended.pc \notin Filling
    BY DEF Ended, Filling
  <1>2. 0 <= Len(log) /\ 0 <= cursor.fence
    BY LiveTyped DEF IInv, Journal, JournalTyped, CursorRow
  <1> QED BY <1>1, <1>2, LocalStep DEF End
-----------------------------------------------------------------------------
(* A lease that is taken or ends says nothing of the mailbox. *)
LEMMA LeaseReads ==
    ASSUME IInv, CInv, UNCHANGED <<log, batches, pages, gaps>>, cursor'.value = cursor.value
    PROVE  LogNamed' /\ NotAhead' /\ Read' /\ Known' /\ ObservedMessages' = ObservedMessages
  <1>1. Grown /\ LogNamed'
    BY StillGrown DEF IInv, CInv, LogNamed, Added
  <1>2. /\ Journal /\ ProviderTyped /\ NotAhead /\ Read /\ Known
        /\ CommittedBatches' = CommittedBatches /\ \A b : PagesOf(b)' = PagesOf(b)
    BY DEF IInv, CInv, CommittedBatches, PagesOf
  <1>3. PagesCounted' /\ HistoryRead' /\ ScanRead' /\ ScanKeepsAnchor'
    BY <1>1, <1>2, ReadKeeps DEF Read
  <1>4. Known' /\ CommittedWhole' /\ ObservedMessages' = ObservedMessages
    BY <1>1, <1>2, KnownKeeps
  <1>5. NotAhead'
    BY <1>2 DEF NotAhead
  <1> QED BY <1>1, <1>3, <1>4, <1>5 DEF Read

(* Without a lease nobody writes. *)
LEMMA NobodyWrites ==
    ASSUME ~cursor'.live
    PROVE  Writers' /\ \A o, f : ~LeaseHeld(o, f)'
  BY DEF Writers, Holds, LeaseHeld

(* A granted lease has one writer: the fence is new, or its owner is back. *)
LEMMA AcquireC ==
    ASSUME IInv, CInv, NEW r \in Owners, Acquire(r)
    PROVE  CInv'
  <1> DEFINE mode == ModeFor(cursor.status)
             fence == IF cursor.live THEN cursor.fence ELSE cursor.fence + 1
             granted == [run[r] EXCEPT !.fence = fence, !.start = cursor.value]
             x == IF run[r].mode = mode THEN [granted EXCEPT !.pc = "begin"]
                  ELSE IF run[r].mode = "history"
                       THEN [Ended EXCEPT !.pc = "acquire", !.mode = mode]
                       ELSE Ended
  <1>1. UNCHANGED <<log, late>> /\ run \in [Owners -> RunRow] /\ cursor \in CursorRow
    BY DEF Acquire, providerVars, IInv, RunsTyped, Journal, JournalTyped
  <1>2. CASE End(r) /\ UNCHANGED journalVars
    BY <1>1, <1>2, EndStep
  <1>3. CASE Granted(r) /\ AcquireEffect(r) /\ run' = [run EXCEPT ![r] = x]
    <2>1. x.anchor <= Len(log) /\ x.fence \in {0, fence} /\ x.pc \notin Filling
      <3>1. run[r].anchor <= Len(log) /\ 0 <= Len(log) /\ run[r] \in RunRow
        BY <1>1, LiveTyped DEF CInv, AnchorsNotAhead, IInv
      <3> DEFINE y == [granted EXCEPT !.pc = "begin"]
      <3>2. y.anchor = run[r].anchor /\ y.fence = fence /\ y.pc = "begin"
        BY <3>1 DEF RunRow
      <3> DEFINE z == [Ended EXCEPT !.pc = "acquire", !.mode = mode]
      <3>3. z.anchor = 0 /\ z.fence = 0 /\ z.pc = "acquire"
        BY DEF Ended
      <3>4. Ended.anchor = 0 /\ Ended.fence = 0 /\ Ended.pc = "idle"
        BY DEF Ended
      <3>5. x = y \/ x = z \/ x = Ended
        OBVIOUS
      <3> HIDE DEF x, y, z
      <3> QED BY <3>1, <3>2, <3>3, <3>4, <3>5 DEF Filling
    <2> HIDE DEF x
    <2>2. CASE cursor.live
      <3>1. UNCHANGED journalVars /\ ~At(r, "idle")
        BY <1>3, <2>2 DEF AcquireEffect, Granted, journalVars
      <3>2. x.fence <= cursor.fence
        BY <1>1, <2>1, <2>2 DEF CursorRow
      <3> QED BY <1>1, <1>3, <2>1, <3>1, <3>2, LocalStep
    <2>3. CASE ~cursor.live
      <3>1. /\ cursor'.value = cursor.value /\ cursor'.owner = r /\ cursor'.fence = cursor.fence + 1
            /\ cursor.fence \in Nat /\ UNCHANGED <<batches, pages, gaps>>
        <4>1. cursor' = [cursor EXCEPT !.owner = r, !.fence = cursor.fence + 1, !.live = TRUE]
          BY <1>3, <2>3 DEF AcquireEffect
        <4> QED BY <1>1, <1>3, <2>3, <4>1 DEF CursorRow, AcquireEffect
      <3>2. LogNamed' /\ NotAhead' /\ Read' /\ Known'
        BY <1>1, <3>1, LeaseReads
      <3>3. run'[r] = x /\ \A q \in Owners : q # r => run'[q] = run[q]
        BY <1>1, <1>3
      <3>4. AnchorsNotAhead'
        BY <1>1, <2>1, <3>3 DEF CInv, AnchorsNotAhead
      <3>5. \A c \in late : ~LeaseHeld(c.owner, c.fence)'
        BY <3>1 DEF CInv, OneWriter, LeaseHeld
      <3>6. OneWriter'
        <4>1. \A q \in Owners : run'[q].fence <= cursor'.fence
          <5>1. x.fence <= cursor'.fence
            BY <2>1, <2>3, <3>1
          <5>2. \A q \in Owners : run[q].fence <= cursor.fence /\ run[q].fence \in Nat
            BY <1>1 DEF CInv, OneWriter, RunRow
          <5> QED BY <3>1, <3>3, <5>1, <5>2
        <4>2. \A c \in late : c.owner \in Owners /\ c.fence \in Nat /\ c.fence <= cursor'.fence
          BY <3>1 DEF CInv, OneWriter
        <4> QED BY <1>1, <3>5, <4>1, <4>2 DEF OneWriter
      <3>7. Writers'
        <4>1. \A q \in Owners : ~(run'[q].pc \in Filling /\ Holds(q)')
          BY <2>1, <3>1, <3>3 DEF Holds, LeaseHeld
        <4> QED BY <1>1, <3>5, <4>1 DEF Writers
      <3> QED BY <3>2, <3>4, <3>6, <3>7 DEF CInv
    <2> QED BY <2>2, <2>3
  <1> QED BY <1>2, <1>3 DEF Acquire
-----------------------------------------------------------------------------
(* The anchor a run resumes a scan with is that of the pages there are. *)
LEMMA ResumesAnchor ==
    ASSUME IInv, CInv, NEW o, NEW f, NEW mode \in Modes, BeginAccepted(o, f, mode), NEW b \in Nat,
           PagesOf(b) # {} => b \in DOMAIN batches /\ batches[b].mode = mode,
           mode = "reconciliation" /\ PagesOf(b) # {} => LastPage(b).hid = ReceiptAnchor(mode, b)
    PROVE  /\ ReceiptAnchor(mode, b) <= Len(log)
           /\ mode # "history" /\ ReceiptAnchor(mode, b) # 0 =>
                 \A q \in PagesOf(b) : q.hid = ReceiptAnchor(mode, b)
           /\ mode = "backfill" /\ ReceiptAnchor(mode, b) = 0 => PagesOf(b) = {}
  <1>1. PagesOf(b) # {} => LastPage(b) \in PagesOf(b) /\ LastPage(b) \in pages
                           /\ LastPage(b).hid \in HistoryIds
    BY LastPageExists DEF IInv, Journal, PageRow, PagesOf
  <1>2. ReceiptAnchor(mode, b) <= Len(log)
    <2>1. CASE mode = "reconciliation"
      <3>1. OpenGaps # {}
        BY <2>1 DEF BeginAccepted
      <3>2. (CHOOSE g \in OpenGaps : TRUE) \in gaps
        BY <3>1 DEF OpenGaps
      <3> QED BY <2>1, <3>2 DEF ReceiptAnchor, CInv, NotAhead
    <2>2. CASE mode = "backfill" /\ PagesOf(b) # {}
      BY <1>1, <2>2 DEF ReceiptAnchor, CInv, NotAhead
    <2>3. CASE mode # "reconciliation" /\ ~(mode = "backfill" /\ PagesOf(b) # {})
      BY <2>3, LiveTyped DEF ReceiptAnchor, IInv
    <2> QED BY <2>1, <2>2, <2>3
  <1>3. mode # "history" /\ PagesOf(b) # {} => ReceiptAnchor(mode, b) = LastPage(b).hid
    BY DEF ReceiptAnchor, Modes
  <1>4. mode # "history" /\ PagesOf(b) # {} => \A q \in PagesOf(b) : q.hid = LastPage(b).hid
    BY <1>1 DEF CInv, Read, ScanKeepsAnchor, PagesOf
  <1>5. PagesOf(b) # {} => LastPage(b).hid # 0
    BY <1>1 DEF HistoryIds
  <1> QED BY <1>2, <1>3, <1>4, <1>5

(* The batch that is resumed runs. *)
LEMMA OneResumed ==
    ASSUME Journal, RunningBatches # {}
    PROVE  ResumedBatch \in RunningBatches
  <1>1. PICK b : b \in RunningBatches
    OBVIOUS
  <1>2. \A c \in RunningBatches : c = b /\ c <= b
    BY <1>1, BatchesTyped DEF Journal, OneRunningBatch, RunningBatches
  <1> QED BY <1>1, <1>2 DEF ResumedBatch

(* A run that begins knows where its batch stopped. *)
LEMMA BeginC ==
    ASSUME IInv, CInv, NEW r \in Owners, Begin(r)
    PROVE  CInv'
  <1>0. PICK b : b = BeginBatch
    OBVIOUS
  <1> DEFINE mode == run[r].mode
             anchor == ReceiptAnchor(mode, b)
             next == IF FinalPersisted(b) THEN "commit_batch"
                     ELSE IF mode = "backfill" /\ anchor = 0 THEN "capture_profile_anchor"
                     ELSE "list"
             token == IF PagesOf(b) # {} THEN LastPage(b).next ELSE NoToken
             x == [run[r] EXCEPT !.pc = next, !.batch = b, !.ordinal = PageCount(b),
                                 !.token = token, !.anchor = anchor]
             consistent == /\ cursor.value = run[r].start
                           /\ mode = "reconciliation" /\ PagesOf(b) # {} => LastPage(b).hid = anchor
  <1>1. /\ UNCHANGED <<log, late>> /\ run \in [Owners -> RunRow] /\ run[r] \in RunRow
        /\ mode \in Modes /\ At(r, "begin") /\ Journal /\ ProviderTyped
    BY DEF Begin, providerVars, IInv, RunsTyped, RunRow
  <1>2. CASE End(r) /\ UNCHANGED journalVars
    BY <1>1, <1>2, EndStep
  <1>3. CASE /\ BeginAccepted(r, run[r].fence, mode) /\ BeginEffect(mode)
             /\ run' = [run EXCEPT ![r] = IF consistent THEN x ELSE Ended]
    <2>1. Holds(r) /\ UNCHANGED <<cursor, pages, gaps>>
      BY <1>3 DEF BeginAccepted, Holds, BeginEffect
    <2>2. /\ b \in Nat /\ b \in RunningBatches' /\ batches'[b].mode = mode
          /\ PagesOf(b) # {} => b \in DOMAIN batches /\ batches[b].mode = mode
          /\ \A c \in DOMAIN batches : c \in DOMAIN batches' /\ batches'[c] = batches[c]
          /\ \A c \in DOMAIN batches' : c \notin DOMAIN batches =>
                c = b /\ PagesOf(b) = {} /\ batches'[b].status = "running"
                /\ batches'[b].value = cursor.value
      <3>1. CASE RunningBatches # {}
        <4>1. b = ResumedBatch /\ UNCHANGED batches /\ batches[ResumedBatch].mode = mode
          BY <1>0, <1>3, <3>1 DEF BeginBatch, BeginEffect, BeginAccepted
        <4>2. ResumedBatch \in RunningBatches
          BY <3>1, OneResumed, <1>1
        <4>3. RunningBatches' = RunningBatches
          BY <2>1, <4>1 DEF RunningBatches, AtCursor
        <4> QED BY <1>1, <4>1, <4>2, <4>3, BatchesTyped DEF RunningBatches, Journal
      <3>2. CASE RunningBatches = {}
        <4> DEFINE new == [mode |-> mode, version |-> cursor.version, value |-> cursor.value,
                           status |-> "running", committed |-> 0]
        <4>1. b = Len(batches) + 1 /\ batches' = Append(batches, new)
          BY <1>0, <1>3, <3>2 DEF BeginBatch, BeginEffect
        <4>2. Len(batches) \in Nat /\ DOMAIN batches = 1..Len(batches) /\ batches \in Seq(BatchRow)
          BY <1>1, BatchesTyped DEF Journal, JournalTyped
        <4>3. /\ new.mode = mode /\ new.version = cursor.version /\ new.value = cursor.value
              /\ new.status = "running"
          OBVIOUS
        <4> HIDE DEF new
        <4>4. /\ DOMAIN batches' = 1..(Len(batches) + 1) /\ batches'[b] = new
              /\ \A c \in DOMAIN batches : batches'[c] = batches[c]
          BY <4>1, <4>2
        <4>5. PagesOf(b) = {}
          BY <1>1, <4>1, <4>2 DEF Journal, JournalTyped, PagesOf
        <4>6. b \in RunningBatches'
          BY <2>1, <4>1, <4>2, <4>3, <4>4 DEF RunningBatches, AtCursor
        <4> QED BY <4>1, <4>2, <4>3, <4>4, <4>5, <4>6
      <3> QED BY <3>1, <3>2
    <2>3. \A c \in late : ~LeaseHeld(c.owner, c.fence)
      BY <1>1, <2>1, SoleWriter DEF CInv, At
    <2>4. Grown /\ LogNamed'
      BY <1>1, StillGrown DEF CInv, LogNamed, Added
    <2>5. PagesCounted' /\ HistoryRead' /\ ScanRead' /\ ScanKeepsAnchor'
      <3>1. cursor.value \in Nat /\ cursor.value <= Len(log)
        BY <1>1 DEF Journal, JournalTyped, CursorRow, Positions, CInv, NotAhead
      <3> QED BY <1>1, <2>1, <2>2, <2>4, <3>1, ReadKeeps DEF CInv, Read
    <2>6. Known' /\ CommittedWhole'
      <3>1. CommittedBatches' = CommittedBatches /\ \A c \in CommittedBatches : batches'[c] = batches[c]
        BY <2>2 DEF CommittedBatches
      <3>2. \A c : PagesOf(c)' = PagesOf(c)
        BY <2>1 DEF PagesOf
      <3> QED BY <1>1, <2>1, <2>4, <3>1, <3>2, KnownKeeps DEF CInv
    <2>7. NotAhead'
      BY <1>1, <2>1 DEF CInv, NotAhead
    <2> DEFINE y == IF consistent THEN x ELSE Ended
    <2>8. /\ (y = x /\ consistent) \/ y = Ended
          /\ Ended.pc = "idle" /\ Ended.anchor = 0 /\ Ended.fence = 0
      BY DEF Ended
    <2>9. /\ x.pc = next /\ x.batch = b /\ x.ordinal = PageCount(b) /\ x.token = token
          /\ x.anchor = anchor /\ x.fence = run[r].fence /\ x.mode = mode /\ x.start = run[r].start
      BY <1>1 DEF RunRow
    <2>10. consistent => /\ anchor <= Len(log)
                         /\ mode # "history" /\ anchor # 0 => \A q \in PagesOf(b) : q.hid = anchor
                         /\ mode = "backfill" /\ anchor = 0 => PagesOf(b) = {}
      BY <1>1, <1>3, <2>2, ResumesAnchor
    <2>11. mode = "reconciliation" => anchor # 0
      <3>1. mode = "reconciliation" => anchor \in HistoryIds
        BY <1>1, <1>3, <2>2, AnchorsTyped
      <3> QED BY <3>1 DEF HistoryIds
    <2>12. run'[r] = y /\ \A q \in Owners : q # r => run'[q] = run[q]
      BY <1>1, <1>3
    <2> HIDE DEF x, y
    <2>13. AnchorsNotAhead'
      <3>1. y.anchor <= Len(log)
        BY <1>1, <2>8, <2>9, <2>10, LiveTyped
      <3> QED BY <1>1, <2>12, <3>1 DEF CInv, AnchorsNotAhead
    <2>14. OneWriter'
      <3>1. y.fence <= cursor.fence
        <4>1. run[r].fence <= cursor.fence /\ 0 <= cursor.fence
          BY <1>1 DEF CInv, OneWriter, Journal, JournalTyped, CursorRow
        <4> QED BY <2>8, <2>9, <4>1
      <3> QED BY <1>1, <2>1, <2>3, <2>12, <3>1 DEF CInv, OneWriter, LeaseHeld
    <2>15. Writers'
      <3>1. ASSUME NEW q \in Owners, run'[q].pc \in Filling, Holds(q)' PROVE Follows(q)'
        <4>1. q = r
          <5>1. q # r => Holds(q)
            BY <2>1, <2>12, <3>1 DEF Holds, LeaseHeld
          <5> QED BY <1>1, <2>1, <5>1, SoleWriter DEF CInv, At
        <4>2. y = x /\ consistent
          BY <2>8, <2>12, <3>1, <4>1 DEF Filling
        <4>3. /\ next # "commit_batch" /\ ~FinalPersisted(b) /\ next # "append_page"
              /\ next = "capture_profile_anchor" <=> mode = "backfill" /\ anchor = 0
          BY <2>9, <2>12, <3>1, <4>1, <4>2 DEF Filling
        <4>4. token = NextToken(b)
          BY DEF NextToken
        <4>5. PagesOf(b)' = PagesOf(b)
          BY <2>1 DEF PagesOf
        <4>6. /\ PageCount(b)' = PageCount(b) /\ NextToken(b)' = NextToken(b)
              /\ FinalPersisted(b)' <=> FinalPersisted(b)
          BY <4>5, PagesKept
        <4>7. next # "capture_profile_anchor" /\ mode # "history" => anchor # 0
          BY <1>1, <2>11, <4>3 DEF Modes
        <4> HIDE DEF next, token, anchor
        <4> QED BY <2>1, <2>2, <2>9, <2>10, <2>12, <4>1, <4>2, <4>3, <4>4, <4>5, <4>6, <4>7 DEF Follows
      <3> QED BY <1>1, <2>1, <2>3, <3>1 DEF Writers, LeaseHeld
    <2> QED BY <2>4, <2>5, <2>6, <2>7, <2>13, <2>14, <2>15 DEF CInv, Read
  <1> QED BY <1>0, <1>2, <1>3 DEF Begin
-----------------------------------------------------------------------------
(* The three writes keep what is read and known, provided an added page    *)
(* fits and the gap that is opened ends no later than the mailbox.         *)
LEMMA AppendKnows ==
    ASSUME IInv, CInv, NEW p \in PageRow, Fits(p), AppendEffect(p), UNCHANGED log
    PROVE  NotAhead' /\ Read' /\ Known' /\ ObservedMessages' = ObservedMessages
  <1>1. /\ Journal /\ ProviderTyped /\ NotAhead /\ Read /\ Known /\ Grown
        /\ UNCHANGED <<cursor, batches, gaps>> /\ pages' = pages \union {p} /\ p.hid <= Len(log)
    BY StillGrown DEF IInv, CInv, AppendEffect, Fits
  <1>2. /\ PagesCounted' /\ HistoryRead' /\ ScanRead' /\ ScanKeepsAnchor'
        /\ \A c \in CommittedBatches : PagesOf(c)' = PagesOf(c)
    BY <1>1, AppendReads
  <1>3. CommittedBatches' = CommittedBatches
    BY <1>1 DEF CommittedBatches
  <1>4. Known' /\ CommittedWhole' /\ ObservedMessages' = ObservedMessages
    BY <1>1, <1>2, <1>3, KnownKeeps
  <1>5. NotAhead'
    BY <1>1 DEF NotAhead
  <1> QED BY <1>2, <1>4, <1>5 DEF Read

(* Declared a gap, the cursor stays where it is and nothing read is lost. *)
LEMMA MarkKnows ==
    ASSUME IInv, CInv, NEW anchor, anchor <= Len(log), MarkEffect(anchor), UNCHANGED log
    PROVE  NotAhead' /\ Read' /\ Known' /\ ObservedMessages' = ObservedMessages
           /\ cursor'.fence = cursor.fence /\ cursor'.value = cursor.value /\ ~cursor'.live
  <1>1. /\ Journal /\ ProviderTyped /\ NotAhead /\ Read /\ Known /\ Grown
        /\ gaps' = MarkedGaps(anchor) /\ pages' = pages
        /\ batches' = [b \in DOMAIN batches |->
                         IF b \in RunningBatches THEN [batches[b] EXCEPT !.status = "failed"]
                                                 ELSE batches[b]]
        /\ cursor' = [cursor EXCEPT !.status = "reconcile_required", !.owner = NoOwner,
                                    !.live = FALSE]
    BY StillGrown DEF IInv, CInv, MarkEffect, MarkedCursor
  <1>2. cursor'.fence = cursor.fence /\ cursor'.value = cursor.value /\ ~cursor'.live
    BY <1>1 DEF Journal, JournalTyped, CursorRow
  <1>3. DOMAIN batches' = DOMAIN batches
    BY <1>1
  <1>4. \A b \in DOMAIN batches : /\ batches'[b].mode = batches[b].mode
                                  /\ batches'[b].value = batches[b].value
                                  /\ batches'[b].status = "committed" <=> batches[b].status = "committed"
                                  /\ batches[b].status = "committed" => batches'[b] = batches[b]
    <2> SUFFICES ASSUME NEW b \in DOMAIN batches
                 PROVE  /\ batches'[b].mode = batches[b].mode
                        /\ batches'[b].value = batches[b].value
                        /\ batches'[b].status = "committed" <=> batches[b].status = "committed"
                        /\ batches[b].status = "committed" => batches'[b] = batches[b]
      OBVIOUS
    <2>1. batches[b] \in BatchRow
      BY <1>1, BatchesTyped DEF Journal
    <2>2. CASE b \in RunningBatches
      <3>1. batches'[b] = [batches[b] EXCEPT !.status = "failed"] /\ batches[b].status = "running"
        BY <1>1, <2>2 DEF RunningBatches
      <3> QED BY <2>1, <3>1 DEF BatchRow
    <2>3. CASE b \notin RunningBatches
      BY <1>1, <2>3
    <2> QED BY <2>2, <2>3
  <1>5. PagesCounted' /\ HistoryRead' /\ ScanRead' /\ ScanKeepsAnchor'
    BY <1>1, <1>3, <1>4, ReadKeeps DEF Read
  <1>6. Known' /\ CommittedWhole' /\ ObservedMessages' = ObservedMessages
    <2>1. CommittedBatches' = CommittedBatches
      BY <1>3, <1>4 DEF CommittedBatches
    <2>2. \A b \in CommittedBatches : batches'[b] = batches[b] /\ PagesOf(b)' = PagesOf(b)
      BY <1>1, <1>4 DEF CommittedBatches, PagesOf
    <2> QED BY <1>1, <1>2, <2>1, <2>2, KnownKeeps
  <1>7. NotAhead'
    BY <1>1, <1>2 DEF NotAhead, MarkedGaps
  <1> QED BY <1>2, <1>5, <1>6, <1>7 DEF Read

(* A commit moves the cursor to what its pages cover, within the log.     *)
LEMMA CommitKnows ==
    ASSUME IInv, CInv, NEW o, NEW f, NEW b, CommitAccepted(o, f, b), CommitEffect(b), UNCHANGED log
    PROVE  NotAhead' /\ Read' /\ Known' /\ ObservedMessages \subseteq ObservedMessages'
           /\ cursor'.fence = cursor.fence /\ cursor'.value >= cursor.value /\ ~cursor'.live
           /\ cursor'.value <= Len(log)
  <1>1. Read' /\ Known' /\ cursor'.value <= Len(log) /\ cursor'.value >= cursor.value
        /\ ObservedMessages \subseteq ObservedMessages'
    BY CommitReads DEF IInv, CInv
  <1>2. cursor'.fence = cursor.fence /\ ~cursor'.live
    <2>1. cursor \in CursorRow
      BY DEF IInv, Journal, JournalTyped
    <2> DEFINE n == NextCursor(b)
               v == cursor.version + 1
    <2>2. cursor' = [cursor EXCEPT !.value = n, !.version = v, !.status = "live",
                                   !.owner = NoOwner, !.live = FALSE]
      BY DEF CommitEffect
    <2> HIDE DEF n, v
    <2> QED BY <2>1, <2>2 DEF CursorRow
  <1>3. NotAhead'
    <2>1. \A g \in gaps' : g.anchor <= Len(log)
      <3> SUFFICES ASSUME NEW h \in gaps' PROVE h.anchor <= Len(log)
        OBVIOUS
      <3>1. PICK g \in gaps : h = g \/ h = [g EXCEPT !.status = "reconciled_current_mailbox"]
        BY DEF CommitEffect
      <3>2. g.anchor <= Len(log) /\ g \in GapRow
        BY DEF CInv, NotAhead, IInv, Journal, JournalTyped
      <3>3. h.anchor = g.anchor
        BY <3>1, <3>2 DEF GapRow
      <3> QED BY <3>2, <3>3
    <2>2. pages' = pages
      BY DEF CommitEffect
    <2> QED BY <1>1, <2>1, <2>2 DEF CInv, NotAhead
  <1> QED BY <1>1, <1>2, <1>3

(* A call that ends the lease leaves nobody to write, whoever made it. *)
LEMMA LeaseEnds ==
    ASSUME IInv, CInv, LogNamed', NotAhead', Read', Known', UNCHANGED log,
           ~cursor'.live, cursor'.fence = cursor.fence, late' \subseteq late,
           \A r \in Owners : run'[r].anchor <= Len(log) /\ run'[r].fence <= cursor.fence
    PROVE  CInv'
  <1>1. Writers' /\ \A o, f : ~LeaseHeld(o, f)'
    BY NobodyWrites
  <1>2. OneWriter'
    BY <1>1 DEF CInv, OneWriter
  <1>3. AnchorsNotAhead'
    BY DEF CInv, AnchorsNotAhead
  <1> QED BY <1>1, <1>2, <1>3 DEF CInv

(* The commit or the expiry of a run, and of one that is gone. *)
LEMMA ClosingCall ==
    ASSUME IInv, CInv, NEW c, CallTyped(c), c.rpc # "append_page", Accepted(c), Execute(c),
           c.rpc = "mark_history_expired" => c.anchor <= Len(log),
           UNCHANGED log, late' \subseteq late,
           \A r \in Owners : run'[r] = run[r] \/ (run'[r].anchor = 0 /\ run'[r].fence = 0)
    PROVE  CInv'
  <1>1. NotAhead' /\ Read' /\ Known' /\ cursor'.fence = cursor.fence /\ ~cursor'.live
    <2>1. CASE c.rpc = "commit_batch"
      BY <2>1, CommitKnows DEF Accepted, Execute
    <2>2. CASE c.rpc = "mark_history_expired"
      BY <2>2, MarkKnows DEF Execute
    <2> QED BY <2>1, <2>2 DEF CallTyped
  <1>2. LogNamed'
    BY DEF CInv, LogNamed, Added
  <1>3. \A r \in Owners : run'[r].anchor <= Len(log) /\ run'[r].fence <= cursor.fence
    <2>1. 0 <= Len(log) /\ 0 <= cursor.fence
      BY LiveTyped DEF IInv, Journal, JournalTyped, CursorRow
    <2> QED BY <2>1 DEF CInv, AnchorsNotAhead, OneWriter
  <1> QED BY <1>1, <1>2, <1>3, LeaseEnds
-----------------------------------------------------------------------------
(* The steps of a run between its calls to the database. *)
LEMMA CaptureC ==
    ASSUME IInv, CInv, NEW r \in Owners, CaptureAnchor(r)
    PROVE  CInv'
  <1>1. UNCHANGED <<log, journalVars, late>> /\ run[r] \in RunRow /\ At(r, "capture_profile_anchor")
    BY DEF CaptureAnchor, Local, providerVars, IInv, RunsTyped
  <1>2. CASE End(r)
    BY <1>1, <1>2, EndStep
  <1>3. CASE Holds(r) /\ run' = [run EXCEPT ![r].pc = "list", ![r].anchor = HistoryId]
    <2> DEFINE h == HistoryId
               x == [run[r] EXCEPT !.pc = "list", !.anchor = h]
    <2>1. run' = [run EXCEPT ![r] = x] /\ h = Len(log) /\ Len(log) \in Nat
      BY <1>3, LiveTyped DEF IInv, RunsTyped, HistoryId
    <2> HIDE DEF h
    <2>2. /\ x.pc = "list" /\ x.anchor = h /\ x.fence = run[r].fence /\ x.batch = run[r].batch
          /\ x.mode = run[r].mode /\ x.start = run[r].start /\ x.ordinal = run[r].ordinal
          /\ x.token = run[r].token
      BY <1>1 DEF RunRow
    <2>3. run'[r] = x
      BY <2>1 DEF IInv, RunsTyped
    <2> HIDE DEF x
    <2>4. Follows(r)'
      <3>1. Follows(r) /\ run[r].pc = "capture_profile_anchor"
        BY <1>1, <1>3 DEF CInv, Writers, Filling, At
      <3>2. PICK b \in RunningBatches :
              /\ run[r].batch = b /\ ~FinalPersisted(b) /\ batches[b].mode = run[r].mode
              /\ run[r].start = cursor.value /\ run[r].ordinal = PageCount(b)
              /\ run[r].token = NextToken(b) /\ PagesOf(b) = {}
        BY <3>1 DEF Follows
      <3>3. /\ RunningBatches' = RunningBatches /\ PagesOf(b)' = PagesOf(b)
            /\ UNCHANGED <<cursor, batches, pages>>
        BY <1>1 DEF journalVars, RunningBatches, AtCursor, PagesOf
      <3>4. /\ PageCount(b)' = PageCount(b) /\ NextToken(b)' = NextToken(b)
            /\ FinalPersisted(b)' <=> FinalPersisted(b)
        BY <3>3, PagesKept
      <3> QED BY <2>2, <2>3, <3>2, <3>3, <3>4 DEF Follows
    <2>5. x.fence <= cursor.fence
      BY <2>2 DEF CInv, OneWriter
    <2>6. x.anchor <= Len(log) /\ ~At(r, "idle")
      BY <1>1, <2>1, <2>2 DEF At
    <2> QED BY <1>1, <2>1, <2>4, <2>5, <2>6, LocalStep
  <1>4. CASE HistoryId >= run[r].start /\ Holds(r)
    <2>1. run' = [run EXCEPT ![r].pc = "list", ![r].anchor = HistoryId]
      BY <1>4 DEF CaptureAnchor
    <2> QED BY <1>3, <1>4, <2>1
  <1>5. CASE ~(HistoryId >= run[r].start /\ Holds(r))
    <2>1. End(r)
      BY <1>5 DEF CaptureAnchor
    <2> QED BY <1>2, <2>1
  <1> QED BY <1>4, <1>5

(* The answer of Gmail is a page that fits. *)
LEMMA ListC ==
    ASSUME IInv, CInv, NEW r \in Owners, List(r)
    PROVE  CInv'
  <1>1. /\ UNCHANGED <<log, journalVars, late>> /\ run[r] \in RunRow /\ run[r].pc = "list"
        /\ Journal /\ ProviderTyped /\ NotAhead /\ Read
    BY DEF List, Local, providerVars, IInv, CInv, RunsTyped, At
  <1>2. PICK resp : /\ run' = [run EXCEPT ![r] = [run[r] EXCEPT !.pc = "append_page", !.resp = resp]]
                    /\ \/ /\ run[r].mode = "history"
                          /\ resp \in HistoryResponses(run[r].start, run[r].token)
                       \/ /\ run[r].mode # "history" /\ resp.hid = run[r].anchor
                          /\ \E a \in MailboxResponses(run[r].token) :
                                resp.next = a.next /\ resp.ids = a.ids
    <2>1. CASE ListHistory(r)
      <3>1. PICK resp \in HistoryResponses(run[r].start, run[r].token) :
               run' = [run EXCEPT ![r].pc = "append_page", ![r].resp = resp]
        BY <2>1 DEF ListHistory
      <3>2. run' = [run EXCEPT ![r] = [run[r] EXCEPT !.pc = "append_page", !.resp = resp]]
        BY <3>1 DEF IInv, RunsTyped
      <3> QED BY <2>1, <3>2 DEF ListHistory
    <2>2. CASE ListMessages(r)
      <3>1. PICK a \in MailboxResponses(run[r].token) :
               run' = [run EXCEPT ![r].pc = "append_page",
                                  ![r].resp = [next |-> a.next, hid |-> run[r].anchor,
                                               ids |-> a.ids]]
        BY <2>2 DEF ListMessages
      <3> DEFINE y == [next |-> a.next, hid |-> run[r].anchor, ids |-> a.ids]
      <3>2. run' = [run EXCEPT ![r] = [run[r] EXCEPT !.pc = "append_page", !.resp = y]]
        BY <3>1 DEF IInv, RunsTyped
      <3>3. y.next = a.next /\ y.hid = run[r].anchor /\ y.ids = a.ids
        OBVIOUS
      <3> HIDE DEF y
      <3> QED BY <2>2, <3>2, <3>3 DEF ListMessages
    <2> QED BY <2>1, <2>2 DEF List
  <1> DEFINE x == [run[r] EXCEPT !.pc = "append_page", !.resp = resp]
  <1>3. /\ x.pc = "append_page" /\ x.anchor = run[r].anchor /\ x.fence = run[r].fence
        /\ x.batch = run[r].batch /\ x.mode = run[r].mode /\ x.start = run[r].start
        /\ x.ordinal = run[r].ordinal /\ x.token = run[r].token /\ x.resp = resp
    BY <1>1 DEF RunRow
  <1>4. run'[r] = x
    BY <1>2 DEF IInv, RunsTyped
  <1> HIDE DEF x
  <1>5. ASSUME Holds(r) PROVE Follows(r)'
    <2>1. PICK b \in RunningBatches :
            /\ run[r].batch = b /\ ~FinalPersisted(b) /\ batches[b].mode = run[r].mode
            /\ run[r].start = cursor.value /\ run[r].ordinal = PageCount(b)
            /\ run[r].token = NextToken(b)
            /\ run[r].mode # "history" => \A q \in PagesOf(b) : q.hid = run[r].anchor
      BY <1>1, <1>5 DEF CInv, Writers, Filling, Follows
    <2>2. /\ RunningBatches' = RunningBatches /\ PagesOf(b)' = PagesOf(b)
          /\ UNCHANGED <<cursor, batches, pages>> /\ Grown
      BY <1>1, StillGrown DEF journalVars, RunningBatches, AtCursor, PagesOf
    <2>3. /\ PageCount(b)' = PageCount(b) /\ NextToken(b)' = NextToken(b)
          /\ FinalPersisted(b)' <=> FinalPersisted(b)
      BY <2>2, PagesKept
    <2>4. \A p \in {PageOf(r)'} : Fits(p)'
      <3> SUFFICES ASSUME NEW p, p = PageOf(r)' PROVE Fits(p)'
        OBVIOUS
      <3>1. /\ p.batch = b /\ p.ordinal = PageCount(b) /\ p.next = resp.next /\ p.hid = resp.hid
            /\ p.ids = resp.ids
            /\ p.final <=> p.next = NoToken
        BY <1>3, <1>4, <2>1 DEF PageOf
      <3>2. p \in PageRow
        <4>1. RunTyped(x)
          BY <1>1, <1>4, ListInv DEF IInv, RunsTyped, RunTyped
        <4>2. resp.hid \in HistoryIds /\ x \in RunRow
          BY <1>3, <4>1 DEF RunTyped
        <4>3. PageOf(r)' = [batch |-> x.batch, ordinal |-> x.ordinal, req |-> x.token,
                            next |-> resp.next, hid |-> resp.hid, ids |-> resp.ids,
                            final |-> resp.next = NoToken]
          BY <1>3, <1>4 DEF PageOf
        <4>4. (resp.next = NoToken) \in BOOLEAN
          OBVIOUS
        <4>5. resp.next \in Positions /\ resp.ids \in SUBSET HistoryIds
          BY <1>3, <4>2 DEF RunRow
        <4> QED BY <4>2, <4>3, <4>4, <4>5 DEF PageRow, RunRow
      <3>3. Fits(p)
        <4>1. CASE run[r].mode = "history"
          <5>1. resp \in HistoryResponses(cursor.value, NextToken(b))
            BY <1>2, <2>1, <4>1
          <5>2. batches[b].mode = "history" /\ ~FinalPersisted(b)
            BY <2>1, <4>1
          <5> QED BY <1>1, <3>1, <3>2, <5>1, <5>2, HistoryFits
        <4>2. CASE run[r].mode # "history"
          <5>1. p.hid = run[r].anchor /\ p.hid <= Len(log)
            BY <1>2, <3>1, <4>2 DEF CInv, AnchorsNotAhead
          <5>2. PICK a \in MailboxResponses(NextToken(b)) : p.next = a.next /\ p.ids = a.ids
            <6>1. PICK a \in MailboxResponses(run[r].token) : resp.next = a.next /\ resp.ids = a.ids
              BY <1>2, <4>2
            <6>2. a \in MailboxResponses(NextToken(b))
              BY <2>1, <6>1
            <6> QED BY <3>1, <6>1, <6>2
          <5>3. batches[b].mode # "history" /\ ~FinalPersisted(b)
            BY <2>1, <4>2
          <5>4. \A q \in PagesOf(b) : q.hid = p.hid
            BY <2>1, <4>2, <5>1
          <5> QED BY <1>1, <3>1, <3>2, <5>1, <5>2, <5>3, <5>4, ScanFits
        <4> QED BY <4>1, <4>2
      <3> QED BY <1>1, <2>2, <3>2, <3>3, FitsKeeps
    <2> QED BY <1>2, <1>3, <1>4, <2>1, <2>2, <2>3, <2>4 DEF Follows
  <1>6. x.anchor <= Len(log) /\ x.fence <= cursor.fence
    BY <1>3 DEF CInv, AnchorsNotAhead, OneWriter
  <1>7. x.pc \in Filling /\ LeaseHeld(r, x.fence) => Follows(r)'
    BY <1>3, <1>5 DEF Holds
  <1> QED BY <1>1, <1>2, <1>6, <1>7, LocalStep DEF At, x

(* A run that finds its history expired reads the anchor off the mailbox. *)
LEMMA GapC ==
    ASSUME IInv, CInv, NEW r \in Owners, HistoryGap(r)
    PROVE  CInv'
  <1> DEFINE h == HistoryId
             x == [run[r] EXCEPT !.pc = "mark_history_expired", !.anchor = h]
  <1>1. /\ UNCHANGED <<log, journalVars, late>> /\ run[r] \in RunRow /\ ~At(r, "idle")
        /\ run' = [run EXCEPT ![r] = x] /\ h = Len(log) /\ Len(log) \in Nat
    BY LiveTyped DEF HistoryGap, Local, providerVars, IInv, RunsTyped, At, HistoryId
  <1> HIDE DEF h
  <1>2. x.pc \notin Filling /\ x.anchor = h /\ x.fence = run[r].fence
    BY <1>1 DEF RunRow, Filling
  <1> HIDE DEF x
  <1>3. x.anchor <= Len(log) /\ x.fence <= cursor.fence
    BY <1>1, <1>2 DEF CInv, OneWriter
  <1> QED BY <1>1, <1>2, <1>3, LocalStep
-----------------------------------------------------------------------------
(* The page of a run under its lease is the one its batch lacks; when it   *)
(* is there the run goes on behind it.                                     *)
LEMMA AppendC ==
    ASSUME IInv, CInv, NEW r \in Owners, AppendPage(r)
    PROVE  CInv'
  <1>1. /\ UNCHANGED <<log, late>> /\ run \in [Owners -> RunRow] /\ run[r] \in RunRow
        /\ run[r].pc = "append_page" /\ Journal
    BY DEF AppendPage, providerVars, IInv, RunsTyped, At
  <1>2. CASE ~Accepted(AppendCall(r)) /\ End(r) /\ UNCHANGED journalVars
    BY <1>1, <1>2, EndStep
  <1> DEFINE to == IF run[r].resp.next = NoToken THEN "commit_batch" ELSE "list"
             x == [run[r] EXCEPT !.pc = to, !.ordinal = @ + 1, !.token = run[r].resp.next,
                                 !.resp = Ended.resp]
  <1>3. CASE /\ Accepted(AppendCall(r)) /\ Execute(AppendCall(r))
             /\ run' = [run EXCEPT ![r].pc = to, ![r].ordinal = @ + 1,
                                   ![r].token = run[r].resp.next, ![r].resp = Ended.resp]
    <2>1. /\ run'[r] = x /\ x.pc = to /\ x.ordinal = run[r].ordinal + 1 /\ x.token = run[r].resp.next
          /\ x.fence = run[r].fence /\ x.anchor = run[r].anchor /\ x.batch = run[r].batch
          /\ x.mode = run[r].mode /\ x.start = run[r].start
          /\ \A q \in Owners : q # r => run'[q] = run[q]
      BY <1>1, <1>3 DEF RunRow
    <2> HIDE DEF x
    <2>2. Holds(r) /\ Follows(r) /\ ~At(r, "idle")
      BY <1>1, <1>3 DEF Accepted, AppendCall, AppendAccepted, Holds, CInv, Writers, Filling, At
    <2>3. PICK p \in PageRow : p = PageOf(r)
      BY <1>1, CallsAreTyped DEF IInv, RunsTyped, CallTyped, AppendCall, At
    <2>4. Fits(p) /\ AppendEffect(p)
      BY <1>1, <1>3, <2>2, <2>3 DEF Follows, Execute, AppendCall
    <2>5. NotAhead' /\ Read' /\ Known' /\ LogNamed'
      BY <1>1, <2>4, AppendKnows DEF CInv, LogNamed, Added
    <2>6. AnchorsNotAhead'
      BY <1>1, <2>1 DEF CInv, AnchorsNotAhead
    <2>7. /\ UNCHANGED <<cursor, batches>>
          /\ \A q \in Owners : Holds(q) => q = r
          /\ \A c \in late : ~LeaseHeld(c.owner, c.fence)
      BY <2>2, <2>4, SoleWriter DEF CInv, AppendEffect
    <2>8. OneWriter'
      <3>1. \A q \in Owners : run'[q].fence <= cursor.fence
        BY <2>1 DEF CInv, OneWriter
      <3> QED BY <1>1, <2>7, <3>1 DEF CInv, OneWriter, LeaseHeld
    <2>9. ASSUME run[r].resp.next # NoToken PROVE Follows(r)'
      <3>1. PICK b \in RunningBatches :
              /\ run[r].batch = b /\ batches[b].mode = run[r].mode
              /\ run[r].start = cursor.value /\ run[r].ordinal = PageCount(b)
              /\ run[r].mode # "history" =>
                    (\A q \in PagesOf(b) : q.hid = run[r].anchor) /\ run[r].resp.hid = run[r].anchor
        BY <1>1, <2>2 DEF Follows
      <3>2. p.batch = b /\ p.next = run[r].resp.next /\ p.hid = run[r].resp.hid /\ ~p.final
        BY <2>3, <2>9, <3>1 DEF PageOf
      <3>3. /\ PagesOf(b)' = PagesOf(b) \union {p} /\ PageCount(b)' = PageCount(b) + 1
            /\ LastPage(b)' = p
        BY <1>1, <2>4, <3>2, AppendedIsLast DEF CInv, Read
      <3>4. RunningBatches' = RunningBatches
        BY <2>7 DEF RunningBatches, AtCursor
      <3>5. ~FinalPersisted(b)' /\ NextToken(b)' = p.next
        BY <3>2, <3>3 DEF FinalPersisted, NextToken
      <3>6. run'[r].pc = "list"
        BY <2>1, <2>9
      <3>7. run'[r].mode # "history" => \A q \in PagesOf(b)' : q.hid = run'[r].anchor
        BY <2>1, <3>1, <3>2, <3>3
      <3> QED BY <2>1, <2>7, <3>1, <3>2, <3>3, <3>4, <3>5, <3>6, <3>7 DEF Follows
    <2>10. Writers'
      <3>1. ASSUME NEW q \in Owners, run'[q].pc \in Filling, Holds(q)' PROVE Follows(q)'
        <4>1. run'[q].fence = run[q].fence
          BY <2>1
        <4>2. q = r
          BY <2>7, <3>1, <4>1 DEF Holds, LeaseHeld
        <4>3. run[r].resp.next # NoToken
          BY <2>1, <3>1, <4>2 DEF Filling
        <4> QED BY <2>9, <4>2, <4>3
      <3>2. \A c \in late' : ~LeaseHeld(c.owner, c.fence)'
        BY <1>1, <2>7 DEF LeaseHeld
      <3> QED BY <3>1, <3>2 DEF Writers
    <2> QED BY <2>5, <2>6, <2>8, <2>10 DEF CInv
  <1> QED BY <1>2, <1>3 DEF AppendPage

(* A commit, whether it is accepted, refused or left under way.           *)
LEMMA CommitC ==
    ASSUME IInv, CInv, NEW r \in Owners, CommitBatch(r)
    PROVE  CInv'
  <1>1. UNCHANGED <<log, late>> /\ End(r)
    BY DEF CommitBatch, providerVars
  <1>2. CASE Accepted(CommitCall(r)) /\ Execute(CommitCall(r))
    <2>0. PICK c : c = CommitCall(r)
      OBVIOUS
    <2>1. c.rpc = "commit_batch" /\ CallTyped(c)
      BY <2>0, CallsAreTyped DEF IInv, RunsTyped, CommitCall
    <2>2. \A q \in Owners : run'[q] = run[q] \/ (run'[q].anchor = 0 /\ run'[q].fence = 0)
      BY <1>1 DEF End, Ended, IInv, RunsTyped
    <2>3. Accepted(c) /\ Execute(c)
      BY <1>2, <2>0
    <2> QED BY <1>1, <2>1, <2>2, <2>3, ClosingCall
  <1>3. CASE UNCHANGED journalVars
    BY <1>1, <1>3, EndStep
  <1> QED BY <1>2, <1>3 DEF CommitBatch

(* The declaration of a gap, whether accepted, refused or left under way. *)
LEMMA MarkC ==
    ASSUME IInv, CInv, NEW r \in Owners, MarkHistoryExpired(r)
    PROVE  CInv'
  <1>1. UNCHANGED <<log, late>>
    BY DEF MarkHistoryExpired, providerVars
  <1>2. CASE /\ Accepted(MarkCall(r)) /\ Execute(MarkCall(r))
             /\ run' = [run EXCEPT ![r] = [Ended EXCEPT !.pc = "acquire",
                                                        !.mode = "reconciliation"]]
    <2>0. PICK c : c = MarkCall(r)
      OBVIOUS
    <2>1. c.rpc = "mark_history_expired" /\ CallTyped(c) /\ c.anchor <= Len(log)
      BY <2>0, CallsAreTyped DEF IInv, RunsTyped, MarkCall, CInv, AnchorsNotAhead
    <2>2. \A q \in Owners : run'[q] = run[q] \/ (run'[q].anchor = 0 /\ run'[q].fence = 0)
      BY <1>2 DEF Ended, IInv, RunsTyped
    <2>3. Accepted(c) /\ Execute(c)
      BY <1>2, <2>0
    <2> QED BY <1>1, <2>1, <2>2, <2>3, ClosingCall
  <1>3. CASE End(r) /\ UNCHANGED journalVars
    BY <1>1, <1>3, EndStep
  <1> QED BY <1>2, <1>3 DEF MarkHistoryExpired
-----------------------------------------------------------------------------
(* A step that leaves the journal and the runs alone. *)
LEMMA QuietStep ==
    ASSUME IInv, CInv, Grown, LogNamed', UNCHANGED <<journalVars, run>>, late' \subseteq late
    PROVE  CInv'
  <1>1. NotAhead' /\ Read' /\ Known'
    BY QuietReads
  <1>2. cursor' = cursor /\ run' = run
    BY DEF journalVars
  <1>3. AnchorsNotAhead'
    <2>1. \A r \in Owners : run[r].anchor <= Len(log')
      BY DEF IInv, RunsTyped, RunRow, Positions, CInv, AnchorsNotAhead, Grown
    <2>2. \A c \in late : c.rpc = "mark_history_expired" => c.anchor <= Len(log')
      BY DEF IInv, LateTyped, CallTyped, Positions, CInv, AnchorsNotAhead, Grown
    <2> QED BY <1>2, <2>1, <2>2 DEF AnchorsNotAhead
  <1>4. OneWriter'
    BY <1>2 DEF CInv, OneWriter, LeaseHeld, At
  <1>5. Writers'
    <2>1. ASSUME NEW r \in Owners, run[r].pc \in Filling, Holds(r)' PROVE Follows(r)'
      <3>1. Follows(r)
        BY <1>2, <2>1 DEF CInv, Writers, Holds, LeaseHeld
      <3> QED BY <1>2, <3>1, FollowsKeeps
    <2>2. ASSUME NEW c \in late, c.rpc = "append_page", LeaseHeld(c.owner, c.fence)
          PROVE  Fits(c.page)'
      <3>1. Fits(c.page) /\ c.page \in PageRow
        BY <2>2 DEF CInv, Writers, IInv, LateTyped, CallTyped
      <3> QED BY <3>1, FitsKeeps DEF IInv
    <2> QED BY <1>2, <2>1, <2>2 DEF Writers, LeaseHeld
  <1> QED BY <1>1, <1>3, <1>4, <1>5 DEF CInv

(* The write a run leaves behind is the one it had in its hands, and it is *)
(* the only one under that lease: its run is over.                         *)
LEMMA StopC ==
    ASSUME IInv, CInv, NEW r \in Owners, Stop(r)
    PROVE  CInv'
  <1>1. UNCHANGED <<log, journalVars>> /\ End(r) /\ ~At(r, "idle") /\ RunTyped(run[r])
    BY DEF Stop, providerVars, IInv, RunsTyped
  <1>2. CASE UNCHANGED late
    BY <1>1, <1>2, EndStep
  <1>3. ASSUME NEW d, late' = late \union {d}, d.owner = r, d.fence = run[r].fence,
               d.rpc = "append_page" => At(r, "append_page") /\ d.page = PageOf(r),
               d.rpc = "mark_history_expired" => d.anchor = run[r].anchor
        PROVE  CInv'
    <2>1. Grown /\ LogNamed'
      BY <1>1, StillGrown DEF IInv, CInv, LogNamed, Added
    <2>2. NotAhead' /\ Read' /\ Known'
      BY <1>1, <2>1, QuietReads
    <2>3. /\ run'[r] = Ended /\ Ended.pc = "idle" /\ Ended.anchor = 0 /\ Ended.fence = 0
          /\ \A q \in Owners : q # r => run'[q] = run[q]
      BY <1>1 DEF End, Ended, IInv, RunsTyped
    <2>4. cursor' = cursor /\ 0 <= Len(log) /\ 0 <= cursor.fence
      BY <1>1, LiveTyped DEF journalVars, IInv, Journal, JournalTyped, CursorRow
    <2>5. AnchorsNotAhead'
      BY <1>1, <1>3, <2>3, <2>4 DEF CInv, AnchorsNotAhead
    <2>6. OneWriter'
      <3>1. \A q \in Owners : run'[q].fence <= cursor.fence
        BY <2>3, <2>4 DEF CInv, OneWriter
      <3>2. d.fence \in Nat /\ d.fence <= cursor.fence
        BY <1>1, <1>3 DEF CInv, OneWriter, RunTyped, RunRow
      <3>3. \A q \in Owners : At(q, "idle") => run'[q].pc = "idle"
        BY <2>3 DEF At
      <3>4. LeaseHeld(d.owner, d.fence) => \A c \in late : ~LeaseHeld(c.owner, c.fence)
        BY <1>1, <1>3, SoleWriter DEF CInv, Holds
      <3>5. run'[d.owner].pc = "idle"
        BY <1>3, <2>3
      <3>6. \A c \in late' : LeaseHeld(c.owner, c.fence) =>
               run'[c.owner].pc = "idle" /\ \A e \in late' : LeaseHeld(e.owner, e.fence) => e = c
        <4> SUFFICES ASSUME NEW c \in late', LeaseHeld(c.owner, c.fence),
                            NEW e \in late', LeaseHeld(e.owner, e.fence)
                     PROVE  run'[c.owner].pc = "idle" /\ e = c
          OBVIOUS
        <4>1. CASE c = d
          BY <1>3, <3>4, <3>5, <4>1
        <4>2. CASE c # d
          <5>1. c \in late /\ e \in late
            BY <1>3, <3>4, <4>2
          <5>2. At(c.owner, "idle") /\ c.owner \in Owners /\ e = c
            BY <5>1 DEF CInv, OneWriter
          <5> QED BY <3>3, <5>2
        <4> QED BY <4>1, <4>2
      <3> QED BY <1>3, <2>4, <3>1, <3>2, <3>6 DEF CInv, OneWriter, LeaseHeld, At
    <2>7. Writers'
      <3>1. ASSUME NEW q \in Owners, run'[q].pc \in Filling, Holds(q)' PROVE Follows(q)'
        <4>1. run'[q] = run[q]
          BY <2>3, <3>1 DEF Filling
        <4>2. Follows(q)
          BY <2>4, <3>1, <4>1 DEF CInv, Writers, Holds, LeaseHeld
        <4> QED BY <1>1, <2>1, <4>1, <4>2, FollowsKeeps
      <3>2. ASSUME NEW c \in late', c.rpc = "append_page", LeaseHeld(c.owner, c.fence)
            PROVE  Fits(c.page)'
        <4>1. Fits(c.page) /\ c.page \in PageRow
          <5>1. CASE c \in late
            BY <3>2, <5>1 DEF CInv, Writers, IInv, LateTyped, CallTyped
          <5>2. CASE c = d
            <6>1. Holds(r) /\ run[r].pc = "append_page" /\ d.page = PageOf(r)
              BY <1>3, <3>2, <5>2 DEF Holds, At
            <6>2. Fits(PageOf(r))
              BY <6>1 DEF CInv, Writers, Filling, Follows
            <6>3. PageOf(r) \in PageRow
              BY <1>1, <6>1, CallsAreTyped DEF CallTyped, AppendCall, At
            <6> QED BY <5>2, <6>1, <6>2, <6>3
          <5> QED BY <1>3, <5>1, <5>2
        <4> QED BY <1>1, <2>1, <4>1, FitsKeeps DEF IInv
      <3> QED BY <2>4, <3>1, <3>2 DEF Writers, LeaseHeld
    <2> QED BY <2>1, <2>2, <2>5, <2>6, <2>7 DEF CInv
  <1>4. CASE At(r, "append_page") /\ late' = late \union {AppendCall(r)}
    <2>1. PICK d : d = AppendCall(r)
      OBVIOUS
    <2> QED BY <1>3, <1>4, <2>1 DEF AppendCall
  <1>5. CASE At(r, "commit_batch") /\ late' = late \union {CommitCall(r)}
    <2>1. PICK d : d = CommitCall(r)
      OBVIOUS
    <2> QED BY <1>3, <1>5, <2>1 DEF CommitCall
  <1>6. CASE At(r, "mark_history_expired") /\ late' = late \union {MarkCall(r)}
    <2>1. PICK d : d = MarkCall(r)
      OBVIOUS
    <2> QED BY <1>3, <1>6, <2>1 DEF MarkCall
  <1> QED BY <1>2, <1>4, <1>5, <1>6 DEF Stop

(* A write that arrives late is the one its run had in its hands. *)
LEMMA LateC ==
    ASSUME IInv, CInv, NEW c \in late, LateWrite(c)
    PROVE  CInv'
  <1>1. /\ UNCHANGED <<log, run>> /\ late' = late \ {c} /\ CallTyped(c) /\ Grown /\ LogNamed'
    BY StillGrown DEF LateWrite, providerVars, IInv, LateTyped, CInv, LogNamed, Added
  <1>2. CASE UNCHANGED journalVars
    BY <1>1, <1>2, QuietStep
  <1>3. CASE Accepted(c) /\ Execute(c) /\ c.rpc # "append_page"
    <2>1. c.rpc = "mark_history_expired" => c.anchor <= Len(log)
      BY DEF CInv, AnchorsNotAhead
    <2> QED BY <1>1, <1>3, <2>1, ClosingCall
  <1>4. CASE Accepted(c) /\ Execute(c) /\ c.rpc = "append_page"
    <2>1. PICK p \in PageRow : p = c.page
      BY <1>1, <1>4 DEF CallTyped
    <2>2. LeaseHeld(c.owner, c.fence) /\ AppendEffect(p) /\ Fits(p)
      BY <1>4, <2>1 DEF Accepted, AppendAccepted, Execute, CInv, Writers
    <2>3. NotAhead' /\ Read' /\ Known' /\ cursor' = cursor
      BY <1>1, <2>2, AppendKnows DEF AppendEffect
    <2>4. At(c.owner, "idle") /\ \A d \in late' : ~LeaseHeld(d.owner, d.fence)
      BY <1>1, <2>2 DEF CInv, OneWriter
    <2>5. AnchorsNotAhead'
      BY <1>1 DEF CInv, AnchorsNotAhead
    <2>6. OneWriter'
      BY <1>1, <2>3, <2>4 DEF CInv, OneWriter, LeaseHeld
    <2>7. Writers'
      <3>1. \A r \in Owners : Holds(r) => run[r].pc = "idle"
        BY <2>2, <2>4 DEF Holds, LeaseHeld, At
      <3> QED BY <1>1, <2>3, <2>4, <3>1 DEF Writers, Holds, LeaseHeld, Filling
    <2> QED BY <1>1, <2>3, <2>5, <2>6, <2>7 DEF CInv
  <1> QED BY <1>2, <1>3, <1>4 DEF LateWrite

(* The clock takes a lease away and nothing else.                         *)
LEMMA LeaseC ==
    ASSUME IInv, CInv, LeaseTimesOut \/ LeaseSlips
    PROVE  CInv'
  <1>1. UNCHANGED <<log, run, late, batches, pages, gaps>>
        /\ cursor' = [cursor EXCEPT !.live = FALSE]
    BY DEF LeaseTimesOut, LeaseSlips, ExpireLease, providerVars, syncVars
  <1>2. cursor'.value = cursor.value /\ cursor'.fence = cursor.fence /\ ~cursor'.live
    BY <1>1 DEF IInv, Journal, JournalTyped, CursorRow
  <1>3. LogNamed' /\ NotAhead' /\ Read' /\ Known'
    BY <1>1, <1>2, LeaseReads
  <1>4. \A r \in Owners : run'[r].anchor <= Len(log) /\ run'[r].fence <= cursor.fence
    BY <1>1 DEF CInv, AnchorsNotAhead, OneWriter
  <1> QED BY <1>1, <1>2, <1>3, <1>4, LeaseEnds

(* The mailbox changes while the journal and the runs stand still.        *)
LEMMA MailboxC ==
    ASSUME IInv, CInv, Mailbox
    PROVE  CInv'
  <1>1. UNCHANGED <<journalVars, run, late>> /\ Grown /\ LogNamed'
    BY MailboxGrows DEF Mailbox, syncVars, IInv, CInv
  <1> QED BY <1>1, QuietStep
-----------------------------------------------------------------------------
(* The mailbox has one message, the journal nothing, and nobody is at work.*)
LEMMA InitC == Init => CInv
  <1> SUFFICES ASSUME Init PROVE CInv
    OBVIOUS
  <1>1. /\ log = <<[kind |-> "added", msg |-> 1]>> /\ batches = << >> /\ pages = {} /\ gaps = {}
        /\ late = {} /\ cursor.value = 0 /\ cursor.fence = 0
        /\ run = [r \in Owners |-> Ended]
    BY DEF Init, ProviderInit, JournalInit
  <1>2. Len(log) = 1 /\ DOMAIN log = {1} /\ log[1] = [kind |-> "added", msg |-> 1]
    BY <1>1
  <1>3. Live(log) \subseteq {1}
    BY <1>2 DEF Live, Added
  <1>4. DOMAIN batches = {} /\ CommittedBatches = {}
    BY <1>1 DEF CommittedBatches
  <1>5. \A r \in Owners : run[r].pc = "idle" /\ run[r].anchor = 0 /\ run[r].fence = 0
    BY <1>1 DEF Ended
  <1>6. LogNamed /\ NotAhead /\ AnchorsNotAhead /\ Writers /\ OneWriter
    BY <1>1, <1>2, <1>5 DEF LogNamed, NotAhead, AnchorsNotAhead, Writers, OneWriter, Filling
  <1>7. Read
    BY <1>1, <1>4 DEF Read, PagesCounted, HistoryRead, ScanRead, ScanKeepsAnchor, CommittedWhole
  <1>8. Known
    BY <1>1, <1>3 DEF Known, NoLiveMessageMissed, DeletionSeenOrScannedOver
  <1> QED BY <1>6, <1>7, <1>8 DEF CInv

(* Every step keeps the invariant.                                        *)
LEMMA NextC == IInv /\ CInv /\ [Next]_vars => CInv'
  <1> SUFFICES ASSUME IInv, CInv, [Next]_vars PROVE CInv'
    OBVIOUS
  <1>1. ASSUME NEW r \in Owners, Step(r) PROVE CInv'
    BY <1>1, AcquireC, BeginC, CaptureC, ListC, GapC, AppendC, CommitC, MarkC DEF Step
  <1>2. CASE UNCHANGED vars
    <2>1. UNCHANGED <<journalVars, run, late>> /\ Grown /\ LogNamed'
      BY <1>2, StillGrown DEF vars, providerVars, syncVars, IInv, CInv, LogNamed, Added
    <2> QED BY <2>1, QuietStep
  <1> QED BY <1>1, <1>2, StopC, LateC, LeaseC, MailboxC DEF Next

(* The strengthening holds of every reachable state: what the pages say of *)
(* the mailbox, and that a fence has one writer, whose page fits.          *)
THEOREM CoverageInvariance == Spec => [](IInv /\ CInv)
  <1>1. Init => IInv /\ CInv
    BY InitInv, InitC
  <1>2. IInv /\ CInv /\ [Next]_vars => IInv' /\ CInv'
    BY NextInv, NextC
  <1> QED BY <1>1, <1>2, PTL DEF Spec
-----------------------------------------------------------------------------
(* The cursor never promises what was not read: a committed history batch  *)
(* has every record from the cursor it started at to the one it committed, *)
(* whoever wrote its pages (append_gmail_ingest_page, commit).             *)
THEOREM HistoryBatchesExact == Spec => []HistoryBatchExact
  <1>1. IInv /\ CInv => HistoryBatchExact
    <2> SUFFICES ASSUME IInv, CInv, NEW b \in CommittedBatches, batches[b].mode = "history"
                 PROVE  UNION {p.ids : p \in PagesOf(b)} = (batches[b].value + 1)..batches[b].committed
      BY DEF HistoryBatchExact
    <2>1. FinalPersisted(b) /\ batches[b].committed = LastPage(b).hid
      BY DEF CInv, Read, CommittedWhole
    <2>2. ReadTo(b) = batches[b].committed
      BY <2>1 DEF ReadTo, FinalPersisted
    <2>3. Ids(b) = (batches[b].value + 1)..ReadTo(b)
      BY DEF CInv, Read, HistoryRead, CommittedBatches
    <2> QED BY <2>2, <2>3 DEF Ids
  <1> QED BY <1>1, CoverageInvariance, PTL

(* No mail is lost: a message that is in the mailbox and no newer than the *)
(* cursor is known to the journal.                                         *)
THEOREM NoMailLost == Spec => []NoLiveMessageMissed
  <1>1. IInv /\ CInv => NoLiveMessageMissed
    BY DEF CInv, Known
  <1> QED BY <1>1, CoverageInvariance, PTL

(* A deletion up to the cursor was read, or falls in a span that a mailbox *)
(* scan jumped over and a gap records.                                     *)
THEOREM DeletionsAccounted == Spec => []DeletionSeenOrScannedOver
  <1>1. IInv /\ CInv => DeletionSeenOrScannedOver
    BY DEF CInv, Known
  <1> QED BY <1>1, CoverageInvariance, PTL

(* All pages of a scan carry one anchor, although no check of the database *)
(* compares them and other runs resume the scan.                           *)
THEOREM OneAnchorPerScan == Spec => []ScanKeepsAnchor
  <1>1. IInv /\ CInv => ScanKeepsAnchor
    BY DEF CInv, Read
  <1> QED BY <1>1, CoverageInvariance, PTL

(* A fence has at most one writer: while a run under the lease is at work, *)
(* no other run and no write left behind by an ended run is accepted.      *)
THEOREM OneWriterPerFence ==
    Spec => [](\A r \in Owners : Holds(r) /\ ~At(r, "idle") =>
                  /\ \A q \in Owners : Holds(q) => q = r
                  /\ \A c \in late : ~Accepted(c))
  <1>1. ASSUME IInv, CInv, NEW r \in Owners, Holds(r), ~At(r, "idle")
        PROVE  /\ \A q \in Owners : Holds(q) => q = r
               /\ \A c \in late : ~Accepted(c)
    <2>1. /\ \A q \in Owners : Holds(q) => q = r
          /\ \A c \in late : ~LeaseHeld(c.owner, c.fence)
      BY <1>1, SoleWriter DEF CInv
    <2>2. \A c \in late : c.rpc \in {"append_page", "commit_batch", "mark_history_expired"}
      BY <1>1 DEF IInv, LateTyped, CallTyped
    <2> QED BY <2>1, <2>2 DEF Accepted, AppendAccepted, CommitAccepted, MarkAccepted
  <1>2. IInv /\ CInv => \A r \in Owners : Holds(r) /\ ~At(r, "idle") =>
                           /\ \A q \in Owners : Holds(q) => q = r
                           /\ \A c \in late : ~Accepted(c)
    BY <1>1
  <1> QED BY <1>2, CoverageInvariance, PTL
-----------------------------------------------------------------------------
(* MailboxCoverage sees the log, the cursor and the messages observed. *)
Shown == <<log, cursor.value, ObservedMessages>>
CoverNext == Coverage!MailboxChanges \/ Coverage!Advance

(* Only messages of the mailbox are observed. *)
ObservedWereAdded == ObservedMessages \subseteq Added(log)

(* Whatever a page has shown was once added to the mailbox.               *)
LEMMA ObservedAreAdded == IInv /\ CInv => ObservedWereAdded
  <1> SUFFICES ASSUME IInv, CInv, NEW m \in ObservedMessages PROVE m \in Added(log)
    BY DEF ObservedWereAdded
  <1>1. CASE m \in Observed({"backfill", "reconciliation"})
    <2>1. PICK b \in CommittedBatches : batches[b].mode \in {"backfill", "reconciliation"}
                                        /\ m \in Ids(b)
      BY <1>1, ObservedIds
    <2> QED BY <2>1 DEF CInv, Read, ScanRead, CommittedBatches
  <1>2. CASE m \notin Observed({"backfill", "reconciliation"})
    <2>1. PICK h \in ObservedEvents : log[h].kind = "added" /\ log[h].msg = m
      BY <1>2 DEF ObservedMessages
    <2>2. h \in DOMAIN log
      BY EventsInLog, LiveTyped DEF IInv, CInv, Read
    <2> QED BY <2>1, <2>2 DEF Added
  <1> QED BY <1>1, <1>2

(* A step that leaves the log, the cursor's value and the committed        *)
(* batches with their pages shows nothing.                                 *)
LEMMA ShowsNothing ==
    ASSUME IInv, CInv, UNCHANGED log, cursor'.value = cursor.value,
           CommittedBatches' = CommittedBatches,
           \A b \in CommittedBatches : batches'[b] = batches[b] /\ PagesOf(b)' = PagesOf(b)
    PROVE  UNCHANGED Shown
  BY StillGrown, KnownKeeps DEF IInv, CInv, Shown

(* The writes: only a commit shows, as an advance. *)
LEMMA CallShows ==
    ASSUME IInv, CInv, NEW c, CallTyped(c), Accepted(c), Execute(c), UNCHANGED log,
           c.rpc = "mark_history_expired" => c.anchor <= Len(log),
           ObservedWereAdded'
    PROVE  CoverNext \/ UNCHANGED Shown
  <1>1. CASE c.rpc = "append_page"
    <2>1. c.page.batch \in RunningBatches /\ AppendEffect(c.page)
      BY <1>1 DEF Accepted, AppendAccepted, Execute
    <2>2. /\ CommittedBatches' = CommittedBatches /\ UNCHANGED <<cursor, batches>>
          /\ \A b \in CommittedBatches : PagesOf(b)' = PagesOf(b)
      BY <2>1 DEF AppendEffect, CommittedBatches, RunningBatches, PagesOf
    <2> QED BY <2>2, ShowsNothing
  <1>2. CASE c.rpc = "commit_batch"
    <2>1. /\ cursor'.value >= cursor.value /\ cursor'.value <= Len(log)
          /\ ObservedMessages \subseteq ObservedMessages' /\ NoLiveMessageMissed'
      BY <1>2, CommitKnows DEF Accepted, Execute, Known
    <2>2. cursor.value \in Int /\ Len(log) \in Int /\ cursor'.value \in Int
      <3>1. JournalTyped'
        BY ExecuteKeeps DEF IInv, Journal
      <3> QED BY <3>1, LiveTyped DEF IInv, Journal, JournalTyped, CursorRow, Positions
    <2>3. \A m \in Added(log) \ Coverage!Deleted(log) : m <= cursor'.value => m \in ObservedMessages'
      <3>1. DeletedBy(log, Len(log)) \subseteq Coverage!Deleted(log)
        BY DEF DeletedBy, Coverage!Deleted
      <3>2. Live(log)' = Live(log)
        BY DEF Live, Added, DeletedBy
      <3> QED BY <2>1, <3>1, <3>2 DEF Live, NoLiveMessageMissed
    <2>4. Coverage!Advance
      <3>1. Coverage!Added(log) = Added(log) /\ ObservedMessages' \subseteq Added(log)
        BY DEF Coverage!Added, Added, ObservedWereAdded
      <3> QED BY <2>1, <2>2, <2>3, <3>1 DEF Coverage!Advance
    <2> QED BY <2>4 DEF CoverNext
  <1>3. CASE c.rpc = "mark_history_expired"
    <2>1. cursor'.value = cursor.value /\ ObservedMessages' = ObservedMessages
      BY <1>3, MarkKnows DEF Execute
    <2> QED BY <2>1 DEF Shown
  <1> QED BY <1>1, <1>2, <1>3 DEF CallTyped

(* What the mailbox does is what the abstract mailbox does. *)
LEMMA MailboxShows ==
    ASSUME IInv, CInv, Mailbox
    PROVE  CoverNext \/ UNCHANGED Shown
  <1>1. UNCHANGED journalVars /\ Grown
    BY MailboxGrows DEF Mailbox, IInv, CInv
  <1>2. cursor'.value = cursor.value /\ ObservedMessages' = ObservedMessages
    BY <1>1, QuietReads DEF journalVars
  <1>3. Coverage!Added(log) = Added(log)
    BY DEF Coverage!Added, Added
  <1>4. CASE MessageAdded
    <2> DEFINE e == [kind |-> "added", msg |-> Len(log) + 1]
    <2>1. e \in [kind : {"added", "deleted"}, msg : Coverage!Added(log) \union {Len(log) + 1}]
      OBVIOUS
    <2>2. log' = Append(log, e)
      BY <1>4 DEF MessageAdded, HistoryId
    <2>3. Coverage!MailboxChanges
      BY <1>2, <2>1, <2>2 DEF Coverage!MailboxChanges
    <2> QED BY <2>3 DEF CoverNext
  <1>5. CASE MessageDeleted
    <2>1. PICK m \in Live(log) : log' = Append(log, [kind |-> "deleted", msg |-> m])
      BY <1>5 DEF MessageDeleted
    <2> DEFINE e == [kind |-> "deleted", msg |-> m]
    <2>2. e \in [kind : {"added", "deleted"}, msg : Coverage!Added(log) \union {Len(log) + 1}]
      BY <1>3 DEF Live
    <2>3. Coverage!MailboxChanges
      BY <1>2, <2>1, <2>2 DEF Coverage!MailboxChanges
    <2> QED BY <2>3 DEF CoverNext
  <1>6. CASE HistoryForgotten
    BY <1>2, <1>6 DEF HistoryForgotten, Shown
  <1> QED BY <1>4, <1>5, <1>6 DEF Mailbox, ProviderNext

(* A run opens a batch, or resumes one: no committed batch changes. *)
LEMMA BeginShows ==
    ASSUME IInv, CInv, NEW mode, BeginEffect(mode), UNCHANGED log
    PROVE  UNCHANGED Shown
  <1> DEFINE new == [mode |-> mode, version |-> cursor.version, value |-> cursor.value,
                     status |-> "running", committed |-> 0]
  <1>1. /\ UNCHANGED <<cursor, pages>> /\ batches \in Seq(BatchRow)
        /\ batches' = batches \/ batches' = Append(batches, new)
    BY DEF BeginEffect, IInv, Journal, JournalTyped
  <1>2. new.status # "committed"
    OBVIOUS
  <1> HIDE DEF new
  <1>3. /\ \A b \in DOMAIN batches : b \in DOMAIN batches' /\ batches'[b] = batches[b]
        /\ \A b \in DOMAIN batches' : b \in DOMAIN batches \/ batches'[b] = new
    <2>1. CASE batches' = Append(batches, new)
      <3>1. /\ Len(batches) \in Nat /\ DOMAIN batches = 1..Len(batches)
            /\ DOMAIN batches' = 1..(Len(batches) + 1) /\ batches'[Len(batches) + 1] = new
            /\ \A b \in 1..Len(batches) : batches'[b] = batches[b]
        BY <1>1, <2>1
      <3> QED BY <3>1
    <2> QED BY <1>1, <2>1
  <1>4. CommittedBatches' = CommittedBatches
    BY <1>2, <1>3 DEF CommittedBatches
  <1> QED BY <1>1, <1>3, <1>4, ShowsNothing DEF CommittedBatches, PagesOf

(* Every step is a step of MailboxCoverage or shows nothing of it. *)
LEMMA StepShows ==
    IInv /\ CInv /\ [Next]_vars /\ ObservedWereAdded' => CoverNext \/ UNCHANGED Shown
  <1> SUFFICES ASSUME IInv, CInv, [Next]_vars, ObservedWereAdded'
               PROVE  CoverNext \/ UNCHANGED Shown
    OBVIOUS
  <1>1. ASSUME UNCHANGED <<log, journalVars>> PROVE UNCHANGED Shown
    <2>1. Grown /\ cursor' = cursor
      BY <1>1, StillGrown DEF IInv, journalVars
    <2>2. ObservedMessages' = ObservedMessages
      BY <1>1, <2>1, QuietReads
    <2> QED BY <1>1, <2>1, <2>2 DEF Shown
  <1>2. ASSUME NEW c, CallTyped(c), Accepted(c), Execute(c), UNCHANGED log,
               c.rpc = "mark_history_expired" => c.anchor <= Len(log)
        PROVE  CoverNext \/ UNCHANGED Shown
    BY <1>2, CallShows
  <1>3. ASSUME NEW r \in Owners, Acquire(r) PROVE UNCHANGED Shown
    <2>1. UNCHANGED log
      BY <1>3 DEF Acquire, providerVars
    <2>2. CASE AcquireEffect(r)
      <3>1. cursor'.value = cursor.value /\ UNCHANGED <<batches, pages, gaps>>
        BY <2>2 DEF AcquireEffect, IInv, Journal, JournalTyped, CursorRow
      <3> QED BY <2>1, <3>1, LeaseReads DEF Shown
    <2> QED BY <1>1, <1>3, <2>1, <2>2 DEF Acquire
  <1>4. ASSUME NEW r \in Owners, Begin(r) PROVE UNCHANGED Shown
    <2>1. UNCHANGED log
      BY <1>4 DEF Begin, providerVars
    <2> QED BY <1>1, <1>4, <2>1, BeginShows DEF Begin
  <1>5. ASSUME NEW r \in Owners, CaptureAnchor(r) \/ List(r) \/ HistoryGap(r) \/ Stop(r)
        PROVE  UNCHANGED Shown
    BY <1>1, <1>5 DEF CaptureAnchor, List, HistoryGap, Stop, Local, providerVars
  <1>6. ASSUME NEW r \in Owners, AppendPage(r) \/ CommitBatch(r) \/ MarkHistoryExpired(r)
        PROVE  CoverNext \/ UNCHANGED Shown
    <2>1. UNCHANGED log
      BY <1>6 DEF AppendPage, CommitBatch, MarkHistoryExpired, providerVars
    <2>2. RunTyped(run[r]) /\ run[r].anchor <= Len(log)
      BY DEF IInv, RunsTyped, CInv, AnchorsNotAhead
    <2>3. CASE AppendPage(r) /\ ~UNCHANGED journalVars
      <3>1. PICK c : c = AppendCall(r)
        OBVIOUS
      <3>2. CallTyped(c) /\ Accepted(c) /\ Execute(c) /\ c.rpc = "append_page"
        BY <2>2, <2>3, <3>1, CallsAreTyped DEF AppendPage, AppendCall
      <3> QED BY <1>2, <2>1, <3>2
    <2>4. CASE CommitBatch(r) /\ ~UNCHANGED journalVars
      <3>1. PICK c : c = CommitCall(r)
        OBVIOUS
      <3>2. CallTyped(c) /\ Accepted(c) /\ Execute(c) /\ c.rpc = "commit_batch"
        BY <2>2, <2>4, <3>1, CallsAreTyped DEF CommitBatch, CommitCall
      <3> QED BY <1>2, <2>1, <3>2
    <2>5. CASE MarkHistoryExpired(r) /\ ~UNCHANGED journalVars
      <3>1. PICK c : c = MarkCall(r)
        OBVIOUS
      <3>2. CallTyped(c) /\ Accepted(c) /\ Execute(c) /\ c.anchor <= Len(log)
        BY <2>2, <2>5, <3>1, CallsAreTyped DEF MarkHistoryExpired, MarkCall
      <3> QED BY <1>2, <2>1, <3>2
    <2> QED BY <1>1, <1>6, <2>1, <2>3, <2>4, <2>5
  <1>7. ASSUME NEW c \in late, LateWrite(c) PROVE CoverNext \/ UNCHANGED Shown
    <2>1. UNCHANGED log
      BY <1>7 DEF LateWrite, providerVars
    <2>2. CallTyped(c) /\ (c.rpc = "mark_history_expired" => c.anchor <= Len(log))
      BY DEF IInv, LateTyped, CInv, AnchorsNotAhead
    <2> QED BY <1>1, <1>2, <1>7, <2>1, <2>2 DEF LateWrite
  <1>8. CASE LeaseTimesOut \/ LeaseSlips
    <2>1. UNCHANGED <<log, batches, pages, gaps>> /\ cursor' = [cursor EXCEPT !.live = FALSE]
      BY <1>8 DEF LeaseTimesOut, LeaseSlips, ExpireLease, providerVars
    <2>2. cursor'.value = cursor.value
      BY <2>1 DEF IInv, Journal, JournalTyped, CursorRow
    <2> QED BY <2>1, <2>2, LeaseReads DEF Shown
  <1>9. CASE UNCHANGED vars
    BY <1>1, <1>9 DEF vars, providerVars
  <1> QED BY <1>3, <1>4, <1>5, <1>6, <1>7, <1>8, <1>9, MailboxShows DEF Next, Step

(* The journal keeps the promise of MailboxCoverage: batches, pages,       *)
(* leases, overlapping runs and late writes show only as a position that   *)
(* moves forward over mail that is known.                                  *)
THEOREM CoveragePromise == Spec => Covers
  <1>1. Init => Coverage!Init
    <2> SUFFICES ASSUME Init PROVE Coverage!Init
      OBVIOUS
    <2>1. cursor.value = 0 /\ batches = << >> /\ pages = {}
      BY DEF Init, JournalInit
    <2>2. ObservedMessages = {}
      BY <2>1 DEF ObservedMessages, ObservedEvents, Observed
    <2> QED BY <2>1, <2>2 DEF Coverage!Init
  <1>2. IInv /\ CInv /\ [Next]_vars /\ ObservedWereAdded'
           => [Coverage!MailboxChanges \/ Coverage!Advance]_<<log, cursor.value, ObservedMessages>>
    BY StepShows DEF CoverNext, Shown
  <1> QED BY <1>1, <1>2, ObservedAreAdded, CoverageInvariance, PTL DEF Spec, Covers, Coverage!Spec
=============================================================================
