----------------------- MODULE TruthPublication_proofs -----------------------
(***************************************************************************)
(* Theorems about TruthPublication, for any number of runs and workers,    *)
(* any bounds, and either channel.  The ledger (pairs, publications, head, *)
(* approvals) keeps its own invariant whoever calls; of its clients only   *)
(* what they hold matters: cuts that have been sealed, approvals that have *)
(* been issued, rollback targets that have been published.                 *)
(***************************************************************************)
EXTENDS TruthPublication, TLAPS

LedgerTypes ==
    /\ cursor \in 0 .. MaxVersion /\ gaps \in BOOLEAN
    /\ pair \in [Cuts -> Pair]
    /\ publications \in Seq(Publication)
    /\ head \in 0 .. Len(publications)
    /\ approvals \in Seq(Approval)
    /\ \A id \in Ids : publications[id].cut <= cursor

(* What is rolled back to has been published. *)
RollbacksOfPublished ==
    \A id \in Ids : publications[id].rollback => Published(publications[id].cut)

Ledger ==
    /\ LedgerTypes
    /\ LinearHistory
    /\ BuiltOnPredecessor
    /\ RollbacksOfPublished
    /\ ApprovedTransitions

(* In production, a is an approval for cut c to replace the head e. *)
HeldApproval(c, e, a) ==
    Production => a \in DOMAIN approvals /\ approvals[a].cut = c /\ approvals[a].expected = e

(* What a run, or a call of one that is gone, has with it when it is about *)
(* to publish, and when it is about to commit.                             *)
Holding(point, call) ==
    /\ point \in {"publish", "commit"} => HeldApproval(call.cut, call.expected, call.approval)
    /\ point = "commit" => pair[call.cut].status = "succeeded"

RunsHold ==
    \A r \in Runs :
      /\ run[r].pc # "idle" => run[r].cut \in 1 .. cursor
      /\ Holding(run[r].pc, run[r])

LateHold ==
    \A m \in late :
      /\ m.call.cut \in 1 .. cursor
      /\ Holding(m.fn, m.call)

DecisionHolds ==
    decision # NoDecision =>
      /\ decision.target \in Ids
      /\ HeldApproval(CutOf(decision.target), decision.expected, decision.approval)

Clients ==
    /\ run \in [Runs -> RunState]
    /\ decision \in [target : 0 .. Len(publications), expected : Nat, approval : Nat]
    /\ late \subseteq Call
    /\ faults \in 0 .. MaxFaults
    /\ RunsHold
    /\ LateHold
    /\ DecisionHolds

IInv == Ledger /\ Clients
-----------------------------------------------------------------------------
(* The ledger.                                                             *)

Growing ==
    /\ cursor' \in cursor .. MaxVersion
    /\ publications' \in Seq(Publication) /\ Len(publications') >= Len(publications)
    /\ \A id \in Ids : publications'[id].cut = publications[id].cut
    /\ approvals' \in Seq(Approval) /\ Len(approvals') >= Len(approvals)
    /\ \A a \in DOMAIN approvals :
         approvals'[a].cut = approvals[a].cut /\ approvals'[a].expected = approvals[a].expected
    /\ \A c \in Cuts : pair[c].status = "succeeded" => pair'[c].status = "succeeded"

(* What the types of the ledger say of its numbers. *)
LEMMA Types ==
    ASSUME LedgerTypes
    PROVE  /\ MaxVersion \in Nat /\ cursor \in Nat /\ head \in Nat
           /\ Len(publications) \in Nat /\ Len(approvals) \in Nat
           /\ \A id \in Ids : publications[id] \in Publication /\ publications[id].cut \in Cuts
<1>1. MaxVersion \in Nat /\ cursor \in Nat
  BY PublicationAssumption DEF LedgerTypes
<1>2. /\ Len(publications) \in Nat /\ Len(approvals) \in Nat
      /\ \A id \in Ids : publications[id] \in Publication
  BY DEF LedgerTypes, Ids
<1>3. head \in Nat
  BY <1>2 DEF LedgerTypes
<1> QED
  BY <1>1, <1>2, <1>3 DEF Publication

(* A head has a version, and no head has the version zero. *)
LEMMA VersionType ==
    ASSUME LedgerTypes
    PROVE  VersionOf(head) \in Nat
<1>1. head = 0 \/ head \in Ids
  BY Types DEF Ids, LedgerTypes
<1>2. \A id \in Ids : publications[id].version \in Nat
  BY Types DEF Publication
<1> QED
  BY <1>1, <1>2 DEF VersionOf

(* The ledger keeps its invariant while only the sources move on: a cut    *)
(* stays sealed.                                                           *)
LEMMA LedgerStutters ==
    ASSUME Ledger, UNCHANGED <<pair, publications, head, approvals>>,
           cursor' \in cursor .. MaxVersion, gaps' \in BOOLEAN
    PROVE  Ledger' /\ Growing
<1>1. LedgerTypes' /\ Growing
  <2>1. \A id \in Ids : publications[id].cut <= cursor'
    BY Types DEF Ledger, LedgerTypes, Cuts
  <2> QED
    BY <2>1, Types DEF Ledger, LedgerTypes, Ids, Growing
<1>2. (LinearHistory /\ BuiltOnPredecessor /\ RollbacksOfPublished)'
  BY DEF Ledger, LinearHistory, BuiltOnPredecessor, RollbacksOfPublished, Ids, Published
<1>3. ApprovedTransitions'
  BY DEF Ledger, ApprovedTransitions, Ids
<1> QED
  BY <1>1, <1>2, <1>3 DEF Ledger

(* It keeps it when one pair changes, unless that pair was built: what is  *)
(* published rests on built pairs.                                         *)
LEMMA PairChanges ==
    ASSUME Ledger, NEW c \in Cuts, NEW row \in Pair,
           pair[c].status = "succeeded" => row = pair[c],
           pair' = [pair EXCEPT ![c] = row],
           UNCHANGED <<cursor, gaps, publications, head, approvals>>
    PROVE  Ledger' /\ Growing
<1>1. LedgerTypes' /\ Growing
  BY Types DEF Ledger, LedgerTypes, Ids, Growing
<1>2. (LinearHistory /\ RollbacksOfPublished)'
  BY DEF Ledger, LinearHistory, RollbacksOfPublished, Ids, Published
<1>3. BuiltOnPredecessor'
  BY Types DEF Ledger, LedgerTypes, BuiltOnPredecessor, Ids
<1>4. ApprovedTransitions'
  BY DEF Ledger, ApprovedTransitions, Ids
<1> QED
  BY <1>1, <1>2, <1>3, <1>4 DEF Ledger

(* claim_truth_build_pair leaves what has ended alone, never changes a     *)
(* base, and never ends a pair.                                            *)
LEMMA ClaimedRow ==
    ASSUME LedgerTypes, NEW c \in Cuts, NEW worker \in Workers
    PROVE  /\ Claimed(c, worker) \in Pair
           /\ pair[c].status \in {"succeeded", "failed"} => Claimed(c, worker) = pair[c]
           /\ pair[c].status # "none" => Claimed(c, worker).base = pair[c].base
           /\ pair[c].status = "running" => Claimed(c, worker).status = "running"
<1> pair[c] \in Pair /\ head \in Nat
  BY DEF LedgerTypes
<1>1. CASE pair[c].status = "none"
  BY <1>1 DEF Claimed, Pair
<1>2. CASE pair[c].status = "running" /\ ~pair[c].live
  <2>1. Claimed(c, worker) = [pair[c] EXCEPT !.owner = worker, !.fence = pair[c].fence + 1, !.live = TRUE]
    BY <1>2 DEF Claimed
  <2> DEFINE row == [status |-> pair[c].status, owner |-> worker, fence |-> pair[c].fence + 1,
                     live |-> TRUE, base |-> pair[c].base]
  <2>2. Claimed(c, worker) = row
    BY <2>1 DEF Pair
  <2>3. row \in Pair
    BY DEF Pair
  <2> QED
    BY <2>2, <2>3, <1>2
<1>3. CASE pair[c].status # "none" /\ ~(pair[c].status = "running" /\ ~pair[c].live)
  BY <1>3 DEF Claimed
<1> QED
  BY <1>1, <1>2, <1>3

(* complete and fail leave what has ended alone, never change a base, and  *)
(* end a pair for the holder of its live lease only.                       *)
LEMMA EndedRow ==
    ASSUME LedgerTypes, NEW c \in Cuts, NEW worker, NEW fence,
           NEW status \in {"succeeded", "failed"}
    PROVE  /\ Ended(c, worker, fence, status) \in Pair
           /\ pair[c].status \in {"succeeded", "failed"} => Ended(c, worker, fence, status) = pair[c]
           /\ Ended(c, worker, fence, status).base = pair[c].base
           /\ pair[c].status = "none" => Ended(c, worker, fence, status) = pair[c]
           /\ pair[c].status # Ended(c, worker, fence, status).status
                => pair[c].fence = fence /\ pair[c].live
BY DEF LedgerTypes, Ended, Holds, Pair

(* What using up an approval does to the approvals.                        *)
LEMMA UsedUpApprovals ==
    ASSUME LedgerTypes, NEW a, NEW id \in Nat, Production => a \in DOMAIN approvals
    PROVE  /\ UsedUp(a, id) \in Seq(Approval) /\ Len(UsedUp(a, id)) = Len(approvals)
           /\ DOMAIN UsedUp(a, id) = DOMAIN approvals
           /\ \A b \in DOMAIN approvals :
                /\ UsedUp(a, id)[b].cut = approvals[b].cut
                /\ UsedUp(a, id)[b].expected = approvals[b].expected
                /\ Production /\ b # a => UsedUp(a, id)[b] = approvals[b]
           /\ Production => UsedUp(a, id)[a].status = "consumed" /\ UsedUp(a, id)[a].publication = id
<1>1. CASE Production
  <2>1. a \in DOMAIN approvals /\ approvals[a] \in Approval
    BY <1>1 DEF LedgerTypes
  <2>2. PICK row : row = [approvals[a] EXCEPT !.status = "consumed", !.publication = id]
    OBVIOUS
  <2>3. /\ row \in Approval /\ row.cut = approvals[a].cut /\ row.expected = approvals[a].expected
        /\ row.status = "consumed" /\ row.publication = id
    BY <2>1, <2>2 DEF Approval
  <2>4. UsedUp(a, id) = [approvals EXCEPT ![a] = row]
    BY <1>1, <2>2 DEF UsedUp
  <2> QED
    BY <1>1, <2>1, <2>3, <2>4 DEF LedgerTypes
<1>2. CASE ~Production
  BY <1>2 DEF UsedUp, LedgerTypes
<1> QED
  BY <1>1, <1>2

(* An approval used up on a transition that is its own keeps the bond of   *)
(* approvals and transitions, whoever else has used up one on it.          *)
LEMMA BoundApprovals ==
    ASSUME LedgerTypes, Production, NEW a \in DOMAIN approvals, NEW id \in Ids',
           \A b \in DOMAIN approvals : approvals[b].status = "consumed" =>
             /\ approvals[b].publication \in Ids'
             /\ publications'[approvals[b].publication].cut = approvals[b].cut
             /\ publications'[approvals[b].publication].previous = approvals[b].expected,
           \A i \in Ids' : i = id \/
             /\ publications'[i].approval \in DOMAIN approvals \ {a}
             /\ approvals[publications'[i].approval].status = "consumed"
             /\ approvals[publications'[i].approval].publication = i,
           publications'[id].cut = approvals[a].cut,
           publications'[id].previous = approvals[a].expected,
           \/ publications'[id].approval = a
           \/ /\ publications'[id].approval \in DOMAIN approvals \ {a}
              /\ approvals[publications'[id].approval].status = "consumed"
              /\ approvals[publications'[id].approval].publication = id,
           id \in Nat, approvals' = UsedUp(a, id)
    PROVE  ApprovedTransitions'
<1>1. /\ DOMAIN approvals' = DOMAIN approvals
      /\ \A b \in DOMAIN approvals : /\ approvals'[b].cut = approvals[b].cut
                                     /\ approvals'[b].expected = approvals[b].expected
                                     /\ b # a => approvals'[b] = approvals[b]
      /\ approvals'[a].status = "consumed" /\ approvals'[a].publication = id
  BY UsedUpApprovals
<1>2. ASSUME NEW b \in DOMAIN approvals', approvals'[b].status = "consumed"
      PROVE  /\ approvals'[b].publication \in Ids'
             /\ publications'[approvals'[b].publication].cut = approvals'[b].cut
             /\ publications'[approvals'[b].publication].previous = approvals'[b].expected
  <2>1. CASE b = a
    BY <1>1, <2>1
  <2>2. CASE b # a
    BY <1>1, <1>2, <2>2
  <2> QED
    BY <2>1, <2>2
<1>3. ASSUME NEW i \in Ids'
      PROVE  /\ publications'[i].approval \in DOMAIN approvals'
             /\ approvals'[publications'[i].approval].status = "consumed"
             /\ approvals'[publications'[i].approval].publication = i
  <2>1. CASE publications'[i].approval = a
    BY <1>1, <2>1
  <2>2. CASE publications'[i].approval # a
    BY <1>1, <2>2
  <2> QED
    BY <2>1, <2>2
<1> QED
  BY <1>2, <1>3 DEF ApprovedTransitions

(* A publication put on the head by a caller that has seen that head,      *)
(* built on it or rolling back to what was published, and in production    *)
(* with an approval of its own that is not used up, keeps the line of      *)
(* publications and the bond with approvals.                               *)
LEMMA PublicationInserted ==
    ASSUME Ledger, NEW c \in 1 .. cursor, NEW rollback \in BOOLEAN, NEW expected \in Nat, NEW a \in Nat,
           HeadIs(expected), HeldApproval(c, expected, a), Unused(a),
           ~rollback => pair[c].status = "succeeded" /\ BaseIsHead(c),
           rollback => Published(c),
           Insert(c, rollback, expected, a),
           UNCHANGED <<cursor, gaps, pair>>
    PROVE  Ledger' /\ Growing
<1> DEFINE new == Successor(c, rollback, expected, a)
           n == Len(publications)
<1>1. VersionOf(head) = head /\ head = n /\ expected = n /\ n \in Nat
  BY DEF Ledger, LedgerTypes, LinearHistory, VersionOf, Ids, HeadIs
<1>2. /\ new \in Publication /\ new.version = n + 1 /\ new.previous = n /\ new.cut = c
      /\ new.rollback = rollback /\ new.expected = n /\ new.approval = a
  BY <1>1, PublicationAssumption DEF Successor, Publication, Cuts, Ledger, LedgerTypes
<1>3. /\ publications' \in Seq(Publication) /\ Len(publications') = n + 1
      /\ \A id \in 1 .. n : publications'[id] = publications[id]
      /\ publications'[n + 1] = new
      /\ head' = n + 1
  <2> HIDE DEF new
  <2>1. publications' = Append(publications, new) /\ head' = n + 1
    BY <1>2 DEF Insert, new
  <2> QED
    BY <2>1, <1>2, <1>1 DEF Ledger, LedgerTypes
<1> HIDE DEF new
<1>4. Ids' = Ids \union {n + 1} /\ n + 1 \notin Ids
  BY <1>1, <1>3 DEF Ids
<1>5. /\ approvals' = UsedUp(a, n + 1)
      /\ approvals' \in Seq(Approval) /\ Len(approvals') = Len(approvals)
      /\ \A b \in DOMAIN approvals :
           approvals'[b].cut = approvals[b].cut /\ approvals'[b].expected = approvals[b].expected
  <2>1. approvals' = UsedUp(a, n + 1) /\ n + 1 \in Nat /\ (Production => a \in DOMAIN approvals)
    BY <1>1 DEF Insert, HeldApproval
  <2> QED
    BY <2>1, UsedUpApprovals DEF Ledger
<1>6. LedgerTypes' /\ Growing
  <2>1. \A id \in Ids' : publications'[id].cut <= cursor'
    <3>1. c \in 1 .. cursor /\ cursor' = cursor /\ Ids = 1 .. n
      BY DEF Ids
    <3>2. \A id \in 1 .. n : publications[id].cut <= cursor
      BY <3>1 DEF Ledger, LedgerTypes
    <3>3. publications'[n + 1].cut <= cursor
      BY <1>2, <1>3, <3>1
    <3> QED
      BY <1>3, <1>4, <3>1, <3>2, <3>3
  <2> QED
    BY <2>1, <1>1, <1>3, <1>5, Types DEF Ledger, LedgerTypes, Growing, Ids
<1>7. LinearHistory'
  BY <1>1, <1>2, <1>3, <1>4 DEF Ledger, LinearHistory, Ids
<1>8. BuiltOnPredecessor'
  BY <1>1, <1>2, <1>3, <1>4 DEF Ledger, BuiltOnPredecessor, BaseIsHead, Ids
<1>9. RollbacksOfPublished'
  BY <1>1, <1>2, <1>3, <1>4 DEF Ledger, RollbacksOfPublished, Published, Ids
<1>10. ApprovedTransitions'
  <2> SUFFICES ASSUME Production
               PROVE  ApprovedTransitions'
    BY DEF ApprovedTransitions
  <2>1. /\ a \in DOMAIN approvals /\ approvals[a].status # "consumed"
        /\ approvals[a].cut = c /\ approvals[a].expected = n
    BY <1>1 DEF HeldApproval, Unused
  <2>2. \A b \in DOMAIN approvals : approvals[b].status = "consumed" =>
          /\ approvals[b].publication \in Ids
          /\ publications'[approvals[b].publication].cut = approvals[b].cut
          /\ publications'[approvals[b].publication].previous = approvals[b].expected
    BY <1>3 DEF Ledger, ApprovedTransitions, Ids
  <2>3. \A i \in Ids :
          /\ publications'[i].approval \in DOMAIN approvals \ {a}
          /\ approvals[publications'[i].approval].status = "consumed"
          /\ approvals[publications'[i].approval].publication = i
    BY <2>1, <1>3 DEF Ledger, ApprovedTransitions, Ids
  <2>4. /\ publications'[n + 1].cut = approvals[a].cut
        /\ publications'[n + 1].previous = approvals[a].expected
        /\ publications'[n + 1].approval = a
    BY <2>1, <1>2, <1>3
  <2>5. n + 1 \in Nat /\ n + 1 \in Ids'
    BY <1>1, <1>4
  <2> HIDE DEF n
  <2> QED
    BY <2>1, <2>2, <2>3, <2>4, <2>5, <1>4, <1>5, BoundApprovals DEF Ledger
<1> QED
  BY <1>6, <1>7, <1>8, <1>9, <1>10 DEF Ledger

(* The receipt of what the same request has published keeps the ledger:    *)
(* the second approval was for that very transition.                       *)
LEMMA ReceiptGiven ==
    ASSUME Ledger, NEW c, NEW expected, NEW a, HeldApproval(c, expected, a), Unused(a),
           NEW id \in Receipts(c, expected), approvals' = UsedUp(a, id),
           UNCHANGED <<cursor, gaps, pair, publications, head>>
    PROVE  Ledger' /\ Growing
<1>1. /\ id \in Ids /\ id \in Nat /\ publications[id].cut = c /\ publications[id].expected = expected
      /\ publications[id].previous = expected
  BY Types DEF Receipts, Ledger, LinearHistory, Ids
<1>2. /\ approvals' \in Seq(Approval) /\ Len(approvals') = Len(approvals)
      /\ \A b \in DOMAIN approvals :
           approvals'[b].cut = approvals[b].cut /\ approvals'[b].expected = approvals[b].expected
  BY <1>1, UsedUpApprovals DEF Ledger, HeldApproval
<1>3. LedgerTypes' /\ Growing
  BY <1>2, Types DEF Ledger, LedgerTypes, Ids, Growing
<1>4. (LinearHistory /\ BuiltOnPredecessor /\ RollbacksOfPublished)'
  BY DEF Ledger, LinearHistory, BuiltOnPredecessor, RollbacksOfPublished, Ids, Published
<1>5. ApprovedTransitions'
  <2> SUFFICES ASSUME Production
               PROVE  ApprovedTransitions'
    BY DEF ApprovedTransitions
  <2>1. /\ a \in DOMAIN approvals /\ approvals[a].status # "consumed"
        /\ approvals[a].cut = c /\ approvals[a].expected = expected
    BY DEF HeldApproval, Unused
  <2>2. Ids' = Ids /\ publications' = publications
    BY DEF Ids
  <2>3. \A b \in DOMAIN approvals : approvals[b].status = "consumed" =>
          /\ approvals[b].publication \in Ids
          /\ publications[approvals[b].publication].cut = approvals[b].cut
          /\ publications[approvals[b].publication].previous = approvals[b].expected
    BY DEF Ledger, ApprovedTransitions
  <2>4. \A i \in Ids :
          /\ publications[i].approval \in DOMAIN approvals \ {a}
          /\ approvals[publications[i].approval].status = "consumed"
          /\ approvals[publications[i].approval].publication = i
    BY <2>1 DEF Ledger, ApprovedTransitions
  <2> QED
    BY <1>1, <2>1, <2>2, <2>3, <2>4, BoundApprovals DEF Ledger
<1> QED
  BY <1>3, <1>4, <1>5 DEF Ledger

(* A call that reaches the lock, accepted, answered with a receipt or      *)
(* refused, keeps the ledger, whoever makes it.                            *)
LEMMA CommitKeepsLedger ==
    ASSUME Ledger, NEW c \in 1 .. cursor, NEW expected \in Nat, NEW a \in Nat,
           HeldApproval(c, expected, a), pair[c].status = "succeeded",
           CommitEffect(c, expected, a), UNCHANGED <<cursor, gaps, pair>>
    PROVE  Ledger' /\ Growing
<1>1. CASE CommitAccepted(c, expected) /\ Unused(a)
  BY <1>1, PublicationInserted, FALSE \in BOOLEAN DEF CommitEffect, CommitAccepted
<1>2. CASE ~(CommitAccepted(c, expected) /\ Unused(a))
  <2>1. UNCHANGED <<publications, head>>
    BY <1>2 DEF CommitEffect
  <2>2. CASE UNCHANGED approvals
    BY <2>1, <2>2, LedgerStutters, Types DEF Ledger, LedgerTypes
  <2>3. CASE Unused(a) /\ \E id \in Receipts(c, expected) : approvals' = UsedUp(a, id)
    BY <2>1, <2>3, ReceiptGiven
  <2> QED
    BY <1>2, <2>2, <2>3 DEF CommitEffect
<1> QED
  BY <1>1, <1>2
-----------------------------------------------------------------------------
(* The clients.                                                            *)

(* What a client holds stays good while the ledger grows. *)
LEMMA HoldingStays ==
    ASSUME Ledger, Growing
    PROVE  /\ \A c, e, a : HeldApproval(c, e, a) => HeldApproval(c, e, a)'
           /\ \A point, call : Holding(point, call) /\ call.cut \in Cuts => Holding(point, call)'
           /\ 1 .. cursor \subseteq 1 .. cursor' /\ 1 .. cursor \subseteq Cuts
           /\ Ids \subseteq Ids' /\ 0 .. Len(publications) \subseteq 0 .. Len(publications')
           /\ \A id \in Ids : CutOf(id)' = CutOf(id)
<1>1. DOMAIN approvals \subseteq DOMAIN approvals'
  BY Types DEF Growing, Ledger, LedgerTypes
<1>2. \A c, e, a : HeldApproval(c, e, a) => HeldApproval(c, e, a)'
  BY <1>1 DEF HeldApproval, Growing
<1>3. \A point, call : Holding(point, call) /\ call.cut \in Cuts => Holding(point, call)'
  BY <1>2 DEF Holding, Growing
<1>4. /\ 1 .. cursor \subseteq 1 .. cursor' /\ 1 .. cursor \subseteq Cuts
      /\ Ids \subseteq Ids' /\ 0 .. Len(publications) \subseteq 0 .. Len(publications')
  BY Types DEF Growing, Ids, Ledger, LedgerTypes, Cuts
<1>5. \A id \in Ids : CutOf(id)' = CutOf(id)
  BY DEF CutOf, Growing
<1> QED
  BY <1>2, <1>3, <1>4, <1>5

(* A run that does nothing loses nothing by what others do. *)
LEMMA RunStays ==
    ASSUME Ledger, Clients, Growing, NEW r \in Runs, run'[r] = run[r]
    PROVE  /\ run'[r].pc # "idle" => run'[r].cut \in 1 .. cursor'
           /\ Holding(run[r].pc, run[r])'
<1>1. PICK point, call : point = run[r].pc /\ call = run[r]
  OBVIOUS
<1>2. /\ run'[r] = call /\ call.pc = point
      /\ point # "idle" => call.cut \in 1 .. cursor' /\ call.cut \in Cuts
      /\ Holding(point, call)
  BY <1>1, HoldingStays DEF Clients, RunsHold
<1>3. Holding(point, call)'
  BY <1>2, HoldingStays DEF Holding
<1> QED
  BY <1>2, <1>3 DEF Holding, HeldApproval

(* Nor does a call that is under way. *)
LEMMA CallsStay ==
    ASSUME Ledger, Clients, Growing, late' \subseteq late
    PROVE  late' \subseteq Call /\ LateHold'
<1>1. \A m \in late' : /\ m \in Call /\ m.call.cut \in 1 .. cursor' /\ m.call.cut \in Cuts
                       /\ Holding(m.fn, m.call)
  BY HoldingStays DEF Clients, LateHold
<1>2. ASSUME NEW m \in late'
      PROVE  Holding(m.fn, m.call)'
  <2>1. PICK point, call : point = m.fn /\ call = m.call
    OBVIOUS
  <2>2. Holding(point, call)'
    BY <1>1, <2>1, HoldingStays
  <2> QED
    BY <2>1, <2>2 DEF Holding, HeldApproval
<1> QED
  BY <1>1, <1>2 DEF LateHold, Holding, HeldApproval

(* Nor does a decision. *)
LEMMA DecisionStays ==
    ASSUME Ledger, Clients, Growing, UNCHANGED decision
    PROVE  /\ decision' \in [target : 0 .. Len(publications'), expected : Nat, approval : Nat]
           /\ DecisionHolds'
<1>1. decision' \in [target : 0 .. Len(publications'), expected : Nat, approval : Nat]
  BY HoldingStays DEF Clients
<1>2. DecisionHolds'
  <2> SUFFICES ASSUME decision # NoDecision
               PROVE  /\ decision.target \in Ids'
                      /\ HeldApproval(CutOf(decision.target), decision.expected, decision.approval)'
    BY DEF DecisionHolds, HeldApproval
  <2>1. /\ decision.target \in Ids
        /\ HeldApproval(CutOf(decision.target), decision.expected, decision.approval)
    BY DEF Clients, DecisionHolds
  <2>2. decision.target \in Ids' /\ CutOf(decision.target)' = CutOf(decision.target)
    BY <2>1, HoldingStays
  <2> QED
    BY <2>1, <2>2, HoldingStays DEF HeldApproval
<1> QED
  BY <1>1, <1>2

(* The clients stay as they should be when one run goes on. *)
LEMMA RunMoves ==
    ASSUME Ledger, Clients, Growing, NEW r \in Runs, NEW new \in RunState,
           run' = [run EXCEPT ![r] = new],
           new.pc # "idle" => new.cut \in 1 .. cursor',
           Holding(new.pc, new)',
           faults' \in 0 .. MaxFaults, late' \subseteq late, UNCHANGED decision
    PROVE  Clients'
<1>1. run' \in [Runs -> RunState] /\ \A q \in Runs : run'[q] = IF q = r THEN new ELSE run[q]
  BY DEF Clients
<1>2. RunsHold'
  <2> SUFFICES ASSUME NEW q \in Runs
               PROVE  /\ run'[q].pc # "idle" => run'[q].cut \in 1 .. cursor'
                      /\ Holding(run[q].pc, run[q])'
    BY DEF RunsHold
  <2>1. CASE q = r
    BY <1>1, <2>1 DEF Holding, HeldApproval
  <2>2. CASE q # r
    BY <1>1, <2>2, RunStays DEF Holding, HeldApproval
  <2> QED
    BY <2>1, <2>2
<1> QED
  BY <1>1, <1>2, CallsStay, DecisionStays DEF Clients

(* They stay so when only the ledger or the sources change. *)
LEMMA RunsStay ==
    ASSUME Ledger, Clients, Growing, UNCHANGED <<run, decision>>, faults' \in 0 .. MaxFaults
    PROVE  /\ run' \in [Runs -> RunState] /\ RunsHold'
           /\ late' \subseteq late => Clients'
<1>1. RunsHold'
  BY RunStays DEF RunsHold, Holding, HeldApproval
<1> QED
  BY <1>1, CallsStay, DecisionStays DEF Clients

(* Nothing is published or claimed at first. *)
LEMMA InitIsIInv == Init => IInv
<1> SUFFICES ASSUME Init PROVE IInv
  OBVIOUS
<1>1. NoPair \in Pair
  BY PublicationAssumption DEF NoPair, Pair, Workers
<1>2. Ids = {} /\ publications \in Seq(Publication) /\ approvals \in Seq(Approval)
      /\ Len(publications) = 0 /\ DOMAIN approvals = {}
  BY DEF Init, Ids
<1>3. Ledger
  <2>a. MaxVersion \in Nat
    BY PublicationAssumption
  <2>b. cursor \in 0 .. MaxVersion /\ head = 0
    BY <2>a DEF Init
  <2>c. gaps \in BOOLEAN
    BY DEF Init
  <2>1. cursor \in 0 .. MaxVersion /\ gaps \in BOOLEAN /\ head = 0
    BY <2>b, <2>c
  <2>0. pair \in [Cuts -> Pair]
    BY <1>1 DEF Init
  <2>2. LedgerTypes
    BY <2>1, <2>0, <1>2 DEF LedgerTypes
  <2> QED
    BY <2>1, <2>2, <1>2 DEF Ledger, LinearHistory, BuiltOnPredecessor, RollbacksOfPublished,
       ApprovedTransitions
<1>4. Idle \in RunState /\ Idle.pc = "idle"
  BY PublicationAssumption DEF Idle, Standing, RunState, Points
<1>5. Clients
  BY <1>2, <1>4, PublicationAssumption DEF Init, Clients, RunsHold, LateHold, DecisionHolds, Holding, NoDecision
<1> QED
  BY <1>3, <1>5 DEF IInv
-----------------------------------------------------------------------------
(* The steps of a run.                                                     *)

(* The worker of a run is a worker. *)
LEMMA Workers_ == \A r \in Runs : WorkerOf[r] \in Workers
BY DEF Workers

(* A run that is given a place, a cut, a fence and a head is of its type. *)
LEMMA StandingType ==
    ASSUME NEW pc \in Points, NEW cut \in 0 .. MaxVersion, NEW fence \in Nat, NEW expected \in Nat
    PROVE  /\ Standing(pc, cut, fence, expected) \in RunState
           /\ Standing(pc, cut, fence, expected).pc = pc
           /\ Standing(pc, cut, fence, expected).cut = cut
BY DEF Standing, RunState

(* A run at work has a sealed cut, and may go anywhere with it. *)
LEMMA OnType ==
    ASSUME Ledger, Clients, NEW r \in Runs, run[r].pc # "idle"
    PROVE  /\ Idle \in RunState /\ Idle.pc = "idle"
           /\ run[r].cut \in Cuts /\ run[r].cut \in 1 .. cursor /\ run[r].cut \in 0 .. MaxVersion
           /\ \A pc \in Points : On(r, pc) \in RunState /\ On(r, pc).pc = pc /\ On(r, pc).cut = run[r].cut
<1>1. /\ run[r].cut \in 1 .. cursor /\ cursor \in 0 .. MaxVersion /\ MaxVersion \in Nat
  BY Types DEF Clients, RunsHold, Ledger, LedgerTypes
<1>2. run[r].cut \in 0 .. MaxVersion /\ run[r].cut \in Cuts /\ 0 \in 0 .. MaxVersion /\ 0 \in Nat
  BY <1>1 DEF Cuts
<1>3. "idle" \in Points
  BY DEF Points
<1>4. Idle \in RunState /\ Idle.pc = "idle"
  BY <1>2, <1>3, StandingType DEF Idle
<1>5. ASSUME NEW pc \in Points
      PROVE  On(r, pc) \in RunState /\ On(r, pc).pc = pc /\ On(r, pc).cut = run[r].cut
  BY <1>2, StandingType DEF On
<1> QED
  BY <1>1, <1>2, <1>4, <1>5

(* A run that goes on with all it holds is of its type. *)
LEMMA GotoType ==
    ASSUME Clients, NEW r \in Runs, NEW pc \in Points
    PROVE  /\ [run[r] EXCEPT !.pc = pc] \in RunState
           /\ [run[r] EXCEPT !.pc = pc].pc = pc /\ [run[r] EXCEPT !.pc = pc].cut = run[r].cut
           /\ [run EXCEPT ![r].pc = pc] = [run EXCEPT ![r] = [run[r] EXCEPT !.pc = pc]]
BY DEF Clients, RunState

(* Sealing a cut keeps the invariant: the cut is the cursor's. *)
LEMMA SealKeeps ==
    ASSUME IInv, NEW r \in Runs, Seal(r)
    PROVE  IInv'
<1> USE DEF IInv
<1>1. Ledger' /\ Growing
  BY LedgerStutters, Types DEF Seal, sources, ledger, Ledger, LedgerTypes
<1>0. PICK new : new = Standing(IF Production THEN "check" ELSE "claim", cursor, 0, 0)
  OBVIOUS
<1>2. new \in RunState /\ new.pc \notin {"publish", "commit"} /\ new.cut = cursor
  <2>1. (IF Production THEN "check" ELSE "claim") \in Points \ {"publish", "commit"}
    BY DEF Points
  <2>2. cursor \in 0 .. MaxVersion /\ 0 \in Nat
    BY DEF Ledger, LedgerTypes
  <2> QED
    BY <1>0, <2>1, <2>2, StandingType
<1>3. run' = [run EXCEPT ![r] = new] /\ cursor' = cursor /\ cursor \in 1 .. cursor
      /\ UNCHANGED <<late, decision, faults>> /\ faults \in 0 .. MaxFaults
  BY <1>0, Types DEF Seal, Become, sources, ledger, Clients, Ledger
<1>4. Holding(new.pc, new)'
  BY <1>2 DEF Holding
<1>5. Clients'
  BY <1>1, <1>2, <1>3, <1>4, RunMoves
<1> QED
  BY <1>1, <1>5

(* So do the steps that only read. *)
LEMMA QuietStepsKeep ==
    ASSUME IInv, NEW r \in Runs, CheckCurrent(r) \/ ReadBundle(r) \/ ReadHead(r)
    PROVE  IInv'
<1> USE DEF IInv
<1>1. Ledger' /\ Growing
  BY LedgerStutters, Types DEF CheckCurrent, ReadBundle, ReadHead, sources, ledger, Ledger, LedgerTypes
<1>2. UNCHANGED <<cursor, approvals, publications, late, decision, faults>> /\ faults \in 0 .. MaxFaults
  BY DEF CheckCurrent, ReadBundle, ReadHead, sources, ledger, Clients
<1>3. run[r].pc # "idle"
  BY DEF CheckCurrent, ReadBundle, ReadHead, At
<1>4. VersionOf(head) \in Nat
  BY VersionType DEF Ledger
<1>5. {"idle", "claim", "complete", "publish", "approve"} \subseteq Points
  BY DEF Points
<1>6. ASSUME NEW new \in RunState, run' = [run EXCEPT ![r] = new],
             new.pc # "idle" => new.cut = run[r].cut,
             new.pc = "publish" => ~Production,
             new.pc # "commit"
      PROVE  Clients'
  <2>1. new.pc # "idle" => new.cut \in 1 .. cursor'
    BY <1>2, <1>3, <1>6 DEF Clients, RunsHold
  <2>2. Holding(new.pc, new)'
    BY <1>6 DEF Holding, HeldApproval
  <2> QED
    BY <2>1, <2>2, <1>1, <1>2, <1>6, RunMoves
<1>7. CASE CheckCurrent(r)
  BY <1>7, <1>1, <1>3, <1>5, <1>6, OnType DEF CheckCurrent, Become
<1>8. CASE ReadBundle(r)
  <2>1. CASE run' = [run EXCEPT ![r] = Idle]
    BY <2>1, <1>1, <1>3, <1>5, <1>6, OnType
  <2>2. CASE run' = [run EXCEPT ![r].pc = "complete"]
    BY <2>2, <1>1, <1>5, <1>6, GotoType
  <2> QED
    BY <2>1, <2>2, <1>8 DEF ReadBundle, Goto, Become
<1>9. CASE ReadHead(r)
  <2> DEFINE pc == IF Production THEN "approve" ELSE "publish"
             new == Standing(pc, run[r].cut, 0, VersionOf(head))
  <2>1. pc \in Points /\ (pc = "publish" => ~Production) /\ pc # "commit"
    BY <1>5
  <2>2. new \in RunState /\ new.pc = pc /\ new.cut = run[r].cut
    BY <2>1, <1>1, <1>3, <1>4, OnType, StandingType, 0 \in Nat
  <2>3. run' = [run EXCEPT ![r] = new]
    BY <1>9 DEF ReadHead, Become
  <2> HIDE DEF new, pc
  <2> QED
    BY <2>1, <2>2, <2>3, <1>1, <1>6
<1> QED
  BY <1>7, <1>8, <1>9

(* So does a claim, new, repeated or taking over. *)
LEMMA ClaimKeeps ==
    ASSUME IInv, NEW r \in Runs, Claim(r)
    PROVE  IInv'
<1> USE DEF IInv
<1> DEFINE c == run[r].cut
           row == Claimed(c, WorkerOf[r])
<1>1. run[r].pc # "idle" /\ UNCHANGED <<cursor, gaps, publications, head, approvals, decision, late, faults>>
  BY DEF Claim, At, sources
<1>2. c \in Cuts /\ row \in Pair /\ (pair[c].status = "succeeded" => row = pair[c])
  BY <1>1, OnType, ClaimedRow, Workers_ DEF Ledger
<1>3. Ledger' /\ Growing
  BY <1>1, <1>2, PairChanges DEF Claim
<1>4. /\ AfterClaim(r, row) \in RunState
      /\ AfterClaim(r, row).pc # "idle" => AfterClaim(r, row).cut = c
      /\ AfterClaim(r, row).pc \notin {"publish", "commit"}
  <2>1. {"head", "bundle", "idle"} \subseteq Points
    BY DEF Points
  <2>2. row.fence \in Nat /\ 0 \in Nat
    BY <1>2 DEF Pair
  <2> HIDE DEF row
  <2> QED
    BY <2>1, <2>2, <1>1, OnType, StandingType DEF AfterClaim
<1>5. Clients'
  <2>0. PICK new : new = AfterClaim(r, row)
    OBVIOUS
  <2>1. run' = [run EXCEPT ![r] = new] /\ faults' \in 0 .. MaxFaults
    BY <2>0, <1>1 DEF Claim, Become, Clients
  <2>2. new.pc # "idle" => new.cut \in 1 .. cursor'
    BY <2>0, <1>1, <1>4, OnType
  <2>3. new \in RunState /\ new.pc \notin {"publish", "commit"}
    BY <2>0, <1>4
  <2>4. Holding(new.pc, new)'
    BY <2>3 DEF Holding
  <2> QED
    BY <1>1, <1>3, <2>1, <2>2, <2>3, <2>4, RunMoves
<1> QED
  BY <1>3, <1>5

(* The end of a pair keeps the ledger. *)
LEMMA EndKeepsLedger ==
    ASSUME Ledger, NEW c \in Cuts, NEW worker, NEW fence, NEW status \in {"succeeded", "failed"},
           pair' = [pair EXCEPT ![c] = Ended(c, worker, fence, status)],
           UNCHANGED <<cursor, gaps, publications, head, approvals>>
    PROVE  Ledger' /\ Growing
<1> DEFINE row == Ended(c, worker, fence, status)
<1>1. row \in Pair /\ (pair[c].status = "succeeded" => row = pair[c])
  BY EndedRow DEF Ledger
<1>2. pair' = [pair EXCEPT ![c] = row]
  OBVIOUS
<1> HIDE DEF row
<1> QED
  BY <1>1, <1>2, PairChanges

(* Completing keeps the invariant, whether the lease still holds or not. *)
LEMMA CompleteKeeps ==
    ASSUME IInv, NEW r \in Runs, Complete(r)
    PROVE  IInv'
<1> USE DEF IInv
<1> DEFINE c == run[r].cut
           row == Ended(c, WorkerOf[r], run[r].fence, "succeeded")
<1>1. run[r].pc # "idle" /\ UNCHANGED <<cursor, gaps, publications, head, approvals, decision, late, faults>>
  BY DEF Complete, At, sources
<1>2. Ledger' /\ Growing
  BY <1>1, OnType, EndKeepsLedger DEF Complete
<1>3. /\ AfterComplete(r, row) \in RunState
      /\ AfterComplete(r, row).pc # "idle" => AfterComplete(r, row).cut = c
      /\ AfterComplete(r, row).pc \notin {"publish", "commit"}
  <2>1. {"head", "recover"} \subseteq Points
    BY DEF Points
  <2> HIDE DEF row
  <2> QED
    BY <2>1, <1>1, OnType DEF AfterComplete
<1>4. Clients'
  <2>0. PICK new : new = AfterComplete(r, row)
    OBVIOUS
  <2>1. run' = [run EXCEPT ![r] = new] /\ faults' \in 0 .. MaxFaults
    BY <2>0, <1>1 DEF Complete, Become, Clients
  <2>2. new.pc # "idle" => new.cut \in 1 .. cursor'
    BY <2>0, <1>1, <1>3, OnType
  <2>3. new \in RunState /\ new.pc \notin {"publish", "commit"}
    BY <2>0, <1>3
  <2>4. Holding(new.pc, new)'
    BY <2>3 DEF Holding
  <2> QED
    BY <1>1, <1>2, <2>1, <2>2, <2>3, <2>4, RunMoves
<1> QED
  BY <1>2, <1>4

(* So does failing. *)
LEMMA FailKeeps ==
    ASSUME IInv, NEW r \in Runs, Fail(r)
    PROVE  IInv'
<1> USE DEF IInv
<1>1. run[r].pc # "idle" /\ UNCHANGED <<cursor, gaps, publications, head, approvals, decision, late>>
  BY DEF Fail, At, sources
<1>2. Ledger' /\ Growing
  BY <1>1, OnType, EndKeepsLedger DEF Fail
<1>3. faults' \in 0 .. MaxFaults
  BY PublicationAssumption DEF Fail, Clients
<1>4. Idle \in RunState /\ Idle.pc = "idle" /\ Holding(Idle.pc, Idle)'
  BY <1>1, OnType DEF Holding
<1> QED
  BY <1>1, <1>2, <1>3, <1>4, RunMoves DEF Fail, Become

(* An issued approval is the last of one more approvals. *)
LEMMA Append_ ==
    ASSUME LedgerTypes, NEW c \in Cuts, NEW expected \in Nat
    PROVE  /\ NewApproval(c, expected) \in Seq(Approval)
           /\ Len(NewApproval(c, expected)) = Len(approvals) + 1
           /\ \A a \in DOMAIN approvals : NewApproval(c, expected)[a] = approvals[a]
           /\ NewApproval(c, expected)[Len(approvals) + 1]
                = [cut |-> c, expected |-> expected, status |-> "issued", publication |-> 0]
<1> DEFINE new == [cut |-> c, expected |-> expected, status |-> "issued", publication |-> 0]
<1>1. new \in Approval
  BY DEF Approval
<1> HIDE DEF new
<1>2. /\ Append(approvals, new) \in Seq(Approval)
      /\ Len(Append(approvals, new)) = Len(approvals) + 1
      /\ \A a \in DOMAIN approvals : Append(approvals, new)[a] = approvals[a]
      /\ Append(approvals, new)[Len(approvals) + 1] = new
  BY <1>1 DEF LedgerTypes
<1> QED
  BY <1>2 DEF NewApproval, new

(* The ledger keeps its invariant when an approval is issued. *)
LEMMA ApprovalIssued ==
    ASSUME Ledger, NEW c \in Cuts, NEW expected \in Nat, approvals' = NewApproval(c, expected),
           UNCHANGED <<cursor, gaps, pair, publications, head>>
    PROVE  Ledger' /\ Growing /\ \A n : n = Len(approvals) + 1 => HeldApproval(c, expected, n)'
<1>1. /\ approvals' \in Seq(Approval) /\ Len(approvals') = Len(approvals) + 1
      /\ DOMAIN approvals' = DOMAIN approvals \union {Len(approvals) + 1}
      /\ \A a \in DOMAIN approvals : approvals'[a] = approvals[a]
      /\ approvals'[Len(approvals) + 1].status = "issued"
      /\ approvals'[Len(approvals) + 1].cut = c
      /\ approvals'[Len(approvals) + 1].expected = expected
  <2>1. LedgerTypes /\ Len(approvals) \in Nat
    BY Types DEF Ledger
  <2>2. /\ approvals' \in Seq(Approval) /\ Len(approvals') = Len(approvals) + 1
        /\ \A a \in DOMAIN approvals : approvals'[a] = approvals[a]
        /\ approvals'[Len(approvals) + 1]
             = [cut |-> c, expected |-> expected, status |-> "issued", publication |-> 0]
    BY <2>1, Append_
  <2>3. DOMAIN approvals = 1 .. Len(approvals) /\ DOMAIN approvals' = 1 .. Len(approvals) + 1
    BY <2>1, <2>2 DEF LedgerTypes
  <2> QED
    BY <2>1, <2>2, <2>3
<1>2. LedgerTypes' /\ Growing
  BY <1>1, Types DEF Ledger, LedgerTypes, Ids, Growing
<1>3. (LinearHistory /\ BuiltOnPredecessor /\ RollbacksOfPublished)'
  BY DEF Ledger, LinearHistory, BuiltOnPredecessor, RollbacksOfPublished, Ids, Published
<1>4. ApprovedTransitions'
  BY <1>1 DEF Ledger, ApprovedTransitions, Ids
<1>5. \A n : n = Len(approvals) + 1 => HeldApproval(c, expected, n)'
  BY <1>1 DEF HeldApproval
<1> QED
  BY <1>2, <1>3, <1>4, <1>5 DEF Ledger

(* Asking for an approval keeps the invariant: the run goes on with one    *)
(* that exists.                                                            *)
LEMMA ApproveKeeps ==
    ASSUME IInv, NEW r \in Runs, Approve(r)
    PROVE  IInv'
<1> USE DEF IInv
<1>1. run[r].pc # "idle" /\ UNCHANGED <<cursor, gaps, pair, publications, head, decision, late, faults>>
  BY DEF Approve, At, sources
<1>2. run[r].expected \in Nat /\ faults \in 0 .. MaxFaults
  BY DEF Clients, RunState
<1>3. CASE HeadIs(run[r].expected)
  <2>1. PICK n : n = Len(approvals) + 1
    OBVIOUS
  <2>2. PICK c, e : c = run[r].cut /\ e = run[r].expected
    OBVIOUS
  <2>3. c \in Cuts /\ c \in 1 .. cursor /\ e \in Nat /\ approvals' = NewApproval(c, e)
    BY <1>1, <1>2, <1>3, <2>2, OnType DEF Approve
  <2>4. Ledger' /\ Growing /\ HeldApproval(c, e, n)'
    BY <1>1, <2>1, <2>3, ApprovalIssued
  <2>5. PICK new : new = [run[r] EXCEPT !.pc = "publish", !.approval = n]
    OBVIOUS
  <2>6. /\ new \in RunState /\ new.pc = "publish"
        /\ new.cut = c /\ new.expected = e /\ new.approval = n
    <3>1. run[r] \in RunState /\ n \in Nat /\ "publish" \in Points
      BY <2>1, Types DEF Clients, Ledger, Points
    <3>2. new = [pc |-> "publish", cut |-> run[r].cut, fence |-> run[r].fence,
                 expected |-> run[r].expected, approval |-> n]
      BY <2>5, <3>1 DEF RunState
    <3> QED
      BY <2>2, <3>1, <3>2 DEF RunState
  <2>7. Holding(new.pc, new)'
    BY <2>4, <2>6 DEF Holding, HeldApproval
  <2>8. run' = [run EXCEPT ![r] = new] /\ new.cut \in 1 .. cursor'
    BY <1>1, <1>3, <2>1, <2>3, <2>5, <2>6 DEF Approve, Become
  <2>9. Clients'
    BY <1>1, <1>2, <2>4, <2>6, <2>7, <2>8, RunMoves
  <2> QED
    BY <2>4, <2>9
<1>4. CASE ~HeadIs(run[r].expected)
  <2>1. UNCHANGED approvals /\ run' = [run EXCEPT ![r] = Idle]
    BY <1>4 DEF Approve, Become
  <2>2. Ledger' /\ Growing
    BY <1>1, <2>1, LedgerStutters, Types DEF Ledger, LedgerTypes
  <2>3. Idle \in RunState /\ Idle.pc = "idle" /\ Holding(Idle.pc, Idle)'
    BY <1>1, OnType DEF Holding
  <2> QED
    BY <1>1, <1>2, <2>1, <2>2, <2>3, RunMoves
<1> QED
  BY <1>3, <1>4

(* A call to publish keeps the invariant: what it was authorized for is    *)
(* what it goes to the lock with.                                          *)
LEMMA PublishKeeps ==
    ASSUME IInv, NEW r \in Runs, Publish(r)
    PROVE  IInv'
<1> USE DEF IInv
<1>1. /\ run[r].pc = "publish" /\ UNCHANGED <<cursor, gaps, pair, decision, late, faults>>
      /\ UNCHANGED <<publications, head, approvals>> /\ faults \in 0 .. MaxFaults
  BY DEF Publish, At, sources, ledger, Clients
<1>2. Ledger' /\ Growing
  BY <1>1, LedgerStutters, Types DEF Ledger, LedgerTypes
<1>3. CASE run' = [run EXCEPT ![r] = Idle]
  <2>1. Idle \in RunState /\ Idle.pc = "idle" /\ Holding(Idle.pc, Idle)'
    BY <1>1, OnType DEF Holding
  <2> QED
    BY <1>1, <1>2, <1>3, <2>1, RunMoves
<1>4. CASE /\ Authorized(run[r].cut, run[r].expected, run[r].approval)
           /\ run' = [run EXCEPT ![r].pc = "commit"]
  <2>1. PICK new : new = [run[r] EXCEPT !.pc = "commit"]
    OBVIOUS
  <2>2. /\ new \in RunState /\ new.pc = "commit" /\ new.cut = run[r].cut
        /\ new.expected = run[r].expected /\ new.approval = run[r].approval
        /\ run' = [run EXCEPT ![r] = new]
    BY <1>4, <2>1 DEF Clients, RunState, Points
  <2>3. Holding(new.pc, new)'
    BY <1>1, <1>4, <2>2 DEF Clients, RunsHold, Holding, HeldApproval, Authorized
  <2>4. new.cut \in 1 .. cursor'
    BY <1>1, <2>2, OnType
  <2> QED
    BY <1>1, <1>2, <2>2, <2>3, <2>4, RunMoves
<1> QED
  BY <1>3, <1>4 DEF Publish, Goto, Become

(* So does what it does under the lock. *)
LEMMA CommitKeeps ==
    ASSUME IInv, NEW r \in Runs, Commit(r)
    PROVE  IInv'
<1> USE DEF IInv
<1>1. run[r].pc = "commit" /\ UNCHANGED <<cursor, gaps, pair, decision, late, faults>>
  BY DEF Commit, At, sources
<1>2. /\ run[r].expected \in Nat /\ run[r].approval \in Nat /\ faults \in 0 .. MaxFaults
      /\ HeldApproval(run[r].cut, run[r].expected, run[r].approval)
      /\ pair[run[r].cut].status = "succeeded" /\ run[r].cut \in 1 .. cursor
  BY <1>1 DEF Clients, RunsHold, Holding, RunState
<1>3. Ledger' /\ Growing
  BY <1>1, <1>2, CommitKeepsLedger DEF Commit
<1>4. Idle \in RunState /\ Idle.pc = "idle" /\ Holding(Idle.pc, Idle)'
  BY <1>1, OnType DEF Holding
<1> QED
  BY <1>1, <1>2, <1>3, <1>4, RunMoves DEF Commit, Become

(* So does a run that stops: a call it leaves under way is one it could    *)
(* make.                                                                   *)
LEMMA AbandonKeeps ==
    ASSUME IInv, NEW r \in Runs, Abandon(r)
    PROVE  IInv'
<1> USE DEF IInv
<1>1. run[r].pc # "idle" /\ UNCHANGED <<cursor, gaps, pair, publications, head, approvals, decision>>
      /\ run' = [run EXCEPT ![r] = Idle]
  BY DEF Abandon, At, sources, ledger, Become
<1>2. Ledger' /\ Growing
  BY <1>1, LedgerStutters, Types DEF Ledger, LedgerTypes
<1>3. faults' \in 0 .. MaxFaults
  BY PublicationAssumption DEF Abandon, Clients
<1>4. ASSUME NEW fn \in CallsOf(run[r].pc)
      PROVE  /\ fn \in {"claim", "complete", "fail", "publish", "commit"}
             /\ fn \in {"publish", "commit"} => run[r].pc = fn
  BY <1>4 DEF CallsOf
<1>5. late' \subseteq Call /\ LateHold'
  <2>1. ASSUME NEW m \in late'
        PROVE  m \in Call /\ m.call.cut \in 1 .. cursor /\ Holding(m.fn, m.call)
    <3>1. CASE m \in late
      BY <3>1 DEF Clients, LateHold
    <3>2. CASE m \notin late
      <4>1. PICK fn \in CallsOf(run[r].pc) : m = [fn |-> fn, worker |-> WorkerOf[r], call |-> run[r]]
        BY <3>2 DEF Abandon
      <4>2. run[r] \in RunState /\ run[r].cut \in 1 .. cursor /\ Holding(run[r].pc, run[r])
        BY <1>1 DEF Clients, RunsHold
      <4> QED
        BY <4>1, <4>2, <1>4, Workers_ DEF Call, Holding
    <3> QED
      BY <3>1, <3>2
  <2> QED
    BY <1>1, <2>1 DEF LateHold, Holding, HeldApproval
<1>6. run' \in [Runs -> RunState] /\ \A q \in Runs : run'[q] = run[q] \/ run'[q].pc = "idle"
  BY <1>1, OnType DEF Clients
<1>7. RunsHold'
  BY <1>1, <1>6 DEF Clients, RunsHold, Holding, HeldApproval
<1> QED
  BY <1>1, <1>2, <1>3, <1>5, <1>6, <1>7, DecisionStays DEF Clients
-----------------------------------------------------------------------------
(* The operator and the environment.                                       *)

(* The operator decides on a publication that exists, and keeps it. *)
LEMMA DecideKeeps == IInv /\ Decide => IInv'
<1> SUFFICES ASSUME IInv, Decide PROVE IInv'
  OBVIOUS
<1> USE DEF IInv
<1>1. /\ UNCHANGED <<cursor, gaps, pair, publications, head, run, late, faults>>
      /\ VersionOf(head) \in Nat
  <2>1. UNCHANGED <<cursor, gaps, pair, publications, head, run, late, faults>>
    BY DEF Decide, sources
  <2>2. VersionOf(head) \in Nat
    BY VersionType DEF Ledger
  <2> QED
    BY <2>1, <2>2
<1>2. PICK target \in Ids :
        /\ decision' = [target |-> target, expected |-> VersionOf(head),
                        approval |-> IF Production THEN Len(approvals) + 1 ELSE 0]
        /\ IF Production THEN approvals' = NewApproval(CutOf(target), VersionOf(head))
                         ELSE UNCHANGED approvals
  BY DEF Decide
<1>3. PICK c, e, n : c = CutOf(target) /\ e = VersionOf(head) /\ n = Len(approvals) + 1
  OBVIOUS
<1>4. c \in Cuts /\ e \in Nat /\ n \in Nat
  BY <1>1, <1>3, Types DEF CutOf, Ids, Ledger
<1>5. Ledger' /\ Growing /\ HeldApproval(c, e, decision.approval)'
  <2>1. CASE Production
    <3>1. decision'.approval = n /\ approvals' = NewApproval(c, e)
      BY <1>2, <1>3, <2>1
    <3>2. Ledger' /\ Growing /\ HeldApproval(c, e, n)'
      BY <3>1, <1>1, <1>3, <1>4, ApprovalIssued
    <3> QED
      BY <3>1, <3>2 DEF HeldApproval
  <2>2. CASE ~Production
    BY <2>2, <1>1, <1>2, LedgerStutters, Types DEF Ledger, LedgerTypes, HeldApproval
  <2> QED
    BY <2>1, <2>2
<1>6. decision' \in [target : 0 .. Len(publications'), expected : Nat, approval : Nat]
      /\ decision'.target = target /\ decision'.expected = e /\ target \in Ids'
  <2>1. target \in 0 .. Len(publications) /\ Len(approvals) + 1 \in Nat
    BY Types DEF Ids, Ledger
  <2> QED
    BY <1>1, <1>2, <1>3, <1>4, <2>1 DEF Ids
<1>7. CutOf(decision.target)' = c
  BY <1>1, <1>3, <1>6 DEF CutOf
<1>8. DecisionHolds'
  BY <1>5, <1>6, <1>7 DEF DecisionHolds, HeldApproval
<1>9. RunsHold' /\ LateHold'
  BY <1>1, <1>5, RunStays, CallsStay DEF RunsHold, Holding, HeldApproval
<1> QED
  BY <1>1, <1>5, <1>6, <1>8, <1>9 DEF Clients

(* A rollback keeps the invariant: what was decided on is published still. *)
LEMMA RollBackKeeps == IInv /\ RollBack => IInv'
<1> SUFFICES ASSUME IInv, RollBack PROVE IInv'
  OBVIOUS
<1> USE DEF IInv
<1> DEFINE target == decision.target
           accepted == RollbackAccepted(target, decision.expected, decision.approval)
<1>1. /\ UNCHANGED <<cursor, gaps, pair, run, late, faults>> /\ decision' = NoDecision
      /\ target \in Ids /\ HeldApproval(CutOf(target), decision.expected, decision.approval)
      /\ decision.expected \in Nat /\ decision.approval \in Nat
  BY DEF RollBack, sources, Clients, DecisionHolds
<1>2. CutOf(target) \in 1 .. cursor /\ Published(CutOf(target))
  <2>1. target # 0 /\ CutOf(target) = publications[target].cut
    BY <1>1, Types DEF CutOf, Ids, Ledger
  <2>2. publications[target].cut \in 1 .. cursor
    BY <1>1, Types DEF Ledger, LedgerTypes, Cuts
  <2>3. publications[target].rollback \in BOOLEAN
    BY <1>1, Types DEF Ledger, Publication
  <2>4. Published(publications[target].cut)
    <3>1. CASE publications[target].rollback
      BY <3>1, <1>1 DEF Ledger, RollbacksOfPublished
    <3>2. CASE ~publications[target].rollback
      BY <3>2, <1>1 DEF Published
    <3> QED
      BY <3>1, <3>2
  <2> QED
    BY <2>1, <2>2, <2>4
<1>3. Ledger' /\ Growing
  <2>1. CASE accepted
    BY <2>1, <1>1, <1>2, PublicationInserted, TRUE \in BOOLEAN DEF RollBack, RollbackAccepted, Issued, Unused
  <2>2. CASE ~accepted
    BY <2>2, <1>1, LedgerStutters, Types DEF RollBack, Ledger, LedgerTypes
  <2> QED
    BY <2>1, <2>2
<1>4. NoDecision \in [target : 0 .. Len(publications'), expected : Nat, approval : Nat] /\ DecisionHolds'
  BY <1>1, <1>3, Types DEF NoDecision, DecisionHolds, Growing, Ledger
<1>5. RunsHold' /\ LateHold'
  BY <1>1, <1>3, RunStays, CallsStay DEF RunsHold, Holding, HeldApproval
<1>6. Clients'
  BY <1>1, <1>4, <1>5 DEF Clients
<1> QED
  BY <1>3, <1>6

(* A call that comes late keeps it, whatever has happened since. *)
LEMMA LateCallKeeps ==
    ASSUME IInv, NEW m \in late, LateCall(m)
    PROVE  IInv'
<1> USE DEF IInv
<1>1. UNCHANGED <<cursor, gaps, run, decision, faults>> /\ faults \in 0 .. MaxFaults
      /\ late' = (late \ {m}) \union Continued(m)
  BY DEF LateCall, sources, Clients
<1>2. /\ m \in Call /\ m.call.cut \in 1 .. cursor /\ m.call.cut \in Cuts
      /\ Holding(m.fn, m.call)
  BY Types DEF Clients, LateHold, Cuts, Ledger, LedgerTypes
<1>3. Ledger' /\ Growing
  <2>1. CASE m.fn = "claim"
    <3>1. /\ pair' = [pair EXCEPT ![m.call.cut] = Claimed(m.call.cut, m.worker)]
          /\ UNCHANGED <<publications, head, approvals>>
      BY <2>1 DEF LateCall
    <3>2. m.worker \in Workers
      BY <1>2 DEF Call
    <3> DEFINE row == Claimed(m.call.cut, m.worker)
    <3>3. row \in Pair /\ (pair[m.call.cut].status = "succeeded" => row = pair[m.call.cut])
      BY <1>2, <3>2, ClaimedRow DEF Ledger
    <3> HIDE DEF row
    <3>4. pair' = [pair EXCEPT ![m.call.cut] = row]
      BY <3>1 DEF row
    <3> QED
      BY <3>1, <3>3, <3>4, <1>1, <1>2, PairChanges
  <2>2. CASE m.fn \in {"complete", "fail"}
    BY <2>2, <1>1, <1>2, EndKeepsLedger DEF LateCall
  <2>3. CASE m.fn = "publish"
    BY <2>3, <1>1, LedgerStutters, Types DEF LateCall, ledger, Ledger, LedgerTypes
  <2>4. CASE m.fn = "commit"
    <3>1. /\ m.call.expected \in Nat /\ m.call.approval \in Nat
          /\ HeldApproval(m.call.cut, m.call.expected, m.call.approval)
          /\ pair[m.call.cut].status = "succeeded"
      BY <1>2, <2>4 DEF Call, RunState, Holding
    <3> QED
      BY <2>4, <3>1, <1>1, <1>2, CommitKeepsLedger DEF LateCall
  <2> QED
    BY <2>1, <2>2, <2>3, <2>4, <1>2 DEF Call
<1>4. CASE Continued(m) = {}
  BY <1>1, <1>3, <1>4, RunsStay
<1>5. CASE Continued(m) # {}
  <2>1. /\ m.fn = "publish" /\ Authorized(m.call.cut, m.call.expected, m.call.approval)
        /\ UNCHANGED <<pair, approvals, publications, head>>
    BY <1>5 DEF Continued, LateCall, ledger
  <2>2. PICK n : n = [m EXCEPT !.fn = "commit"]
    OBVIOUS
  <2>3. n \in Call /\ n.fn = "commit" /\ n.call = m.call /\ late' = (late \ {m}) \union {n}
    BY <1>1, <1>2, <2>1, <2>2 DEF Continued, Call
  <2>4. Holding(n.fn, n.call)
    BY <1>2, <2>1, <2>3 DEF Holding, Authorized
  <2>5. late' \subseteq Call /\ LateHold'
    <3>1. \A l \in late' : l \in Call /\ l.call.cut \in 1 .. cursor /\ Holding(l.fn, l.call)
      BY <1>2, <2>3, <2>4 DEF Clients, LateHold
    <3> QED
      BY <1>1, <2>1, <3>1 DEF LateHold, Holding, HeldApproval
  <2> QED
    BY <1>1, <1>3, <2>5, RunsStay, DecisionStays DEF Clients
<1> QED
  BY <1>3, <1>4, <1>5

(* The sources move on and keep it. *)
LEMMA SourcesKeep == IInv /\ (Advance \/ GapOpens \/ GapCloses) => IInv'
<1> SUFFICES ASSUME IInv, Advance \/ GapOpens \/ GapCloses PROVE IInv'
  OBVIOUS
<1> USE DEF IInv
<1>1. UNCHANGED <<pair, publications, head, approvals, run, decision, late>>
  BY DEF Advance, GapOpens, GapCloses, ledger
<1>2. cursor' \in cursor .. MaxVersion
  BY Types DEF Advance, GapOpens, GapCloses, Ledger, LedgerTypes
<1>3. faults' \in 0 .. MaxFaults
  BY PublicationAssumption DEF Advance, GapOpens, GapCloses, Clients
<1>4. gaps' \in BOOLEAN
  BY DEF Advance, GapOpens, GapCloses, Ledger, LedgerTypes
<1>5. Ledger' /\ Growing
  BY <1>1, <1>2, <1>4, LedgerStutters
<1> QED
  BY <1>1, <1>3, <1>5, RunsStay

(* A lease that runs out keeps it. *)
LEMMA ExpiryKeeps ==
    ASSUME IInv, NEW c \in Cuts, LeaseTimesOut(c) \/ LeaseSlips(c)
    PROVE  IInv'
<1> USE DEF IInv
<1>1. UNCHANGED <<cursor, gaps, publications, head, approvals, run, decision, late>> /\ Expire(c)
  BY DEF LeaseTimesOut, LeaseSlips, sources
<1>2. faults' \in 0 .. MaxFaults
  BY PublicationAssumption DEF LeaseTimesOut, LeaseSlips, Clients
<1> DEFINE row == [pair[c] EXCEPT !.live = FALSE]
<1>3. row \in Pair
  BY DEF Ledger, LedgerTypes, Pair
<1>4. pair' = [pair EXCEPT ![c] = row] /\ pair[c].status = "running"
  BY <1>1 DEF Expire
<1> HIDE DEF row
<1>5. Ledger' /\ Growing
  BY <1>1, <1>3, <1>4, PairChanges
<1> QED
  BY <1>1, <1>2, <1>5, RunsStay

(* So does an approval. *)
LEMMA ApprovalExpiryKeeps ==
    ASSUME IInv, NEW a \in DOMAIN approvals, ApprovalExpires(a)
    PROVE  IInv'
<1> USE DEF IInv
<1>1. /\ UNCHANGED <<cursor, gaps, pair, publications, head, run, decision, late, faults>>
      /\ faults \in 0 .. MaxFaults
      /\ approvals[a].status = "issued" /\ approvals' = [approvals EXCEPT ![a].status = "expired"]
  BY DEF ApprovalExpires, sources, Clients
<1>2. approvals \in Seq(Approval) /\ approvals \in [1 .. Len(approvals) -> Approval] /\ Len(approvals) \in Nat
  BY DEF Ledger, LedgerTypes
<1>3. /\ approvals' \in Seq(Approval) /\ Len(approvals') = Len(approvals) /\ DOMAIN approvals' = DOMAIN approvals
      /\ \A b \in DOMAIN approvals : b # a => approvals'[b] = approvals[b]
      /\ approvals'[a].status = "expired"
      /\ approvals'[a].cut = approvals[a].cut /\ approvals'[a].expected = approvals[a].expected
  <2> DEFINE row == [approvals[a] EXCEPT !.status = "expired"]
  <2>1. row \in Approval /\ row.status = "expired"
        /\ row.cut = approvals[a].cut /\ row.expected = approvals[a].expected
    BY <1>2 DEF Approval
  <2>2. approvals' = [approvals EXCEPT ![a] = row]
    BY <1>1
  <2> HIDE DEF row
  <2> QED
    BY <1>2, <2>1, <2>2
<1>4. LedgerTypes' /\ Growing
  BY <1>1, <1>3, Types DEF Ledger, LedgerTypes, Ids, Growing
<1>5. (LinearHistory /\ BuiltOnPredecessor /\ RollbacksOfPublished)'
  BY <1>1 DEF Ledger, LinearHistory, BuiltOnPredecessor, RollbacksOfPublished, Ids, Published
<1>6. ApprovedTransitions'
  <2> SUFFICES ASSUME Production PROVE ApprovedTransitions'
    BY DEF ApprovedTransitions
  <2>1. \A id \in Ids : /\ publications[id].approval \in DOMAIN approvals \ {a}
                        /\ approvals[publications[id].approval].status = "consumed"
                        /\ approvals[publications[id].approval].publication = id
    BY <1>1 DEF Ledger, ApprovedTransitions
  <2>2. \A b \in DOMAIN approvals : approvals'[b].status = "consumed" =>
            b # a /\ approvals'[b] = approvals[b]
    BY <1>3
  <2> QED
    BY <2>1, <2>2, <1>1, <1>3 DEF Ledger, ApprovedTransitions, Ids
<1>7. Ledger'
  BY <1>4, <1>5, <1>6 DEF Ledger
<1> QED
  BY <1>1, <1>4, <1>7, RunsStay

(* So does a step of something else. *)
LEMMA StutterKeeps == IInv /\ UNCHANGED vars => IInv'
<1> SUFFICES ASSUME IInv, UNCHANGED vars PROVE IInv'
  OBVIOUS
<1> USE DEF IInv
<1>1. Ledger' /\ Growing
  BY LedgerStutters, Types DEF vars, Ledger, LedgerTypes
<1> QED
  BY <1>1, RunsStay DEF vars, Clients

(* The invariant is inductive. *)
LEMMA NextKeeps == IInv /\ [Next]_vars => IInv'
<1> SUFFICES ASSUME IInv, [Next]_vars PROVE IInv'
  OBVIOUS
<1>1. ASSUME NEW r \in Runs, Step(r) \/ Fail(r) \/ Abandon(r)
      PROVE  IInv'
  BY <1>1, SealKeeps, QuietStepsKeep, ClaimKeeps, CompleteKeeps, ApproveKeeps, PublishKeeps, CommitKeeps,
     FailKeeps, AbandonKeeps DEF Step
<1>2. CASE Decide \/ RollBack
  BY <1>2, DecideKeeps, RollBackKeeps
<1>3. ASSUME NEW m \in late, LateCall(m)
      PROVE  IInv'
  BY <1>3, LateCallKeeps
<1>4. CASE Advance \/ GapOpens \/ GapCloses
  BY <1>4, SourcesKeep
<1>5. ASSUME NEW c \in Cuts, LeaseTimesOut(c) \/ LeaseSlips(c)
      PROVE  IInv'
  BY <1>5, ExpiryKeeps
<1>6. ASSUME NEW a \in DOMAIN approvals, ApprovalExpires(a)
      PROVE  IInv'
  BY <1>6, ApprovalExpiryKeeps
<1>7. CASE UNCHANGED vars
  BY <1>7, StutterKeeps
<1> QED
  BY <1>1, <1>2, <1>3, <1>4, <1>5, <1>6, <1>7 DEF Next

(* The invariant holds of every state of every behaviour. *)
LEMMA Inductive == Spec => []IInv
<1> QED
  BY InitIsIInv, NextKeeps, PTL DEF Spec
-----------------------------------------------------------------------------
(* What follows from it.                                                   *)

(* The types of TypeOK hold, and runs and late calls are about sealed      *)
(* cuts.                                                                   *)
THEOREM TypeCorrect == Spec => []TypeOK
<1>1. IInv => TypeOK
  BY DEF IInv, Ledger, LedgerTypes, Clients, RunsHold, LateHold, TypeOK
<1> QED
  BY <1>1, Inductive, PTL

(* The publications are one line that ends in the head, and each replaced  *)
(* the one its publisher had seen, in any race of runs, rollbacks and late *)
(* calls (the compare-and-swap of commit_truth_publication_runtime).       *)
THEOREM HistoryIsLinear == Spec => []LinearHistory
<1>1. IInv => LinearHistory
  BY DEF IInv, Ledger
<1> QED
  BY <1>1, Inductive, PTL

(* Whatever a build published replaced the publication that was the head   *)
(* when its pair was claimed.                                              *)
THEOREM PublishedOnItsBase == Spec => []BuiltOnPredecessor
<1>1. IInv => BuiltOnPredecessor
  BY DEF IInv, Ledger
<1> QED
  BY <1>1, Inductive, PTL

(* In production nothing is published without an approval used up on it,   *)
(* and an approval is used up on no transition but the one it was issued   *)
(* for, however many runs are past the check for what is already           *)
(* published, and whichever of them are given a receipt                    *)
(* (publish_truth_build_pair_runtime_cas_authorized).                      *)
THEOREM ApprovalsBindTransitions == Spec => []ApprovedTransitions
<1>1. IInv => ApprovedTransitions
  BY DEF IInv, Ledger
<1> QED
  BY <1>1, Inductive, PTL
-----------------------------------------------------------------------------
(* Steps of the pairs.                                                     *)

EndedStays(c) ==
    /\ pair[c].status \in {"succeeded", "failed"} => pair'[c] = pair[c]
    /\ pair[c].status # "none" => pair'[c].base = pair[c].base

EndsUnderLease(c) ==
    pair[c].status = "running" /\ pair'[c].status # "running" =>
      /\ pair[c].live
      /\ \/ \E r \in Runs : run'[r] # run[r] /\ run[r].fence = pair[c].fence
         \/ \E m \in late \ late' : m.call.fence = pair[c].fence

(* Of two pairs the one that is not changed keeps what both properties of  *)
(* steps are about.                                                        *)
LEMMA OtherPairsStay ==
    ASSUME IInv, NEW c \in Cuts, NEW d \in Cuts, NEW row \in Pair, pair' = [pair EXCEPT ![d] = row],
           pair[d].status \in {"succeeded", "failed"} => row = pair[d],
           pair[d].status # "none" => row.base = pair[d].base,
           pair[d].status = "running" /\ row.status # "running" =>
             /\ pair[d].live
             /\ \/ \E r \in Runs : run'[r] # run[r] /\ run[r].fence = pair[d].fence
                \/ \E m \in late \ late' : m.call.fence = pair[d].fence
    PROVE  EndedStays(c) /\ EndsUnderLease(c)
<1>1. pair' \in [Cuts -> Pair] /\ pair'[c] = IF c = d THEN row ELSE pair[c]
  BY DEF IInv, Ledger, LedgerTypes
<1> QED
  BY <1>1 DEF EndedStays, EndsUnderLease

(* Every step of the system keeps an ended pair and every base, and ends a *)
(* running pair under its lease only.                                      *)
LEMMA PairSteps ==
    ASSUME IInv, [Next]_vars, NEW c \in Cuts
    PROVE  EndedStays(c) /\ EndsUnderLease(c)
<1> USE DEF IInv
<1>0. CASE pair' = pair
  BY <1>0 DEF EndedStays, EndsUnderLease
<1>1. ASSUME NEW r \in Runs, Claim(r)
      PROVE  EndedStays(c) /\ EndsUnderLease(c)
  <2>1. run[r].cut \in Cuts /\ WorkerOf[r] \in Workers
    BY <1>1, OnType, Workers_ DEF Claim, At
  <2>0. PICK d \in Cuts : d = run[r].cut
    BY <2>1
  <2>2. PICK row : row = Claimed(d, WorkerOf[r])
    OBVIOUS
  <2>3. pair' = [pair EXCEPT ![d] = row]
    BY <1>1, <2>0, <2>2 DEF Claim
  <2>4. /\ row \in Pair
        /\ pair[d].status \in {"succeeded", "failed"} => row = pair[d]
        /\ pair[d].status # "none" => row.base = pair[d].base
        /\ pair[d].status = "running" => row.status = "running"
    BY <2>1, <2>2, ClaimedRow DEF Ledger
  <2> QED
    BY <2>3, <2>4, OtherPairsStay
<1>2. ASSUME NEW r \in Runs, Complete(r) \/ Fail(r)
      PROVE  EndedStays(c) /\ EndsUnderLease(c)
  <2>1. run[r].cut \in Cuts /\ run[r].pc = "complete" /\ Idle.pc = "idle"
    BY <1>2, OnType DEF Complete, Fail, At
  <2>2. PICK d \in Cuts, status \in {"succeeded", "failed"} :
          d = run[r].cut /\ pair' = [pair EXCEPT ![d] = Ended(d, WorkerOf[r], run[r].fence, status)]
    BY <1>2, <2>1 DEF Complete, Fail
  <2>3. PICK row : row = Ended(d, WorkerOf[r], run[r].fence, status)
    OBVIOUS
  <2>4. /\ row \in Pair
        /\ pair[d].status \in {"succeeded", "failed"} => row = pair[d]
        /\ row.base = pair[d].base
        /\ pair[d].status # row.status => pair[d].fence = run[r].fence /\ pair[d].live
    BY <2>3, EndedRow DEF Ledger
  <2>5. run'[r] # run[r]
    <3>1. run'[r].pc # "complete"
      <4>1. \A s : AfterComplete(r, s).pc \in {"head", "idle", "recover"}
        BY <2>1, OnType DEF AfterComplete, Points
      <4> QED
        BY <1>2, <2>1, <4>1 DEF Complete, Fail, Become, Clients
    <3> QED
      BY <2>1, <3>1
  <2>6. pair' = [pair EXCEPT ![d] = row]
    BY <2>2, <2>3
  <2> QED
    BY <2>4, <2>5, <2>6, OtherPairsStay
<1>3. ASSUME NEW m \in late, LateCall(m)
      PROVE  EndedStays(c) /\ EndsUnderLease(c)
  <2>1. m \in Call /\ m.worker \in Workers /\ (m.fn # "publish" => m \notin late')
    BY <1>3 DEF Clients, Call, LateCall, Continued
  <2>2. PICK d : d = m.call.cut
    OBVIOUS
  <2>3. d \in Cuts
    BY <2>2, Types DEF Clients, LateHold, Cuts, Ledger, LedgerTypes
  <2>4. CASE m.fn = "claim"
    <3>1. PICK row : row = Claimed(d, m.worker)
      OBVIOUS
    <3>2. pair' = [pair EXCEPT ![d] = row]
      BY <1>3, <2>2, <2>4, <3>1 DEF LateCall
    <3>3. /\ row \in Pair
          /\ pair[d].status \in {"succeeded", "failed"} => row = pair[d]
          /\ pair[d].status # "none" => row.base = pair[d].base
          /\ pair[d].status = "running" => row.status = "running"
      BY <2>1, <2>3, <3>1, ClaimedRow DEF Ledger
    <3> QED
      BY <2>3, <3>2, <3>3, OtherPairsStay
  <2>5. CASE m.fn \in {"complete", "fail"}
    <3>1. PICK status \in {"succeeded", "failed"} :
            pair' = [pair EXCEPT ![d] = Ended(d, m.worker, m.call.fence, status)]
      BY <1>3, <2>2, <2>5 DEF LateCall
    <3>2. PICK row : row = Ended(d, m.worker, m.call.fence, status)
      OBVIOUS
    <3>3. /\ row \in Pair
          /\ pair[d].status \in {"succeeded", "failed"} => row = pair[d]
          /\ row.base = pair[d].base
          /\ pair[d].status # row.status => pair[d].fence = m.call.fence /\ pair[d].live
      BY <2>3, <3>2, EndedRow DEF Ledger
    <3> QED
      BY <2>1, <2>3, <2>5, <3>1, <3>2, <3>3, OtherPairsStay
  <2>6. CASE m.fn \in {"publish", "commit"}
    BY <1>3, <2>6, <1>0 DEF LateCall, ledger
  <2> QED
    BY <2>1, <2>4, <2>5, <2>6 DEF Call
<1>4. ASSUME NEW d \in Cuts, LeaseTimesOut(d) \/ LeaseSlips(d)
      PROVE  EndedStays(c) /\ EndsUnderLease(c)
  <2>1. PICK row : row = [pair[d] EXCEPT !.live = FALSE]
    OBVIOUS
  <2>2. row \in Pair /\ row.base = pair[d].base /\ row.status = pair[d].status
    BY <2>1 DEF Ledger, LedgerTypes, Pair
  <2>3. pair' = [pair EXCEPT ![d] = row] /\ pair[d].status = "running"
    BY <1>4, <2>1 DEF LeaseTimesOut, LeaseSlips, Expire
  <2> QED
    BY <2>2, <2>3, OtherPairsStay
<1>5. CASE UNCHANGED vars
  BY <1>5, <1>0 DEF vars
<1>6. ASSUME NEW r \in Runs,
             Seal(r) \/ CheckCurrent(r) \/ ReadBundle(r) \/ ReadHead(r) \/ Approve(r) \/ Publish(r)
               \/ Commit(r) \/ Abandon(r)
      PROVE  pair' = pair
  BY <1>6 DEF Seal, CheckCurrent, ReadBundle, ReadHead, Approve, Publish, Commit, Abandon, ledger
<1>7. CASE Decide \/ RollBack \/ Advance \/ GapOpens \/ GapCloses
  BY <1>7, <1>0 DEF Decide, RollBack, Advance, GapOpens, GapCloses, ledger
<1>8. ASSUME NEW a \in DOMAIN approvals, ApprovalExpires(a)
      PROVE  pair' = pair
  BY <1>8 DEF ApprovalExpires
<1> QED
  BY <1>0, <1>1, <1>2, <1>3, <1>4, <1>5, <1>6, <1>7, <1>8 DEF Next, Step

(* Ended pairs and bases never change (guard_truth_build_pair_runs). *)
THEOREM FinalIsFinal == Spec => EndedPairsStay
<1>1. IInv /\ [Next]_vars => [\A c \in Cuts : EndedStays(c)]_vars
  BY PairSteps
<1>2. [\A c \in Cuts : EndedStays(c)]_vars =>
        [\A c \in Cuts :
           /\ pair[c].status \in {"succeeded", "failed"} => pair'[c] = pair[c]
           /\ pair[c].status # "none" => pair'[c].base = pair[c].base]_vars
  BY DEF EndedStays
<1> QED
  BY <1>1, <1>2, Inductive, PTL DEF Spec, EndedPairsStay

(* A running pair ends by a call that carries the fence of its live lease  *)
(* (require_truth_build_pair_lease).                                       *)
THEOREM EndsByItsHolder == Spec => EndedUnderLease
<1>1. IInv /\ [Next]_vars => [\A c \in Cuts : EndsUnderLease(c)]_vars
  BY PairSteps
<1>2. [\A c \in Cuts : EndsUnderLease(c)]_vars =>
        [\A c \in Cuts : pair[c].status = "running" /\ pair'[c].status # "running" =>
          /\ pair[c].live
          /\ \/ \E r \in Runs : run'[r] # run[r] /\ run[r].fence = pair[c].fence
             \/ \E m \in late \ late' : m.call.fence = pair[c].fence]_vars
  BY DEF EndsUnderLease
<1> QED
  BY <1>1, <1>2, Inductive, PTL DEF Spec, EndedUnderLease
-----------------------------------------------------------------------------
(* The refinement.                                                         *)

Shown == CutOf(head)
Offered == {publications[id].cut : id \in Ids}
TruthVars == <<cursor, gaps, Shown, Offered>>

(* A rollback shows nothing that was not published: the cuts on the line   *)
(* are the published ones.                                                 *)
LEMMA OfferedIsPublished ==
    ASSUME Ledger, NEW c
    PROVE  c \in Offered <=> Published(c)
<1>1. \A id \in Ids : publications[id].rollback \in BOOLEAN
  BY Types DEF Ledger, Publication
<1>2. ASSUME NEW id \in Ids, publications[id].cut = c
      PROVE  Published(c)
  <2>1. CASE publications[id].rollback
    BY <2>1, <1>2 DEF Ledger, RollbacksOfPublished
  <2>2. CASE ~publications[id].rollback
    BY <2>2, <1>2 DEF Published
  <2> QED
    BY <2>1, <2>2
<1> QED
  BY <1>2 DEF Offered, Published

(* A publication put on the head is what readers see, and joins what was   *)
(* published.                                                              *)
LEMMA InsertShows ==
    ASSUME Ledger, NEW c \in 1 .. cursor, NEW rollback \in BOOLEAN, NEW expected \in Nat, NEW a \in Nat,
           Insert(c, rollback, expected, a)
    PROVE  Shown' = c /\ Offered' = Offered \union {c}
<1> DEFINE new == Successor(c, rollback, expected, a)
           n == Len(publications)
<1>1. VersionOf(head) = head /\ head = n /\ n \in Nat
  BY DEF Ledger, LedgerTypes, LinearHistory, VersionOf, Ids
<1>2. new \in Publication /\ new.cut = c
  BY <1>1, PublicationAssumption DEF Successor, Publication, Cuts, Ledger, LedgerTypes
<1>3. /\ publications' \in Seq(Publication) /\ Len(publications') = n + 1
      /\ \A id \in 1 .. n : publications'[id] = publications[id]
      /\ publications'[n + 1] = new
      /\ head' = n + 1
  <2> HIDE DEF new
  <2>1. publications' = Append(publications, new) /\ head' = n + 1
    BY DEF Insert, new
  <2> QED
    BY <2>1, <1>2, <1>1 DEF Ledger, LedgerTypes
<1> HIDE DEF new
<1>4. Ids' = Ids \union {n + 1} /\ n + 1 \notin Ids
  BY <1>1, <1>3 DEF Ids
<1>5. Shown' = c
  BY <1>1, <1>2, <1>3 DEF Shown, CutOf
<1>6. Offered' = Offered \union {c}
  <2>1. \A id \in Ids : publications'[id].cut = publications[id].cut
    BY <1>3 DEF Ids
  <2>2. publications'[n + 1].cut = c
    BY <1>2, <1>3
  <2> HIDE DEF n
  <2> QED
    BY <2>1, <2>2, <1>4 DEF Offered
<1> QED
  BY <1>5, <1>6

(* What is committed, from a run or late, is a step of the abstract        *)
(* publication or changes nothing a reader sees.                           *)
LEMMA CommitShows ==
    ASSUME Ledger, NEW c \in 1 .. cursor, NEW expected \in Nat, NEW a \in Nat,
           CommitEffect(c, expected, a), UNCHANGED <<cursor, gaps>>
    PROVE  [Truth!Next]_TruthVars
<1>1. CASE CommitAccepted(c, expected) /\ Unused(a)
  <2>1. Insert(c, FALSE, expected, a)
    BY <1>1 DEF CommitEffect
  <2>2. Shown' = c /\ Offered' = Offered \union {c}
    BY <2>1, InsertShows, FALSE \in BOOLEAN
  <2>3. c \notin Offered
    BY <1>1, OfferedIsPublished DEF CommitAccepted
  <2>4. c >= Shown
    BY <1>1, Types DEF CommitAccepted, Regresses, Shown, CutOf, Ids, Ledger, LedgerTypes, Cuts
  <2>5. Production => c = cursor /\ ~gaps
    BY <1>1 DEF CommitAccepted, LiveVector
  <2>6. Truth!Publish(c)
    BY <2>2, <2>3, <2>4, <2>5 DEF Truth!Publish, Shown, Offered
  <2> QED
    BY <2>6 DEF Truth!Next
<1>2. CASE ~(CommitAccepted(c, expected) /\ Unused(a))
  BY <1>2 DEF CommitEffect, TruthVars, Shown, Offered, CutOf, Ids
<1> QED
  BY <1>1, <1>2

(* Every step is a step of the abstract specification or a stutter. *)
LEMMA StepShows == IInv /\ [Next]_vars => [Truth!Next]_TruthVars
<1> SUFFICES ASSUME IInv, [Next]_vars PROVE [Truth!Next]_TruthVars
  OBVIOUS
<1> USE DEF IInv
<1>1. CASE UNCHANGED <<cursor, gaps, publications, head>>
  BY <1>1 DEF TruthVars, Shown, Offered, CutOf, Ids
<1>2. ASSUME NEW r \in Runs, Commit(r)
      PROVE  [Truth!Next]_TruthVars
  <2>1. run[r].expected \in Nat /\ run[r].approval \in Nat /\ run[r].cut \in 1 .. cursor
    BY <1>2 DEF Clients, RunsHold, RunState, Commit, At
  <2> QED
    BY <1>2, <2>1, CommitShows DEF Commit, sources
<1>3. CASE RollBack
  <2> DEFINE target == decision.target
  <2>1. /\ UNCHANGED <<cursor, gaps>> /\ target \in Ids
        /\ decision.expected \in Nat /\ decision.approval \in Nat
    BY <1>3 DEF RollBack, sources, Clients, DecisionHolds
  <2>2. CASE UNCHANGED <<publications, head>>
    BY <2>1, <2>2, <1>1
  <2>3. CASE Insert(CutOf(target), TRUE, decision.expected, decision.approval)
    <3>1. target # 0 /\ CutOf(target) = publications[target].cut /\ CutOf(target) \in Offered
      BY <2>1, Types DEF CutOf, Ids, Ledger, Offered
    <3>2. CutOf(target) \in 1 .. cursor
      BY <2>1, <3>1, Types DEF Ledger, LedgerTypes, Cuts
    <3>3. Shown' = CutOf(target) /\ Offered' = Offered
      BY <2>1, <2>3, <3>1, <3>2, InsertShows, TRUE \in BOOLEAN
    <3>4. Truth!RollBack(CutOf(target))
      BY <2>1, <3>1, <3>3 DEF Truth!RollBack, Shown, Offered
    <3> QED
      BY <3>1, <3>4 DEF Truth!Next, Offered
  <2> QED
    BY <1>3, <2>2, <2>3 DEF RollBack
<1>4. ASSUME NEW m \in late, LateCall(m)
      PROVE  [Truth!Next]_TruthVars
  <2>1. CASE m.fn = "commit"
    <3>1. m.call.expected \in Nat /\ m.call.approval \in Nat /\ m.call.cut \in 1 .. cursor
      BY <2>1 DEF Clients, LateHold, Call, RunState
    <3> QED
      BY <1>4, <2>1, <3>1, CommitShows DEF LateCall, sources
  <2>2. CASE m.fn \in {"claim", "complete", "fail", "publish"}
    BY <1>4, <2>2, <1>1 DEF LateCall, sources, ledger
  <2> QED
    BY <2>1, <2>2 DEF Clients, Call
<1>5. CASE Advance \/ GapOpens \/ GapCloses
  <2>1. UNCHANGED <<Shown, Offered>>
    BY <1>5 DEF Advance, GapOpens, GapCloses, ledger, Shown, Offered, CutOf, Ids
  <2>2. cursor' \in {cursor, cursor + 1}
    BY <1>5 DEF Advance, GapOpens, GapCloses
  <2>3. gaps' \in BOOLEAN
    BY <1>5 DEF Advance, GapOpens, GapCloses, Ledger, LedgerTypes
  <2>4. Truth!SourcesMove
    BY <2>1, <2>2, <2>3 DEF Truth!SourcesMove, Shown, Offered
  <2> QED
    BY <2>4 DEF Truth!Next
<1>6. CASE UNCHANGED vars
  BY <1>6, <1>1 DEF vars
<1>7. ASSUME NEW r \in Runs, Seal(r) \/ CheckCurrent(r) \/ ReadBundle(r) \/ ReadHead(r) \/ Claim(r)
                             \/ Complete(r) \/ Fail(r) \/ Approve(r) \/ Publish(r) \/ Abandon(r)
      PROVE  UNCHANGED <<cursor, gaps, publications, head>>
  BY <1>7 DEF Publish, Seal, CheckCurrent, ReadBundle, ReadHead, Claim, Complete, Fail, Approve, Abandon, ledger, sources
<1>8. CASE Decide
  BY <1>8, <1>1 DEF Decide, sources
<1>9. ASSUME NEW c \in Cuts, LeaseTimesOut(c) \/ LeaseSlips(c)
      PROVE  UNCHANGED <<cursor, gaps, publications, head>>
  BY <1>9 DEF LeaseTimesOut, LeaseSlips, sources
<1>10. ASSUME NEW a \in DOMAIN approvals, ApprovalExpires(a)
      PROVE  UNCHANGED <<cursor, gaps, publications, head>>
  BY <1>10 DEF ApprovalExpires, sources
<1> QED
  BY <1>1, <1>2, <1>3, <1>4, <1>5, <1>6, <1>7, <1>8, <1>9, <1>10 DEF Next, Step

(* The channel implements PublishedTruth: readers see new cuts in the      *)
(* order of the sources, go back by rollbacks only, and in production a    *)
(* publication is the state of the sources at that moment.                 *)
THEOREM PublishedTruthIsShown == Spec => ShowsTruth
<1>1. Init => Truth!Init
  BY DEF Init, Truth!Init, CutOf, Ids
<1>2. [Truth!Next]_TruthVars <=>
        [Truth!Next]_<<cursor, gaps, CutOf(head), {publications[id].cut : id \in Ids}>>
  BY DEF TruthVars, Shown, Offered
<1> QED
  BY <1>1, <1>2, StepShows, Inductive, PTL DEF Spec, ShowsTruth, Truth!Spec
=============================================================================
