---------------------------- MODULE PlatformSend ----------------------------
(* Sending a mail from the dashboard: the operator reviews an action's text   *)
(* in the composer (app.js) and confirms, api/actions/send stages it as a     *)
(* Gmail draft, and api/actions/approve-send checks the approval              *)
(* (lib/platform-send.js), sends that draft and records the decision.         *)
(*                                                                            *)
(* The actions are the brain's proposals (ids brain-...), the only ones that  *)
(* enter the hosted action queue.  The queue and the audit are snapshots      *)
(* without a version: they are read whole and written back whole.             *)
(*                                                                            *)
(* Abstracted: a text is a body, its recipient and the roster of resolved     *)
(* recipients; a hash is the body it was taken of.  The lane is enabled, the  *)
(* action types can be sent and every draft replies in its thread; what the   *)
(* truth packets and the age of the approval say is one answer that may be    *)
(* anything at any time.  A body is what brokerSafeBody leaves of it.  The    *)
(* outbox, the operator's notes and the events are written on the way and     *)
(* read by nobody here; the local agent that stages drafts without Gmail      *)
(* access and the retry of its failures are left out.                         *)
EXTENDS Integers, Sequences

CONSTANTS Actions,    \* ids of proposed actions
          Tabs,       \* dashboards open in a browser
          Bodies,     \* bodies of mails
          Addresses,  \* recipients
          Sends,      \* confirmed sends: one run each of performPlatformSend
          None        \* no row, no text, no send

Text == [body : Bodies, to : Addresses, roster : SUBSET Addresses]
Decisions == {"sent", "refused"}
Shown == [action : Actions, text : Text, status : {"suggested", "drafted"}]
Mail == [send : Sends, body : Bodies, to : Addresses]
Record == [send : Sends, decision : Decisions, to : Addresses]

Queue == [Actions -> Text \cup {None}]
NoRows == [a \in Actions |-> None]

VARIABLES
  proposed,  \* action -> the text the brain proposes for it now
  queue,     \* the snapshot action-queue: action -> the text of its row
  pruning,   \* the queue as a refresh that is under way has read it, if there is one
  shown,     \* tab -> the action under review as the composer shows it
  waiting,   \* tab -> the send it waits for
  at,        \* send -> where its requests stand
  request,   \* send -> what was shown when the operator confirmed
  taken,     \* send -> the text its draft is made of
  rows,      \* send -> the queue as it has read it and will write it back
  records,   \* send -> the audit as it has read it and will write it back
  decision,  \* send -> what approve-send decided
  drafts,    \* sends whose draft is in the mailbox
  mails,     \* the mails sent, in order
  audit      \* the snapshot platform-send-audit

client == <<shown, waiting>>
copies == <<rows, records>>
mailbox == <<drafts, mails>>
vars == <<proposed, queue, pruning, shown, waiting, at, request, taken, rows,
          records, decision, drafts, mails, audit>>

Phases == {"unused", "resolve", "draft", "read_queue", "write_queue", "staged",
           "decide", "send", "read_audit", "write_audit", "answer", "failed"}

Goto(s, phase) == at' = [at EXCEPT ![s] = phase]
-----------------------------------------------------------------------------
(* The brain and the queue outside of a send.                                *)

(* Facts have come in: the action, still the same id, gets another text.     *)
Propose(a) ==
  /\ \E text \in Text :
       text.to \in text.roster /\ proposed' = [proposed EXCEPT ![a] = text]
  /\ UNCHANGED <<queue, pruning, client, at, request, taken, copies, decision, mailbox, audit>>

(* A Gmail refresh reads the queue and, minutes later, writes it back        *)
(* without the rows of closed shipments.  A row that has a draft stays       *)
(* (actionIsTerminal): what the write can change here is only that it puts   *)
(* the rows back that were read.                                             *)
StartRefresh ==
  /\ pruning = {}
  /\ pruning' = {queue}
  /\ UNCHANGED <<proposed, queue, client, at, request, taken, copies, decision, mailbox, audit>>

EndRefresh ==
  /\ \E read \in pruning : queue' \in {read, queue}
  /\ pruning' = {}
  /\ UNCHANGED <<proposed, client, at, request, taken, copies, decision, mailbox, audit>>
-----------------------------------------------------------------------------
(* The composer.                                                             *)

(* The composer shows an action as the board has it: the brain's proposal or *)
(* the row of the queue.  Its preview is a dry run, which returns the text   *)
(* of the action it was given.                                               *)
Review(t, a) ==
  /\ waiting[t] = None
  /\ \/ shown' = [shown EXCEPT ![t] =
                    [action |-> a, text |-> proposed[a], status |-> "suggested"]]
     \/ /\ queue[a] # None
        /\ shown' = [shown EXCEPT ![t] =
                       [action |-> a, text |-> queue[a], status |-> "drafted"]]
  /\ UNCHANGED <<proposed, queue, pruning, waiting, at, request, taken, copies,
                 decision, mailbox, audit>>

(* The operator may edit the recipient, never the body.                      *)
EditRecipient(t, to) ==
  /\ shown[t] # None /\ waiting[t] = None
  /\ shown' = [shown EXCEPT ![t].text.to = to]
  /\ UNCHANGED <<proposed, queue, pruning, waiting, at, request, taken, copies,
                 decision, mailbox, audit>>

Confirm(t, s) ==
  /\ shown[t] # None /\ waiting[t] = None
  /\ at[s] = "unused"
  /\ Goto(s, "resolve")
  /\ request' = [request EXCEPT ![s] = shown[t]]
  /\ waiting' = [waiting EXCEPT ![t] = s]
  /\ UNCHANGED <<proposed, queue, pruning, shown, taken, copies, decision, mailbox, audit>>

(* The draft is staged: the composer asks for it to be sent.                 *)
Approve(t) ==
  /\ waiting[t] # None
  /\ at[waiting[t]] = "staged"
  /\ Goto(waiting[t], "decide")
  /\ UNCHANGED <<proposed, queue, pruning, client, request, taken, copies, decision,
                 mailbox, audit>>

(* After a mail the composer closes, after a refusal or an error it shows    *)
(* the reason and the text as it was.                                        *)
Answered(t) ==
  /\ waiting[t] # None
  /\ at[waiting[t]] \in {"answer", "failed"}
  /\ waiting' = [waiting EXCEPT ![t] = None]
  /\ shown' = [shown EXCEPT ![t] =
                 IF at[waiting[t]] = "answer" /\ decision[waiting[t]] = "sent"
                 THEN None ELSE @]
  /\ UNCHANGED <<proposed, queue, pruning, at, request, taken, copies, decision,
                 mailbox, audit>>

(* The connection breaks: the composer shows an error, and the request it    *)
(* has sent goes on.                                                         *)
AnswerLost(t) ==
  /\ waiting[t] # None
  /\ waiting' = [waiting EXCEPT ![t] = None]
  /\ UNCHANGED <<proposed, queue, pruning, shown, at, request, taken, copies, decision,
                 mailbox, audit>>
-----------------------------------------------------------------------------
(* api/actions/send.                                                         *)

(* A proposal that is not in the queue is staged as it was provided.         *)
ProvidedActionCanQueue(s) == request[s].status = "suggested"

(* The row of the queue decides, with the operator's recipient.              *)
ActionWithOperatorDraftOverrides(s, text) == [text EXCEPT !.to = request[s].text.to]

(* A queue that cannot be read is replaced by the bundled one, which has no  *)
(* row of a proposal.                                                        *)
ResolveHostedAction(s) ==
  /\ at[s] = "resolve"
  /\ \E row \in {queue[request[s].action], None} :
     \/ /\ row # None
        /\ taken' = [taken EXCEPT ![s] = ActionWithOperatorDraftOverrides(s, row)]
        /\ Goto(s, "draft")
     \/ /\ row = None /\ ProvidedActionCanQueue(s)
        /\ taken' = [taken EXCEPT ![s] = request[s].text]
        /\ Goto(s, "draft")
     \/ /\ row = None /\ ~ProvidedActionCanQueue(s)
        /\ Goto(s, "failed")
        /\ UNCHANGED taken
  /\ UNCHANGED <<proposed, queue, pruning, client, request, copies, decision, mailbox, audit>>

(* A new draft each time; it may be made although the answer is lost.        *)
CreateGmailDraft(s) ==
  /\ at[s] = "draft"
  /\ drafts' = drafts \cup {s}
  /\ Goto(s, "read_queue") \/ Goto(s, "failed")
  /\ UNCHANGED <<proposed, queue, pruning, client, request, taken, copies, decision, mails, audit>>

LoadQueue(s) ==
  /\ at[s] = "read_queue"
  /\ rows' = [rows EXCEPT ![s] = queue]
  /\ Goto(s, "write_queue")
  /\ UNCHANGED <<proposed, queue, pruning, client, request, taken, records, decision,
                 mailbox, audit>>

PersistHostedDraftRequest(s) ==
  /\ at[s] = "write_queue"
  /\ queue' = [rows[s] EXCEPT ![request[s].action] = taken[s]]
  /\ rows' = [rows EXCEPT ![s] = NoRows]
  /\ Goto(s, "staged") \/ Goto(s, "failed")
  /\ UNCHANGED <<proposed, pruning, client, request, taken, records, decision, mailbox, audit>>
-----------------------------------------------------------------------------
(* api/actions/approve-send and lib/platform-send.                           *)

(* What the composer sends along: the draft and the approval of it.          *)
Draft(s) == [body |-> request[s].text.body, to |-> request[s].text.to]
Approval(s) == [reviewedBodyHash |-> request[s].text.body, reviewedTo |-> request[s].text.to]

(* The roster is that of the row of the queue, or of the action sent along   *)
(* if there is no row or it cannot be read.                                  *)
Rosters(s) ==
  LET row == queue[request[s].action]
  IN  {request[s].text.roster} \cup (IF row = None THEN {} ELSE {row.roster})

EvaluatePlatformSend(s, roster) ==
  /\ Approval(s).reviewedBodyHash = Draft(s).body
  /\ Approval(s).reviewedTo = Draft(s).to
  /\ Draft(s).to \in roster

Decide(s) ==
  /\ at[s] = "decide"
  /\ \E roster \in Rosters(s), live \in BOOLEAN :
       \/ /\ EvaluatePlatformSend(s, roster) /\ live
          /\ Goto(s, "send")
          /\ UNCHANGED decision
       \/ /\ ~(EvaluatePlatformSend(s, roster) /\ live)
          /\ decision' = [decision EXCEPT ![s] = "refused"]
          /\ Goto(s, "read_audit")
  /\ UNCHANGED <<proposed, queue, pruning, client, request, taken, copies, mailbox, audit>>

(* Gmail sends the draft it holds and removes it; when its answer is lost    *)
(* the request fails, with nothing recorded.                                 *)
SendGmailDraftById(s) ==
  /\ at[s] = "send"
  /\ s \in drafts
  /\ drafts' = drafts \ {s}
  /\ mails' = Append(mails, [send |-> s, body |-> taken[s].body, to |-> taken[s].to])
  /\ \/ /\ decision' = [decision EXCEPT ![s] = "sent"]
        /\ Goto(s, "read_audit")
     \/ /\ Goto(s, "failed")
        /\ UNCHANGED decision
  /\ UNCHANGED <<proposed, queue, pruning, client, request, taken, copies, audit>>

(* The record is put in front of the records read before; a failure to read  *)
(* or to write them is swallowed.                                            *)
LoadAudit(s) ==
  /\ at[s] = "read_audit"
  /\ \/ records' = [records EXCEPT ![s] = audit] /\ Goto(s, "write_audit")
     \/ UNCHANGED records /\ Goto(s, "answer")
  /\ UNCHANGED <<proposed, queue, pruning, client, request, taken, rows, decision,
                 mailbox, audit>>

AppendAuditRecord(s) ==
  /\ at[s] = "write_audit"
  /\ \/ audit' = records[s] \cup {[send |-> s, decision |-> decision[s], to |-> Draft(s).to]}
     \/ UNCHANGED audit
  /\ records' = [records EXCEPT ![s] = {}]
  /\ Goto(s, "answer")
  /\ UNCHANGED <<proposed, queue, pruning, client, request, taken, rows, decision, mailbox>>

(* Any call on the way fails, and the handler answers with the error.        *)
Fail(s) ==
  /\ at[s] \in {"resolve", "draft", "read_queue", "write_queue", "decide", "send"}
  /\ Goto(s, "failed")
  /\ UNCHANGED <<proposed, queue, pruning, client, request, taken, copies, decision,
                 mailbox, audit>>
-----------------------------------------------------------------------------
Init ==
  /\ proposed \in [Actions -> {text \in Text : text.to \in text.roster}]
  /\ queue = NoRows
  /\ pruning = {}
  /\ shown = [t \in Tabs |-> None]
  /\ waiting = [t \in Tabs |-> None]
  /\ at = [s \in Sends |-> "unused"]
  /\ request = [s \in Sends |-> None]
  /\ taken = [s \in Sends |-> None]
  /\ rows = [s \in Sends |-> NoRows]
  /\ records = [s \in Sends |-> {}]
  /\ decision = [s \in Sends |-> None]
  /\ drafts = {}
  /\ mails = <<>>
  /\ audit = {}

Compose(t) ==
  \/ \E a \in Actions : Review(t, a)
  \/ \E to \in Addresses : EditRecipient(t, to)
  \/ \E s \in Sends : Confirm(t, s)
  \/ Approve(t) \/ Answered(t) \/ AnswerLost(t)

Serve(s) ==
  \/ ResolveHostedAction(s) \/ CreateGmailDraft(s)
  \/ LoadQueue(s) \/ PersistHostedDraftRequest(s)
  \/ Decide(s) \/ SendGmailDraftById(s)
  \/ LoadAudit(s) \/ AppendAuditRecord(s) \/ Fail(s)

Next ==
  \/ \E a \in Actions : Propose(a)
  \/ StartRefresh \/ EndRefresh
  \/ \E t \in Tabs : Compose(t)
  \/ \E s \in Sends : Serve(s)

Spec == Init /\ [][Next]_vars
-----------------------------------------------------------------------------
TypeOK ==
  /\ proposed \in [Actions -> Text]
  /\ queue \in Queue
  /\ pruning \in SUBSET Queue
  /\ shown \in [Tabs -> Shown \cup {None}]
  /\ waiting \in [Tabs -> Sends \cup {None}]
  /\ at \in [Sends -> Phases]
  /\ request \in [Sends -> Shown \cup {None}]
  /\ taken \in [Sends -> Text \cup {None}]
  /\ rows \in [Sends -> Queue]
  /\ records \in [Sends -> SUBSET Record]
  /\ decision \in [Sends -> Decisions \cup {None}]
  /\ drafts \in SUBSET Sends
  /\ mails \in Seq(Mail)
  /\ audit \in SUBSET Record

(* The body of every mail is the one the operator reviewed for it: "the      *)
(* server recomputes sha256 over the body it is about to send and refuses on *)
(* any mismatch" (lib/platform-send.js, contract point 3).                   *)
ReviewedBodyIsSent ==
  \A i \in DOMAIN mails : mails[i].body = request[mails[i].send].text.body

(* The recipient of every mail is the one the operator confirmed, whatever   *)
(* the queue's row says by then (actionWithOperatorDraftOverrides).          *)
ReviewedRecipientIsSent ==
  \A i \in DOMAIN mails : mails[i].to = request[mails[i].send].text.to

(* A confirmation sends at most one mail: every mail is of its own draft,    *)
(* and every draft is staged for one confirmation.                           *)
OneMailPerConfirmation ==
  \A i, j \in DOMAIN mails : mails[i].send = mails[j].send => i = j

(* What the audit and the composer are told was sent has been sent, to the   *)
(* recipient on record: no overlap of two writers invents a record.          *)
AuditIsTrue ==
  \A record \in audit : record.decision = "sent" =>
    \E i \in DOMAIN mails : mails[i].send = record.send /\ mails[i].to = record.to
=============================================================================
