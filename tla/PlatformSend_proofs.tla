------------------------ MODULE PlatformSend_proofs -------------------------
(* What holds of the sending of mails for every number of actions, tabs,     *)
(* texts and confirmations.                                                  *)
EXTENDS PlatformSend, TLAPS

(* What stands for "nothing" is nothing else.  All theorems suppose it.      *)
NoneApart == None \notin Sends \cup Text \cup Shown \cup Decisions

(* A draft has been planned and its mail is not sent.                        *)
Drafting == {"draft", "read_queue", "write_queue", "staged", "decide", "send"}

(* The request can no longer send a mail.                                    *)
Recording == {"read_audit", "write_audit", "answer"}
Over == Recording \cup {"failed"}

(* A send keeps what the operator confirmed, plans its draft for that        *)
(* recipient, and has decided before it records.                             *)
SendOK(s) ==
  /\ at[s] = "unused" => taken[s] = None
  /\ at[s] # "unused" => request[s] \in Shown
  /\ taken[s] # None => taken[s].to = request[s].text.to
  /\ at[s] \in Drafting => taken[s] # None
  /\ at[s] \in Recording => decision[s] # None

SendsOK == \A s \in Sends : SendOK(s)

(* Whoever has sent a mail is past sending.                                  *)
SentIsOver == \A i \in DOMAIN mails : at[mails[i].send] \in Over

(* Every record of a mail, also one a writer has read and will write back.   *)
RecordIsTrue(record) ==
  record.decision = "sent" =>
    \E i \in DOMAIN mails : mails[i].send = record.send /\ mails[i].to = record.to

RecordsAreTrue ==
  /\ \A record \in audit : RecordIsTrue(record)
  /\ \A s \in Sends : \A record \in records[s] : RecordIsTrue(record)
  /\ \A s \in Sends : decision[s] = "sent" => \E i \in DOMAIN mails : mails[i].send = s

IInv ==
  /\ TypeOK
  /\ SendsOK
  /\ SentIsOver
  /\ ReviewedRecipientIsSent
  /\ OneMailPerConfirmation
  /\ RecordsAreTrue

-----------------------------------------------------------------------------
(* Nothing is sent, staged or recorded at the start.                         *)
LEMMA InitHolds == NoneApart /\ Init => IInv
<1> SUFFICES ASSUME NoneApart, Init PROVE IInv
  OBVIOUS
<1> USE DEF Init, NoneApart
<1>1. TypeOK
  <2>1. mails \in Seq(Mail)
    OBVIOUS
  <2>2. NoRows \in Queue
    BY DEF Queue, NoRows
  <2>3. at \in [Sends -> Phases]
    BY DEF Phases
  <2>4. proposed \in [Actions -> Text]
    OBVIOUS
  <2>5. QED
    BY <2>1, <2>2, <2>3, <2>4 DEF TypeOK
<1>2. SendsOK
  BY DEF SendsOK, SendOK, Drafting, Recording
<1>3. SentIsOver /\ ReviewedRecipientIsSent /\ OneMailPerConfirmation
  BY DEF SentIsOver, ReviewedRecipientIsSent, OneMailPerConfirmation
<1>4. RecordsAreTrue
  BY DEF RecordsAreTrue, Decisions
<1>5. QED
  BY <1>1, <1>2, <1>3, <1>4 DEF IInv

(* A step that leaves the sends, their mails and their records alone.        *)
LEMMA Quiet ==
  ASSUME IInv, TypeOK', UNCHANGED <<at, request, taken, decision, records, mails, audit>>
  PROVE  IInv'
<1> USE DEF IInv
<1>1. SendsOK'
  BY DEF SendsOK, SendOK
<1>2. SentIsOver' /\ ReviewedRecipientIsSent' /\ OneMailPerConfirmation'
  BY DEF SentIsOver, ReviewedRecipientIsSent, OneMailPerConfirmation
<1>3. RecordsAreTrue'
  BY DEF RecordsAreTrue, RecordIsTrue
<1>4. QED
  BY <1>1, <1>2, <1>3

(* Every mail is one.                                                        *)
LEMMA MailTypes == TypeOK => \A i \in DOMAIN mails : mails[i] \in Mail
BY DEF TypeOK

(* A send that has no mail yet, or is over, goes on without one.             *)
LEMMA GoesOn ==
  ASSUME IInv, TypeOK', SendsOK', NEW s \in Sends, NEW phase,
         Goto(s, phase), at[s] \in Over => phase \in Over,
         \A r \in Sends \ {s} : request'[r] = request[r],
         at[s] # "unused" => request'[s] = request[s],
         UNCHANGED mails
  PROVE  SentIsOver' /\ ReviewedRecipientIsSent' /\ OneMailPerConfirmation'
<1> USE DEF IInv
<1>1. SentIsOver'
  BY MailTypes DEF SentIsOver, Goto, TypeOK, Mail
<1>2. \A i \in DOMAIN mails : mails[i].send \in Sends /\ at[mails[i].send] # "unused"
  BY MailTypes DEF SentIsOver, Over, Recording, Mail
<1>3. ReviewedRecipientIsSent'
  BY <1>2 DEF ReviewedRecipientIsSent
<1>4. OneMailPerConfirmation'
  BY DEF OneMailPerConfirmation
<1>5. QED
  BY <1>1, <1>3, <1>4

(* No record changes and no mail is gone: the records stay true.             *)
LEMMA SameRecords ==
  ASSUME IInv, UNCHANGED <<audit, records, decision, mails>>
  PROVE  RecordsAreTrue'
BY DEF IInv, RecordsAreTrue, RecordIsTrue

-----------------------------------------------------------------------------
(* The brain changes its mind about an action.                               *)
LEMMA ProposeKeeps ==
  ASSUME IInv, NEW a \in Actions, Propose(a)
  PROVE  IInv'
<1>1. TypeOK'
  BY DEF IInv, Propose, TypeOK, Queue, client, copies, mailbox
<1>2. UNCHANGED <<at, request, taken, decision, records, mails, audit>>
  BY DEF Propose, client, copies, mailbox
<1>3. QED
  BY <1>1, <1>2, Quiet

(* A Gmail refresh reads the queue.                                          *)
LEMMA StartRefreshKeeps ==
  ASSUME IInv, StartRefresh
  PROVE  IInv'
<1>1. TypeOK'
  BY DEF IInv, StartRefresh, TypeOK, Queue, client, copies, mailbox
<1>2. UNCHANGED <<at, request, taken, decision, records, mails, audit>>
  BY DEF StartRefresh, client, copies, mailbox
<1>3. QED
  BY <1>1, <1>2, Quiet

(* A Gmail refresh writes the queue.                                         *)
LEMMA EndRefreshKeeps ==
  ASSUME IInv, EndRefresh
  PROVE  IInv'
<1>1. TypeOK'
  BY DEF IInv, EndRefresh, TypeOK, Queue, client, copies, mailbox, NoRows
<1>2. UNCHANGED <<at, request, taken, decision, records, mails, audit>>
  BY DEF EndRefresh, client, copies, mailbox
<1>3. QED
  BY <1>1, <1>2, Quiet

(* The operator looks at an action.                                          *)
LEMMA ReviewKeeps ==
  ASSUME IInv, NEW t \in Tabs, NEW a \in Actions, Review(t, a)
  PROVE  IInv'
<1>1. proposed[a] \in Text /\ (queue[a] # None => queue[a] \in Text)
  BY DEF IInv, TypeOK, Queue
<1>2. PICK new \in Shown : shown' = [shown EXCEPT ![t] = new]
  BY <1>1 DEF Review, Shown
<1>3. TypeOK'
  BY <1>2 DEF IInv, Review, TypeOK, copies, mailbox
<1>4. UNCHANGED <<at, request, taken, decision, records, mails, audit>>
  BY DEF Review, copies, mailbox
<1>5. QED
  BY <1>3, <1>4, Quiet

(* The operator edits the recipient.                                         *)
LEMMA EditRecipientKeeps ==
  ASSUME IInv, NEW t \in Tabs, NEW to \in Addresses, EditRecipient(t, to)
  PROVE  IInv'
<1>1. shown[t] \in Shown
  BY DEF IInv, TypeOK, EditRecipient
<1>2. [shown[t] EXCEPT !.text.to = to] \in Shown
  BY <1>1 DEF Shown, Text
<1>3. shown' = [shown EXCEPT ![t] = [shown[t] EXCEPT !.text.to = to]]
  BY DEF EditRecipient
<1>4. TypeOK'
  BY <1>2, <1>3 DEF IInv, EditRecipient, TypeOK, copies, mailbox
<1>5. UNCHANGED <<at, request, taken, decision, records, mails, audit>>
  BY DEF EditRecipient, copies, mailbox
<1>6. QED
  BY <1>4, <1>5, Quiet

(* The composer is given an answer.                                          *)
LEMMA AnsweredKeeps ==
  ASSUME IInv, NEW t \in Tabs, Answered(t)
  PROVE  IInv'
<1>1. TypeOK'
  BY DEF IInv, Answered, TypeOK, Queue, client, copies, mailbox
<1>2. UNCHANGED <<at, request, taken, decision, records, mails, audit>>
  BY DEF Answered, client, copies, mailbox
<1>3. QED
  BY <1>1, <1>2, Quiet

(* The composer loses its connection.                                        *)
LEMMA AnswerLostKeeps ==
  ASSUME IInv, NEW t \in Tabs, AnswerLost(t)
  PROVE  IInv'
<1>1. TypeOK'
  BY DEF IInv, AnswerLost, TypeOK, Queue, client, copies, mailbox
<1>2. UNCHANGED <<at, request, taken, decision, records, mails, audit>>
  BY DEF AnswerLost, client, copies, mailbox
<1>3. QED
  BY <1>1, <1>2, Quiet

(* The operator confirms.                                                    *)
LEMMA ConfirmKeeps ==
  ASSUME NoneApart, IInv, NEW t \in Tabs, NEW s \in Sends, Confirm(t, s)
  PROVE  IInv'
<1>1. TypeOK'
  BY DEF NoneApart, IInv, Confirm, TypeOK, Queue, Phases, Goto, client,
     copies, mailbox, NoRows
<1>2. SendsOK'
  BY DEF NoneApart, IInv, SendsOK, SendOK, Confirm, TypeOK, Goto,
     Drafting, Recording, client, copies
<1>3. PICK phase : Goto(s, phase) /\ (at[s] \in Over => phase \in Over)
  BY DEF Confirm, Over, Recording, IInv, TypeOK
<1>4. /\ \A r \in Sends \ {s} : request'[r] = request[r]
      /\ at[s] # "unused" => request'[s] = request[s]
      /\ mails' = mails /\ audit' = audit /\ records' = records /\ decision' = decision
  BY DEF Confirm, mailbox, copies, IInv, TypeOK
<1>5. SentIsOver' /\ ReviewedRecipientIsSent' /\ OneMailPerConfirmation'
  BY <1>1, <1>2, <1>3, <1>4, GoesOn
<1>6. RecordsAreTrue'
  BY <1>4, SameRecords
<1>7. QED
  BY <1>1, <1>2, <1>5, <1>6 DEF IInv

(* The composer asks for the staged draft to be sent.                        *)
LEMMA ApproveKeeps ==
  ASSUME NoneApart, IInv, NEW t \in Tabs, Approve(t)
  PROVE  IInv'
<1>0. waiting[t] \in Sends
  BY DEF IInv, Approve, TypeOK
<1>1. TypeOK'
  BY DEF NoneApart, IInv, Approve, TypeOK, Queue, Phases, Goto, client,
     copies, mailbox, NoRows
<1>2. SendsOK'
  BY DEF NoneApart, IInv, SendsOK, SendOK, Approve, TypeOK, Goto,
     Drafting, Recording, client, copies
<1>3. PICK phase : Goto(waiting[t], phase) /\ (at[waiting[t]] \in Over => phase \in Over)
  BY DEF Approve, Over, Recording, IInv, TypeOK
<1>4. /\ \A r \in Sends \ {waiting[t]} : request'[r] = request[r]
      /\ at[waiting[t]] # "unused" => request'[waiting[t]] = request[waiting[t]]
      /\ mails' = mails /\ audit' = audit /\ records' = records /\ decision' = decision
  BY DEF Approve, mailbox, copies, IInv, TypeOK
<1>5. SentIsOver' /\ ReviewedRecipientIsSent' /\ OneMailPerConfirmation'
  BY <1>1, <1>2, <1>3, <1>4, <1>0, GoesOn
<1>6. RecordsAreTrue'
  BY <1>4, SameRecords
<1>7. QED
  BY <1>1, <1>2, <1>5, <1>6 DEF IInv

(* The action is resolved.                                                   *)
LEMMA ResolveKeeps ==
  ASSUME NoneApart, IInv, NEW s \in Sends, ResolveHostedAction(s)
  PROVE  IInv'
<1>1. request[s] \in Shown
  BY DEF IInv, SendsOK, SendOK, ResolveHostedAction
<1>2. request[s].text \in Text /\ request[s].action \in Actions
  BY <1>1 DEF Shown
<1>3. ASSUME NEW text \in Text
      PROVE  /\ ActionWithOperatorDraftOverrides(s, text) \in Text
             /\ ActionWithOperatorDraftOverrides(s, text).to = request[s].text.to
  BY <1>2 DEF ActionWithOperatorDraftOverrides, Text
<1>4. queue[request[s].action] \in Text \cup {None}
  BY <1>2 DEF IInv, TypeOK, Queue
<1>5. \/ /\ Goto(s, "draft")
         /\ \E new \in Text : taken' = [taken EXCEPT ![s] = new] /\ new.to = request[s].text.to
      \/ Goto(s, "failed") /\ taken' = taken
  BY <1>2, <1>3, <1>4 DEF ResolveHostedAction
<1>6. /\ request' = request /\ proposed' = proposed /\ queue' = queue /\ pruning' = pruning
      /\ shown' = shown /\ waiting' = waiting /\ rows' = rows /\ records' = records
      /\ decision' = decision /\ drafts' = drafts /\ mails' = mails /\ audit' = audit
  BY DEF ResolveHostedAction, client, copies, mailbox
<1>7. TypeOK'
  <2>1. at' \in [Sends -> Phases]
    BY <1>5 DEF IInv, TypeOK, Goto, Phases
  <2>2. taken' \in [Sends -> Text \cup {None}]
    BY <1>5 DEF IInv, TypeOK
  <2>3. QED
    BY <1>6, <2>1, <2>2 DEF IInv, TypeOK
<1>8. SendsOK'
  BY <1>1, <1>5, <1>6 DEF NoneApart, IInv, SendsOK, SendOK, TypeOK, Goto,
     Drafting, Recording
<1>9. PICK phase : Goto(s, phase)
  BY <1>5
<1>10. at[s] \notin Over
  BY DEF ResolveHostedAction, Over, Recording
<1>11. SentIsOver' /\ ReviewedRecipientIsSent' /\ OneMailPerConfirmation'
  BY <1>6, <1>7, <1>8, <1>9, <1>10, GoesOn
<1>12. RecordsAreTrue'
  BY <1>6, SameRecords
<1>13. QED
  BY <1>7, <1>8, <1>11, <1>12 DEF IInv

(* The draft is staged.                                                      *)
LEMMA CreateKeeps ==
  ASSUME NoneApart, IInv, NEW s \in Sends, CreateGmailDraft(s)
  PROVE  IInv'
<1>1. TypeOK'
  BY DEF NoneApart, IInv, CreateGmailDraft, TypeOK, Queue, Phases, Goto,
     client, copies, mailbox, NoRows
<1>2. SendsOK'
  BY DEF NoneApart, IInv, SendsOK, SendOK, CreateGmailDraft, TypeOK, Goto,
     Drafting, Recording, client, copies
<1>3. PICK phase : Goto(s, phase) /\ (at[s] \in Over => phase \in Over)
  BY DEF CreateGmailDraft, Over, Recording, IInv, TypeOK
<1>4. /\ \A r \in Sends \ {s} : request'[r] = request[r]
      /\ at[s] # "unused" => request'[s] = request[s]
      /\ mails' = mails /\ audit' = audit /\ records' = records /\ decision' = decision
  BY DEF CreateGmailDraft, mailbox, copies, IInv, TypeOK
<1>5. SentIsOver' /\ ReviewedRecipientIsSent' /\ OneMailPerConfirmation'
  BY <1>1, <1>2, <1>3, <1>4, GoesOn
<1>6. RecordsAreTrue'
  BY <1>4, SameRecords
<1>7. QED
  BY <1>1, <1>2, <1>5, <1>6 DEF IInv

(* The queue is read.                                                        *)
LEMMA LoadQueueKeeps ==
  ASSUME NoneApart, IInv, NEW s \in Sends, LoadQueue(s)
  PROVE  IInv'
<1>1. TypeOK'
  BY DEF NoneApart, IInv, LoadQueue, TypeOK, Queue, Phases, Goto, client,
     copies, mailbox, NoRows
<1>2. SendsOK'
  BY DEF NoneApart, IInv, SendsOK, SendOK, LoadQueue, TypeOK, Goto,
     Drafting, Recording, client, copies
<1>3. PICK phase : Goto(s, phase) /\ (at[s] \in Over => phase \in Over)
  BY DEF LoadQueue, Over, Recording, IInv, TypeOK
<1>4. /\ \A r \in Sends \ {s} : request'[r] = request[r]
      /\ at[s] # "unused" => request'[s] = request[s]
      /\ mails' = mails /\ audit' = audit /\ records' = records /\ decision' = decision
  BY DEF LoadQueue, mailbox, copies, IInv, TypeOK
<1>5. SentIsOver' /\ ReviewedRecipientIsSent' /\ OneMailPerConfirmation'
  BY <1>1, <1>2, <1>3, <1>4, GoesOn
<1>6. RecordsAreTrue'
  BY <1>4, SameRecords
<1>7. QED
  BY <1>1, <1>2, <1>5, <1>6 DEF IInv

(* The queue is written back.                                                *)
LEMMA PersistKeeps ==
  ASSUME NoneApart, IInv, NEW s \in Sends, PersistHostedDraftRequest(s)
  PROVE  IInv'
<1>1. TypeOK'
  <2>1. at' \in [Sends -> Phases]
    BY DEF IInv, PersistHostedDraftRequest, TypeOK, Goto, Phases
  <2>2. rows' \in [Sends -> Queue]
    BY DEF IInv, PersistHostedDraftRequest, TypeOK, Queue, NoRows
  <2>3. queue' \in Queue
    BY DEF IInv, PersistHostedDraftRequest, TypeOK, Queue
  <2>4. QED
    BY <2>1, <2>2, <2>3 DEF IInv, PersistHostedDraftRequest, TypeOK, client, mailbox
<1>2. SendsOK'
  BY DEF NoneApart, IInv, SendsOK, SendOK, PersistHostedDraftRequest,
     TypeOK, Goto, Drafting, Recording, client, copies
<1>3. PICK phase : Goto(s, phase) /\ (at[s] \in Over => phase \in Over)
  BY DEF PersistHostedDraftRequest, Over, Recording, IInv, TypeOK
<1>4. /\ \A r \in Sends \ {s} : request'[r] = request[r]
      /\ at[s] # "unused" => request'[s] = request[s]
      /\ mails' = mails /\ audit' = audit /\ records' = records /\ decision' = decision
  BY DEF PersistHostedDraftRequest, mailbox, copies, IInv, TypeOK
<1>5. SentIsOver' /\ ReviewedRecipientIsSent' /\ OneMailPerConfirmation'
  BY <1>1, <1>2, <1>3, <1>4, GoesOn
<1>6. RecordsAreTrue'
  BY <1>4, SameRecords
<1>7. QED
  BY <1>1, <1>2, <1>5, <1>6 DEF IInv

(* A call fails.                                                             *)
LEMMA FailKeeps ==
  ASSUME NoneApart, IInv, NEW s \in Sends, Fail(s)
  PROVE  IInv'
<1>1. TypeOK'
  BY DEF NoneApart, IInv, Fail, TypeOK, Queue, Phases, Goto, client,
     copies, mailbox, NoRows
<1>2. SendsOK'
  BY DEF NoneApart, IInv, SendsOK, SendOK, Fail, TypeOK, Goto, Drafting,
     Recording, client, copies
<1>3. PICK phase : Goto(s, phase) /\ (at[s] \in Over => phase \in Over)
  BY DEF Fail, Over, Recording, IInv, TypeOK
<1>4. /\ \A r \in Sends \ {s} : request'[r] = request[r]
      /\ at[s] # "unused" => request'[s] = request[s]
      /\ mails' = mails /\ audit' = audit /\ records' = records /\ decision' = decision
  BY DEF Fail, mailbox, copies, IInv, TypeOK
<1>5. SentIsOver' /\ ReviewedRecipientIsSent' /\ OneMailPerConfirmation'
  BY <1>1, <1>2, <1>3, <1>4, GoesOn
<1>6. RecordsAreTrue'
  BY <1>4, SameRecords
<1>7. QED
  BY <1>1, <1>2, <1>5, <1>6 DEF IInv

(* The decision is taken; a refusal is no mail.                              *)
LEMMA DecideKeeps ==
  ASSUME NoneApart, IInv, NEW s \in Sends, Decide(s)
  PROVE  IInv'
<1>1. TypeOK'
  <2>1. at' \in [Sends -> Phases]
    BY DEF IInv, Decide, TypeOK, Phases, Goto
  <2>2. decision' \in [Sends -> Decisions \cup {None}]
    BY DEF IInv, Decide, TypeOK, Decisions
  <2>3. QED
    BY <2>1, <2>2 DEF IInv, Decide, TypeOK, client, copies, mailbox
<1>2. SendsOK'
  <2>1. /\ at[s] = "decide" /\ request' = request /\ taken' = taken
        /\ \/ Goto(s, "send") /\ decision' = decision
           \/ Goto(s, "read_audit") /\ decision' = [decision EXCEPT ![s] = "refused"]
    BY DEF Decide
  <2>2. None # "refused"
    BY DEF NoneApart, Decisions
  <2>3. QED
    BY <2>1, <2>2 DEF IInv, SendsOK, SendOK, Drafting, Recording, TypeOK, Goto
<1>3. PICK phase : Goto(s, phase) /\ (at[s] \in Over => phase \in Over)
  BY DEF Decide, Over, Recording, IInv, TypeOK
<1>4. request' = request /\ mails' = mails
  BY DEF Decide, mailbox
<1>5. SentIsOver' /\ ReviewedRecipientIsSent' /\ OneMailPerConfirmation'
  BY <1>1, <1>2, <1>3, <1>4, GoesOn
<1>6. RecordsAreTrue'
  <2>1. audit' = audit /\ records' = records
    BY DEF Decide, copies
  <2>2. \A r \in Sends : decision'[r] = "sent" => decision[r] = "sent"
    BY DEF Decide, IInv, TypeOK
  <2>3. QED
    BY <1>4, <2>1, <2>2 DEF IInv, RecordsAreTrue, RecordIsTrue
<1>7. QED
  BY <1>1, <1>2, <1>5, <1>6 DEF IInv

(* The audit is read.                                                        *)
LEMMA LoadAuditKeeps ==
  ASSUME NoneApart, IInv, NEW s \in Sends, LoadAudit(s)
  PROVE  IInv'
<1>1. TypeOK'
  <2>1. at' \in [Sends -> Phases]
    BY DEF IInv, LoadAudit, TypeOK, Goto, Phases
  <2>2. records' \in [Sends -> SUBSET Record]
    BY DEF IInv, LoadAudit, TypeOK
  <2>3. QED
    BY <2>1, <2>2 DEF IInv, LoadAudit, TypeOK, client, mailbox
<1>2. SendsOK'
  BY DEF NoneApart, IInv, SendsOK, SendOK, LoadAudit, Drafting, Recording,
     TypeOK, Phases, Decisions, Goto, client, copies
<1>3. PICK phase : Goto(s, phase) /\ (at[s] \in Over => phase \in Over)
  BY DEF LoadAudit, Over, Recording, IInv, TypeOK
<1>4. request' = request /\ mails' = mails
  BY DEF LoadAudit, mailbox
<1>5. SentIsOver' /\ ReviewedRecipientIsSent' /\ OneMailPerConfirmation'
  BY <1>1, <1>2, <1>3, <1>4, GoesOn
<1>6. RecordsAreTrue'
  <2>1. audit' = audit /\ decision' = decision
    BY DEF LoadAudit
  <2>2. \A r \in Sends : records'[r] = records[r] \/ records'[r] = audit
    BY DEF LoadAudit, IInv, TypeOK
  <2>3. QED
    BY <1>4, <2>1, <2>2 DEF IInv, RecordsAreTrue, RecordIsTrue
<1>7. QED
  BY <1>1, <1>2, <1>5, <1>6 DEF IInv

(* The record of a decision tells of the mail of its own send.               *)
LEMMA AppendKeeps ==
  ASSUME IInv, NEW s \in Sends, AppendAuditRecord(s)
  PROVE  IInv'
<1> DEFINE new == [send |-> s, decision |-> decision[s], to |-> Draft(s).to]
<1>a. /\ at[s] = "write_audit" /\ request[s] \in Shown /\ decision[s] \in Decisions
  BY DEF AppendAuditRecord, IInv, SendsOK, SendOK, TypeOK, Recording
<1>b. new \in Record /\ new.to = request[s].text.to
  BY <1>a DEF Record, Draft, Shown, Text
<1>c. audit' = records[s] \cup {new} \/ audit' = audit
  BY DEF AppendAuditRecord
<1>1. TypeOK'
  BY <1>b, <1>c DEF IInv, AppendAuditRecord, TypeOK, Phases, Goto, client,
     mailbox
<1>2. SendsOK'
  BY DEF IInv, SendsOK, SendOK, AppendAuditRecord, Drafting, Recording,
     TypeOK, Goto
<1>3. PICK phase : Goto(s, phase) /\ (at[s] \in Over => phase \in Over)
  BY DEF AppendAuditRecord, Over, Recording, IInv, TypeOK
<1>4. request' = request /\ mails' = mails
  BY DEF AppendAuditRecord, mailbox
<1>5. SentIsOver' /\ ReviewedRecipientIsSent' /\ OneMailPerConfirmation'
  BY <1>1, <1>2, <1>3, <1>4, GoesOn
<1>6. RecordIsTrue(new)
  <2> SUFFICES ASSUME decision[s] = "sent"
               PROVE  \E i \in DOMAIN mails : mails[i].send = s /\ mails[i].to = new.to
    BY DEF RecordIsTrue
  <2>1. PICK i \in DOMAIN mails : mails[i].send = s
    BY DEF IInv, RecordsAreTrue
  <2>2. QED
    BY <2>1, <1>b DEF IInv, ReviewedRecipientIsSent
<1>7. RecordsAreTrue'
  <2>1. decision' = decision /\ \A r \in Sends : records'[r] \subseteq records[r]
    BY DEF AppendAuditRecord, IInv, TypeOK
  <2>2. \A record : RecordIsTrue(record) => RecordIsTrue(record)'
    BY <1>4 DEF RecordIsTrue
  <2>3. \A record \in audit' : RecordIsTrue(record)
    BY <1>6, <1>c DEF IInv, RecordsAreTrue
  <2>4. QED
    BY <1>4, <2>1, <2>2, <2>3 DEF IInv, RecordsAreTrue
<1>8. QED
  BY <1>1, <1>2, <1>5, <1>7 DEF IInv

(* The mail of a draft goes out once, and to whom the operator confirmed.    *)
LEMMA SendKeeps ==
  ASSUME NoneApart, IInv, NEW s \in Sends, SendGmailDraftById(s)
  PROVE  IInv'
<1> DEFINE new == [send |-> s, body |-> taken[s].body, to |-> taken[s].to]
<1>a. taken[s] \in Text /\ taken[s].to = request[s].text.to
  BY DEF SendGmailDraftById, IInv, SendsOK, SendOK, TypeOK, Drafting
<1>b. new \in Mail
  BY <1>a DEF Mail, Text
<1>c. /\ mails \in Seq(Mail) /\ mails' = Append(mails, new)
      /\ request' = request /\ audit' = audit /\ records' = records
  BY DEF SendGmailDraftById, IInv, TypeOK, copies
<1>d. /\ DOMAIN mails' = DOMAIN mails \cup {Len(mails) + 1}
      /\ Len(mails) + 1 \notin DOMAIN mails
      /\ mails'[Len(mails) + 1] = new
      /\ \A i \in DOMAIN mails : mails'[i] = mails[i]
  BY <1>b, <1>c
<1>e. \A i \in DOMAIN mails : mails[i] \in Mail /\ mails[i].send # s
  BY MailTypes DEF SendGmailDraftById, IInv, SentIsOver, Over, Recording
<1>f. PICK phase \in {"read_audit", "failed"} : Goto(s, phase)
  BY DEF SendGmailDraftById
<1>g. mails' \in Seq(Mail)
  BY <1>b, <1>c
<1>h. drafts' \in SUBSET Sends /\ decision' \in [Sends -> Decisions \cup {None}]
  BY DEF IInv, SendGmailDraftById, TypeOK, Decisions
<1>1. TypeOK'
  BY <1>f, <1>g, <1>h DEF IInv, SendGmailDraftById, TypeOK, Phases, Goto,
     client, copies
<1>2. SendsOK'
  BY DEF NoneApart, IInv, SendsOK, SendOK, SendGmailDraftById, Drafting,
     Recording, TypeOK, Goto, Decisions
<1>3. SentIsOver'
  BY <1>d, <1>e, <1>f DEF IInv, SentIsOver, Goto, TypeOK, Over, Recording, Mail
<1>4. ReviewedRecipientIsSent'
  BY <1>a, <1>c, <1>d DEF IInv, ReviewedRecipientIsSent
<1>5. OneMailPerConfirmation'
  BY <1>d, <1>e DEF IInv, OneMailPerConfirmation
<1>6. RecordsAreTrue'
  <2>1. \A record : RecordIsTrue(record) => RecordIsTrue(record)'
    BY <1>d DEF RecordIsTrue
  <2>2. \A r \in Sends : decision'[r] = decision[r] \/ r = s
    BY DEF SendGmailDraftById, IInv, TypeOK
  <2>3. \A r \in Sends : decision'[r] = "sent" => \E i \in DOMAIN mails' : mails'[i].send = r
    BY <1>d, <2>2 DEF IInv, RecordsAreTrue
  <2>4. QED
    BY <1>c, <2>1, <2>3 DEF IInv, RecordsAreTrue
<1>7. QED
  BY <1>1, <1>2, <1>3, <1>4, <1>5, <1>6 DEF IInv

-----------------------------------------------------------------------------
(* The invariant is kept by every step.                                      *)
LEMMA Inductive == NoneApart /\ IInv /\ [Next]_vars => IInv'
<1> SUFFICES ASSUME NoneApart, IInv, [Next]_vars PROVE IInv'
  OBVIOUS
<1>1. ASSUME UNCHANGED vars PROVE IInv'
  <2>1. TypeOK'
    BY <1>1 DEF IInv, TypeOK, vars
  <2>2. UNCHANGED <<at, request, taken, decision, records, mails, audit>>
    BY <1>1 DEF vars
  <2>3. QED
    BY <2>1, <2>2, Quiet
<1>2. ASSUME NEW a \in Actions, Propose(a) PROVE IInv'
  BY <1>2, ProposeKeeps
<1>3. CASE StartRefresh \/ EndRefresh
  BY <1>3, StartRefreshKeeps, EndRefreshKeeps
<1>4. ASSUME NEW t \in Tabs, Compose(t) PROVE IInv'
  BY <1>4, ReviewKeeps, EditRecipientKeeps, ConfirmKeeps, ApproveKeeps,
     AnsweredKeeps, AnswerLostKeeps DEF Compose
<1>5. ASSUME NEW s \in Sends, Serve(s) PROVE IInv'
  BY <1>5, ResolveKeeps, CreateKeeps, LoadQueueKeeps, PersistKeeps, DecideKeeps,
     SendKeeps, LoadAuditKeeps, AppendKeeps, FailKeeps DEF Serve
<1>6. QED
  BY <1>1, <1>2, <1>3, <1>4, <1>5 DEF Next

(* The invariant holds always.                                               *)
THEOREM Invariance == NoneApart => (Spec => []IInv)
<1> SUFFICES ASSUME NoneApart PROVE Spec => []IInv
  OBVIOUS
<1>1. Init => IInv
  BY InitHolds
<1>2. IInv /\ [Next]_vars => IInv'
  BY Inductive
<1>3. QED
  BY <1>1, <1>2, PTL DEF Spec

(* Every variable keeps its type.                                            *)
THEOREM TypeCorrect == NoneApart => (Spec => []TypeOK)
<1>1. IInv => TypeOK
  BY DEF IInv
<1>2. QED
  BY <1>1, Invariance, PTL

(* Every mail goes to the recipient the operator confirmed, whatever other   *)
(* sends and refreshes have made of the queue's row: of the queue only the   *)
(* rest of the text is taken.                                                *)
THEOREM RecipientAsReviewed == NoneApart => (Spec => []ReviewedRecipientIsSent)
<1>1. IInv => ReviewedRecipientIsSent
  BY DEF IInv
<1>2. QED
  BY <1>1, Invariance, PTL

(* A confirmation never sends two mails: a second one takes a second         *)
(* confirmation, also after lost answers and failed calls.                   *)
THEOREM ConfirmedOnce == NoneApart => (Spec => []OneMailPerConfirmation)
<1>1. IInv => OneMailPerConfirmation
  BY DEF IInv
<1>2. QED
  BY <1>1, Invariance, PTL

(* Records may be lost when two writers overlap, but none is false.          *)
THEOREM AuditNeverLies == NoneApart => (Spec => []AuditIsTrue)
<1>1. IInv => AuditIsTrue
  BY DEF IInv, RecordsAreTrue, RecordIsTrue, AuditIsTrue
<1>2. QED
  BY <1>1, Invariance, PTL
=============================================================================
