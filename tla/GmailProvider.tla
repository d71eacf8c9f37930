--------------------------- MODULE GmailProvider ---------------------------
(***************************************************************************)
(* The mailbox behind the Gmail API, as lib/gmail-incremental-sync.js and  *)
(* lib/gmail-mailbox-backfill.js use it.  None of it is code of this       *)
(* repository: it is the environment of GmailMailboxSync.                  *)
(*                                                                         *)
(* The mailbox is a log of history records.  The history id of a record is *)
(* its position in the log, and a message is named by the position of the  *)
(* record that added it, so "newer" is "greater" for both.                 *)
(***************************************************************************)
EXTENDS Integers, Sequences

CONSTANT MaxHistory      \* bound: the mailbox takes at most this many records

ASSUME MaxHistoryAssumption == MaxHistory \in Nat \ {0}

VARIABLES
    log,        \* the history records of the mailbox, oldest first
    retained    \* history.list refuses a start below this id with a 404

providerVars == <<log, retained>>

NoToken == 0    \* the empty page token, and the empty cursor ''

HistoryIds == 1..MaxHistory
Events == [kind : {"added", "deleted"}, msg : HistoryIds]

HistoryId == Len(log)      \* users.getProfile().historyId

Added(l)    == {l[i].msg : i \in {j \in DOMAIN l : l[j].kind = "added"}}
DeletedBy(l, h) == {l[i].msg : i \in {j \in DOMAIN l : j <= h /\ l[j].kind = "deleted"}}
Live(l)     == Added(l) \ DeletedBy(l, Len(l))

(***************************************************************************)
(* users.history.list: the records after the start (or after the page      *)
(* token), in order, over any page size.  The page that reaches the end of *)
(* the log carries no next token; every page reports the current id.       *)
(***************************************************************************)
HistoryResponses(start, token) ==
    LET from == IF token = NoToken THEN start ELSE token
    IN  {[next |-> IF to = HistoryId THEN NoToken ELSE to,
          hid  |-> HistoryId,
          ids  |-> (from + 1)..to] : to \in (from + 1)..HistoryId \union {HistoryId}}

HistoryExpired(start) == start < retained

(***************************************************************************)
(* users.messages.list: the messages now in the mailbox, newest first.  A  *)
(* page token stands for a place in that order, so messages that arrive or *)
(* go while the scan is paged do not shift it.                             *)
(***************************************************************************)
MailboxResponses(token) ==
    LET rest == {m \in Live(log) : token = NoToken \/ m < token}
        PageTo(c) == [next |-> IF \E m \in rest : m < c THEN c ELSE NoToken,
                      ids  |-> {m \in rest : m >= c}]
    IN  IF rest = {} THEN {[next |-> NoToken, ids |-> {}]}
                     ELSE {PageTo(c) : c \in rest}
-----------------------------------------------------------------------------
(* The mailbox is not empty when the first run looks at it: history ids    *)
(* are positive decimal strings, and '' is no history id.                  *)
ProviderInit ==
    /\ log = <<[kind |-> "added", msg |-> 1]>>
    /\ retained = 1

MessageAdded ==
    /\ HistoryId < MaxHistory
    /\ log' = Append(log, [kind |-> "added", msg |-> HistoryId + 1])
    /\ UNCHANGED retained

MessageDeleted ==
    /\ HistoryId < MaxHistory
    /\ \E m \in Live(log) : log' = Append(log, [kind |-> "deleted", msg |-> m])
    /\ UNCHANGED retained

(* Gmail keeps history for about a week: a quiet mailbox loses even the    *)
(* record its current id names.                                            *)
HistoryForgotten ==
    /\ retained <= HistoryId
    /\ retained' \in (retained + 1)..(HistoryId + 1)
    /\ UNCHANGED log

ProviderNext == MessageAdded \/ MessageDeleted \/ HistoryForgotten
=============================================================================
