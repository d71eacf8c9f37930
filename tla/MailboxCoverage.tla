--------------------------- MODULE MailboxCoverage ---------------------------
(***************************************************************************)
(* What the mailbox journal promises its readers, without batches, pages,  *)
(* leases or runs: a position in the mailbox history that only moves       *)
(* forward, and the set of messages known so far, which has every message  *)
(* still in the mailbox that is no newer than the position.                *)
(***************************************************************************)
EXTENDS Integers, Sequences

VARIABLES
    log,        \* the mailbox history (GmailProvider)
    position,   \* the committed cursor
    known       \* the messages the committed journal has observed

Added(l)   == {l[i].msg : i \in {j \in DOMAIN l : l[j].kind = "added"}}
Deleted(l) == {l[i].msg : i \in {j \in DOMAIN l : l[j].kind = "deleted"}}

Init == position = 0 /\ known = {}

MailboxChanges ==
    /\ \E e \in [kind : {"added", "deleted"}, msg : Added(log) \union {Len(log) + 1}] :
          log' = Append(log, e)
    /\ UNCHANGED <<position, known>>

Advance ==
    /\ position' \in position..Len(log)
    /\ known \subseteq known' /\ known' \subseteq Added(log)
    /\ \A m \in Added(log) \ Deleted(log) : m <= position' => m \in known'
    /\ UNCHANGED log

Spec == Init /\ [][MailboxChanges \/ Advance]_<<log, position, known>>
=============================================================================
