--------------------------- MODULE PublishedTruth ---------------------------
(***************************************************************************)
(* What a reader of the published truth is promised, whoever builds and    *)
(* publishes it: a new publication shows a cut that was never published    *)
(* before and is at least as new as the one it replaces; in production it  *)
(* is the state of the sources at that moment.  The only way back is an    *)
(* explicit rollback, to something that has been published.                *)
(* A cut is named by the version of the source cursor it was sealed at;    *)
(* zero is no cut.                                                         *)
(***************************************************************************)
EXTENDS Naturals

CONSTANT Production     \* is this the production channel?

VARIABLES
    cursor,     \* the version of the source cursor
    gaps,       \* is something missing from the sources?
    shown,      \* the cut that readers see
    offered     \* the cuts that have been published

Init == cursor = 0 /\ gaps = FALSE /\ shown = 0 /\ offered = {}

Publish(cut) ==
    /\ cut \in (1 .. cursor) \ offered
    /\ cut >= shown
    /\ Production => cut = cursor /\ ~gaps
    /\ shown' = cut
    /\ offered' = offered \union {cut}
    /\ UNCHANGED <<cursor, gaps>>

RollBack(cut) ==
    /\ cut \in offered
    /\ shown' = cut
    /\ UNCHANGED <<cursor, gaps, offered>>

SourcesMove ==
    /\ cursor' \in {cursor, cursor + 1}
    /\ gaps' \in BOOLEAN
    /\ UNCHANGED <<shown, offered>>

Next ==
    \/ \E cut \in 1 .. cursor : Publish(cut)
    \/ \E cut \in offered : RollBack(cut)
    \/ SourcesMove

Spec == Init /\ [][Next]_<<cursor, gaps, shown, offered>>
=============================================================================
