----------------------- MODULE MCSourceProcessingJobs -----------------------
(* Two revisions of one message, m1 before m2, and the parse job that the  *)
(* first leads to; two worker runs.                                        *)
EXTENDS SourceProcessingJobs

CONSTANTS m1, m2, p1, w1, w2

MCJobs == {m1, m2, p1}
MCRoots == {m1, m2}
MCChildrenOf == [j \in MCJobs |-> IF j = m1 THEN {p1} ELSE {}]
MCBefore == [j \in MCJobs |-> IF j = m2 THEN {m1} ELSE {}]
MCWorkers == {w1, w2}
=============================================================================
