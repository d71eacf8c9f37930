------------------------- MODULE MCTruthPublication -------------------------
EXTENDS TruthPublication, TLC

CONSTANTS r1, r2, hosted, ceremony

(* The hosted runtime gives every run the same worker id, a script may     *)
(* have one of its own.                                                    *)
SameWorker == (r1 :> hosted) @@ (r2 :> hosted)
TwoWorkers == (r1 :> hosted) @@ (r2 :> ceremony)
=============================================================================
