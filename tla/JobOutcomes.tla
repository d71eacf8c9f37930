----------------------------- MODULE JobOutcomes -----------------------------
(***************************************************************************)
(* What the work queue promises, without leases, workers or calls: a job   *)
(* that was queued is open until it is done or given up, once and for all; *)
(* a job is done by one of its attempts, whose result is recorded together *)
(* with the jobs that follow from it, and a job given up leaves no result. *)
(***************************************************************************)
EXTENDS Integers

CONSTANTS Jobs, Roots, ChildrenOf, MaxAttempts

VARIABLES
    outcome,    \* outcome[j] : "none" (not queued), "open", "done" or "dead"
    results     \* <<j, n>> : the result of attempt n of job j

Init == outcome = [j \in Jobs |-> "none"] /\ results = {}

Queue(j) ==
    /\ j \in Roots /\ outcome[j] = "none"
    /\ outcome' = [outcome EXCEPT ![j] = "open"]
    /\ UNCHANGED results

Finish(j) ==
    /\ outcome[j] = "open"
    /\ \A i \in ChildrenOf[j] : outcome[i] = "none"
    /\ outcome' = [i \in Jobs |-> IF i = j THEN "done"
                                  ELSE IF i \in ChildrenOf[j] THEN "open" ELSE outcome[i]]
    /\ \E n \in 1..MaxAttempts : results' = results \union {<<j, n>>}

(* One claim may give up several jobs whose last lease expired. *)
GiveUp(given) ==
    /\ \A j \in given : outcome[j] = "open"
    /\ outcome' = [j \in Jobs |-> IF j \in given THEN "dead" ELSE outcome[j]]
    /\ UNCHANGED results

Next ==
    \/ \E j \in Jobs : Queue(j) \/ Finish(j)
    \/ \E given \in SUBSET Jobs : GiveUp(given)

Spec == Init /\ [][Next]_<<outcome, results>>
=============================================================================
