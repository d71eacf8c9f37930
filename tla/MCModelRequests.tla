-------------------------- MODULE MCModelRequests --------------------------
EXTENDS ModelRequests, TLC

CONSTANTS r1, r2, w1, w2

Daily == [allocation |-> 4, ceiling |-> 2]
Tight == [allocation |-> 2, ceiling |-> 2]
MCBudgets == {Daily, Tight}

Symmetric == Permutations(Requests) \cup Permutations(Workers)
=============================================================================
