---------------------------- MODULE ModelSpending ----------------------------
(***************************************************************************)
(* What the request ledger promises about money: nothing is billed for a   *)
(* request unless an amount has been set aside for it, the bill never      *)
(* exceeds that amount, and a request is closed in one of two ways.        *)
(* Settled, the amount in the books is the bill, to the cent, and no bill  *)
(* follows.  In doubt, the whole amount stays set aside for good.          *)
(***************************************************************************)
EXTENDS Naturals

CONSTANTS
    Requests,       \* the requests
    Hold            \* what is set aside for a request

VARIABLES
    phase,          \* where each request is
    amount,         \* what the books hold for it, spent or set aside
    bill            \* what the provider has billed for it

vars == <<phase, amount, bill>>

Init ==
    /\ phase = [r \in Requests |-> "open"]
    /\ amount = [r \in Requests |-> 0]
    /\ bill = [r \in Requests |-> 0]

SetAside(r) ==
    /\ phase[r] = "open"
    /\ phase' = [phase EXCEPT ![r] = "held"]
    /\ amount' = [amount EXCEPT ![r] = Hold]
    /\ UNCHANGED bill

Bill(r) ==
    /\ phase[r] \in {"held", "doubt"}
    /\ \E more \in 1 .. Hold :
          /\ bill[r] + more <= amount[r]
          /\ bill' = [bill EXCEPT ![r] = bill[r] + more]
    /\ UNCHANGED <<phase, amount>>

Settle(r) ==
    /\ phase[r] \in {"open", "held"}
    /\ phase' = [phase EXCEPT ![r] = "settled"]
    /\ amount' = [amount EXCEPT ![r] = bill[r]]
    /\ UNCHANGED bill

Doubt(r) ==
    /\ phase[r] = "held"
    /\ phase' = [phase EXCEPT ![r] = "doubt"]
    /\ UNCHANGED <<amount, bill>>

Next == \E r \in Requests : SetAside(r) \/ Bill(r) \/ Settle(r) \/ Doubt(r)

Spec == Init /\ [][Next]_vars
=============================================================================
