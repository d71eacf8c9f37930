------------------------ MODULE ModelRequests_proofs ------------------------
(***************************************************************************)
(* Proofs about the request ledger and its workers: the types, what a      *)
(* completed job says of its request, that the ledger keeps the promise of *)
(* ModelSpending, and that the books of the account and of the days add up *)
(* to the rows, so that what is billed stays within the budget: for any    *)
(* number of requests, workers, attempts and days.                         *)
(***************************************************************************)
EXTENDS ModelRequests, TLAPS, FiniteSetTheorems, WellFoundedInduction

Doubts == Open \cup {"quarantined"}
Final == {"succeeded", "review_required", "outcome_unknown"}
Reporting == {"reconcile", "reconcile_again", "reread_again"}
Sending == {"post", "reread"} \cup Reporting

(* What the row, the last dispatch and the bill of a request have to do    *)
(* with each other.                                                        *)
Untouched(q, d, b) == q.hold = 0 /\ q.paid = 0 /\ d.number = 0 /\ d.outcome = "none" /\ b = 0

Waiting(q, d, b) ==
    /\ d.outcome \in {"none", "retry"}
    /\ d.number < MaxAttempts
    /\ q.hold + q.paid = Hold
    /\ q.paid <= Price * d.number
    /\ b = q.paid

Uncertain(q, d, b) ==
    /\ d.number \in 1 .. MaxAttempts
    /\ q.hold + q.paid = Hold
    /\ q.paid <= Price * (d.number - 1)
    /\ q.paid <= b
    /\ b <= q.paid + Price

Closed(q, d, b) == q.hold = 0 /\ b = q.paid

Accounted(q, d, b) ==
    /\ q.state \in {"none", "planned"} => Untouched(q, d, b)
    /\ q.state = "reserved" => Waiting(q, d, b)
    /\ q.state = "in_flight" <=> d.outcome = "pending"
    /\ q.state = "in_flight" => Uncertain(q, d, b)
    /\ d.outcome \in Doubts => q.state \in {"review_required", "outcome_unknown"} /\ Uncertain(q, d, b)
    /\ q.state \in Final /\ d.outcome \notin Doubts => Closed(q, d, b)

Money == \A r \in Requests : Accounted(request[r], dispatch[r], bill[r])

(* A result somebody holds tells what was billed for an open dispatch. *)
Known(number, result, q, d, b) ==
    /\ number \in 1 .. d.number
    /\ number = d.number /\ d.outcome = "pending" /\ result.class \notin Open =>
          b = q.paid + result.cost

Calls == \A call \in late :
            Known(call.number, call.result, request[call.request], dispatch[call.request],
                  bill[call.request])

(* Who is about to send has the last dispatch, and nobody else knows of    *)
(* its result.                                                             *)
Sender(x, q, d, b) ==
    /\ x.number = d.number
    /\ x.fence = d.fence
    /\ d.outcome \in {"pending", "quarantined"}
    /\ b = q.paid
    /\ x.result = NoResult

Sends(w) ==
    run[w].pc = "post" =>
      /\ Sender(run[w], request[run[w].request], dispatch[run[w].request], bill[run[w].request])
      /\ \A call \in late : call.request = run[w].request => call.number # run[w].number

Senders == \A w \in Workers : Sends(w)

Holder(x, q, d, b) ==
    /\ Known(x.number, x.result, q, d, b)
    /\ x.number = d.number => x.fence = d.fence

Knows(w) ==
    run[w].result # NoResult =>
      Holder(run[w], request[run[w].request], dispatch[run[w].request], bill[run[w].request])

Holders == \A w \in Workers : Knows(w)

Running(x) ==
    /\ x.pc = "idle" <=> x.request = NoRequest
    /\ x.pc = "idle" => x = Idle
    /\ x.pc \in Reporting => x.result # NoResult
    /\ x.result # NoResult => x.pc \in Unresolved \cup {"reconcile"}

Runs ==
    /\ \A w \in Workers : Running(run[w])
    /\ \A w \in Workers : run[w].pc \in Sending => run[w].number \in 1 .. dispatch[run[w].request].number
    /\ \A w \in Workers : run[w] # Idle => run[w].fence \in 1 .. job[run[w].request].fence
    /\ \A w, v \in Workers :
          w # v /\ run[w] # Idle /\ run[v].request = run[w].request => run[v].fence # run[w].fence

IInv == TypeOK /\ Money /\ Calls /\ Senders /\ Holders /\ Runs /\ JobTellsRequest
-----------------------------------------------------------------------------
(* Types                                                                   *)

JobRow == [state : {"ready", "leased", "completed", "dead_letter"}, fence : 0 .. MaxTries,
           live : BOOLEAN]
RequestRow == [state : States, day : 0 .. Days, hold : Nat, paid : Nat]
DispatchRow == [number : 0 .. MaxAttempts, fence : 0 .. MaxTries, outcome : Outcomes]
Sums == [reserved : Int, actual : Int]
RunState == [pc : Points, request : Requests \cup {NoRequest}, fence : 0 .. MaxTries,
             number : 0 .. MaxAttempts, result : Results \cup {NoResult}]
Call == [request : Requests, number : 0 .. MaxAttempts, result : Results]

(* The types by name. *)
LEMMA Types ==
    ASSUME TypeOK
    PROVE  /\ job \in [Requests -> JobRow]
           /\ request \in [Requests -> RequestRow]
           /\ dispatch \in [Requests -> DispatchRow]
           /\ sealed \in [Requests -> {"none", "result", "review"}]
           /\ books \in Sums
           /\ daily \in [1 .. Days -> Sums]
           /\ today \in 1 .. Days
           /\ bill \in [Requests -> Nat]
           /\ run \in [Workers -> RunState]
           /\ late \subseteq Call
BY DEF TypeOK, JobRow, RequestRow, DispatchRow, Sums, RunState, Call

(* A result has a class and a cost. *)
LEMMA ResultTypes ==
    ASSUME NEW result \in Results
    PROVE  /\ result.class \in {"success", "retry", "refused", "unknown", "mismatch"}
           /\ result.cost \in 0 .. Price
           /\ result.class \in Open => result.cost = 0
           /\ result # NoResult
BY ModelAssumption DEF Results, Result, Open, NoResult

(* What the amounts are: an attempt more costs Price more, and all of them *)
(* together are what is held.                                              *)
LEMMA Amounts ==
    /\ Price \in Nat /\ Price > 0
    /\ MaxAttempts \in Nat /\ MaxAttempts > 0
    /\ Hold \in Nat
    /\ \A n \in 0 .. MaxAttempts : Price * n \in Nat
    /\ \A n \in 1 .. MaxAttempts : Price * (n - 1) + Price = Price * n
    /\ \A n \in 0 .. MaxAttempts : Price * n <= Hold
<1>1. /\ Price \in Nat /\ Price > 0
      /\ MaxAttempts \in Nat /\ MaxAttempts > 0
    BY ModelAssumption
<1>2. Hold \in Nat
    BY <1>1 DEF Hold
<1>3. ASSUME NEW n \in Nat
      PROVE  Price * n \in Nat
    BY <1>1
<1>4. ASSUME NEW n \in 1 .. MaxAttempts
      PROVE  Price * (n - 1) + Price = Price * n
    BY <1>1
<1>5. ASSUME NEW n \in 0 .. MaxAttempts
      PROVE  Price * n <= Hold
    <2>1. PICK m \in Nat : n + m = MaxAttempts
        <3>1. MaxAttempts - n \in Nat /\ n + (MaxAttempts - n) = MaxAttempts
            BY <1>1
        <3> QED BY <3>1
    <2>2. Price * (n + m) = Price * n + Price * m
        BY <1>1
    <2>3. Price * m \in Nat /\ Price * n \in Nat
        BY <1>1, <1>3
    <2> QED BY <2>1, <2>2, <2>3 DEF Hold
<1> QED BY <1>1, <1>2, <1>3, <1>4, <1>5

(* And back. *)
LEMMA NextTypes ==
    ASSUME job' \in [Requests -> JobRow],
           request' \in [Requests -> RequestRow],
           dispatch' \in [Requests -> DispatchRow],
           sealed' \in [Requests -> {"none", "result", "review"}],
           account' \in [enabled : BOOLEAN, budget : Budgets, version : 0 .. MaxConfigurations],
           books' \in Sums,
           daily' \in [1 .. Days -> Sums],
           today' \in 1 .. Days,
           bill' \in [Requests -> Nat],
           run' \in [Workers -> RunState],
           late' \subseteq Call,
           faults' \in 0 .. MaxFaults
    PROVE  TypeOK'
BY DEF TypeOK, JobRow, RequestRow, DispatchRow, Sums, RunState, Call

(* The counted faults stay within their bound. *)
LEMMA FaultTypes ==
    ASSUME TypeOK, Fault \/ UNCHANGED faults
    PROVE  faults' \in 0 .. MaxFaults
<1>1. faults \in 0 .. MaxFaults
    BY DEF TypeOK
<1>2. MaxFaults \in Nat
    BY ModelAssumption
<1> QED BY <1>1, <1>2 DEF Fault
-----------------------------------------------------------------------------
(* A run on its way                                                        *)

(* What a run that goes on keeps of what it knows. *)
Calm(y, x) ==
    /\ y.pc # "post"
    /\ y.result # NoResult =>
          y.request = x.request /\ y.fence = x.fence /\ y.number = x.number /\ y.result = x.result

(* A run at work has a request. *)
LEMMA AtWork ==
    ASSUME TypeOK, Runs, NEW w \in Workers, run[w].pc # "idle"
    PROVE  /\ run[w] # Idle
           /\ run[w].request \in Requests
BY Types DEF Runs, Running, RunState, Idle, At

(* A run that goes on without having sent or asked anything new. *)
LEMMA GoesOn ==
    ASSUME TypeOK, Runs, NEW w \in Workers, run[w].pc # "idle",
           NEW pc \in Points \ {"idle", "post", "reconcile"}, Goto(w, pc),
           pc \in Reporting => run[w].result # NoResult,
           pc \in Sending => run[w].pc \in Sending
    PROVE  /\ run' \in [Workers -> RunState]
           /\ run' = [run EXCEPT ![w] = run'[w]]
           /\ run'[w] # Idle
           /\ run'[w].request = run[w].request
           /\ run'[w].fence = run[w].fence
           /\ Running(run'[w])
           /\ Calm(run'[w], run[w])
           /\ run'[w].pc \in Sending => run[w].pc \in Sending /\ run'[w].number = run[w].number
<1> DEFINE y == At(pc, run[w].request, run[w].fence,
                   IF pc \in Unresolved THEN run[w].number ELSE 0,
                   IF pc \in Unresolved THEN run[w].result ELSE NoResult)
<1>1. /\ run \in [Workers -> RunState]
      /\ run[w] \in RunState
    BY Types
<1>2. run' = [run EXCEPT ![w] = y] /\ run'[w] = y
    BY <1>1 DEF Goto
<1>3. run[w].request \in Requests /\ run[w].request # NoRequest
    BY AtWork, ModelAssumption
<1>4. /\ y.pc = pc /\ y.request = run[w].request /\ y.fence = run[w].fence
      /\ y.number = IF pc \in Unresolved THEN run[w].number ELSE 0
      /\ y.result = IF pc \in Unresolved THEN run[w].result ELSE NoResult
    BY DEF At
<1>5. y \in RunState
    <2>1. 0 \in 0 .. MaxAttempts
        BY ModelAssumption
    <2> QED BY <1>1, <2>1 DEF At, RunState
<1>6. pc \in Sending => pc \in Unresolved
    BY DEF Sending, Reporting, Unresolved
<1>7. pc \in Reporting => pc \in Unresolved
    BY DEF Reporting, Unresolved
<1>8. y # Idle
    BY <1>4 DEF Idle, At
<1>9. Running(y)
    BY <1>3, <1>4, <1>7 DEF Running
<1>10. Calm(y, run[w])
    BY <1>4 DEF Calm
<1>11. y.pc \in Sending => run[w].pc \in Sending /\ y.number = run[w].number
    BY <1>4, <1>6
<1> HIDE DEF y
<1>12. run' \in [Workers -> RunState] /\ run' = [run EXCEPT ![w] = run'[w]]
    BY <1>1, <1>2, <1>5
<1> QED BY <1>2, <1>4, <1>8, <1>9, <1>10, <1>11, <1>12

(* A run that ends. *)
LEMMA Rests ==
    ASSUME TypeOK, NEW w \in Workers, Rest(w)
    PROVE  /\ run' \in [Workers -> RunState]
           /\ run' = [run EXCEPT ![w] = run'[w]]
           /\ run'[w] = Idle
           /\ Running(run'[w])
           /\ Calm(run'[w], run[w])
           /\ run'[w].pc \notin Sending
<1>1. run \in [Workers -> RunState]
    BY Types
<1>2. Idle \in RunState
    BY ModelAssumption DEF Idle, At, RunState, Points
<1>3. Running(Idle) /\ Idle.pc \notin Sending /\ Calm(Idle, run[w])
    BY DEF Running, Calm, Idle, At, Sending, Reporting
<1> QED BY <1>1, <1>2, <1>3 DEF Rest

(* The fences and numbers of the runs, when one of them moves. *)
LEMMA RunsKept ==
    ASSUME TypeOK, TypeOK', Runs, NEW w \in Workers,
           run' = [run EXCEPT ![w] = run'[w]],
           run'[w] = Idle \/
             (run[w] # Idle /\ run'[w].request = run[w].request /\ run'[w].fence = run[w].fence),
           Running(run'[w]),
           run'[w].pc \in Sending => run'[w].number \in 1 .. dispatch'[run'[w].request].number,
           \A r \in Requests : dispatch'[r].number >= dispatch[r].number,
           \A r \in Requests : job'[r].fence >= job[r].fence
    PROVE  Runs'
<1>1. /\ run \in [Workers -> RunState] /\ run' \in [Workers -> RunState]
      /\ dispatch \in [Requests -> DispatchRow] /\ dispatch' \in [Requests -> DispatchRow]
      /\ job \in [Requests -> JobRow] /\ job' \in [Requests -> JobRow]
    BY Types DEF TypeOK, JobRow, DispatchRow, RunState
<1>2. \A v \in Workers \ {w} : run'[v] = run[v]
    BY <1>1
<1>3. \A v \in Workers : Running(run'[v])
    BY <1>2 DEF Runs
<1>4. \A v \in Workers : run'[v] # Idle => run'[v].request \in Requests
    BY <1>1, <1>3 DEF Running, RunState
<1>5. ASSUME NEW v \in Workers, run'[v].pc \in Sending
      PROVE  run'[v].number \in 1 .. dispatch'[run'[v].request].number
    <2>1. CASE v = w
        BY <1>5, <2>1
    <2>2. CASE v # w
        <3>1. run'[v] = run[v]
            BY <1>2, <2>2
        <3>2. run[v].request \in Requests
            BY <1>4, <1>5, <3>1 DEF Idle, At, Sending, Reporting
        <3>3. run[v].number \in 1 .. dispatch[run[v].request].number
            BY <1>5, <3>1 DEF Runs
        <3>4. dispatch[run[v].request].number \in Nat /\ dispatch'[run[v].request].number \in Nat
            BY <1>1, <3>2, ModelAssumption DEF DispatchRow
        <3>5. dispatch'[run[v].request].number >= dispatch[run[v].request].number
            BY <3>2
        <3> QED BY <3>1, <3>3, <3>4, <3>5
    <2> QED BY <2>1, <2>2
<1>6. ASSUME NEW v \in Workers, run'[v] # Idle
      PROVE  run'[v].fence \in 1 .. job'[run'[v].request].fence
    <2>1. run[v] # Idle /\ run'[v].request = run[v].request /\ run'[v].fence = run[v].fence
        BY <1>2, <1>6
    <2>2. run[v].request \in Requests
        BY <1>4, <1>6, <2>1
    <2>3. run[v].fence \in 1 .. job[run[v].request].fence
        BY <2>1 DEF Runs
    <2>4. job[run[v].request].fence \in Nat /\ job'[run[v].request].fence \in Nat
        BY <1>1, <2>2, ModelAssumption DEF JobRow
    <2>5. job'[run[v].request].fence >= job[run[v].request].fence
        BY <2>2
    <2> QED BY <2>1, <2>3, <2>4, <2>5
<1>7. ASSUME NEW v \in Workers, NEW u \in Workers, v # u, run'[v] # Idle,
             run'[u].request = run'[v].request
      PROVE  run'[u].fence # run'[v].fence
    <2>1. run[v] # Idle /\ run'[v].request = run[v].request /\ run'[v].fence = run[v].fence
        BY <1>2, <1>7
    <2>2. run'[u] # Idle
        BY <1>3, <1>4, <1>7, ModelAssumption DEF Running, Idle, At
    <2>3. run[u] # Idle /\ run'[u].request = run[u].request /\ run'[u].fence = run[u].fence
        BY <1>2, <2>2
    <2> QED BY <1>7, <2>1, <2>3 DEF Runs
<1> QED BY <1>3, <1>5, <1>6, <1>7 DEF Runs
-----------------------------------------------------------------------------
(* What is known of a request                                              *)

(* The ledger leaves a request alone, authorizes another attempt, gives up *)
(* on the last one or learns what became of it.                            *)
Same(q, d, q2, d2) == d2 = d /\ q2.paid = q.paid
Raised(d, d2) == d.outcome \in {"none", "retry"} /\ d2.number = d.number + 1
GivenUp(q, d, q2, d2) == d2 = Sent(d.number, d.fence, "quarantined") /\ q2.paid = q.paid
Resolved(d, d2) ==
    d2.number = d.number /\ d2.fence = d.fence /\ d2.outcome \notin {"pending", "quarantined"}

Moves(q, d, q2, d2) ==
    \/ Same(q, d, q2, d2)
    \/ Raised(d, d2)
    \/ GivenUp(q, d, q2, d2)
    \/ Resolved(d, d2)

(* What is known of a result stays true. *)
LEMMA KnownStays ==
    ASSUME NEW q, NEW d, NEW q2, NEW d2, NEW b, NEW number, NEW result,
           d.number \in Nat, Known(number, result, q, d, b), Moves(q, d, q2, d2)
    PROVE  Known(number, result, q2, d2, b)
<1>1. CASE Same(q, d, q2, d2)
    BY <1>1 DEF Same, Known
<1>2. CASE Raised(d, d2)
    BY <1>2 DEF Raised, Known
<1>3. CASE GivenUp(q, d, q2, d2)
    <2>1. d2.number = d.number /\ d2.outcome = "quarantined"
        BY <1>3 DEF GivenUp, Sent
    <2> QED BY <2>1 DEF Known
<1>4. CASE Resolved(d, d2)
    BY <1>4 DEF Resolved, Known
<1> QED BY <1>1, <1>2, <1>3, <1>4 DEF Moves

(* So does what the holder of a result knows. *)
LEMMA HolderStays ==
    ASSUME NEW q, NEW d, NEW q2, NEW d2, NEW b, NEW x,
           d.number \in Nat, Holder(x, q, d, b), Moves(q, d, q2, d2)
    PROVE  Holder(x, q2, d2, b)
<1>1. Known(x.number, x.result, q2, d2, b)
    BY KnownStays DEF Holder
<1>2. x.number \in 1 .. d.number
    BY DEF Holder, Known
<1>3. x.number = d2.number => x.fence = d2.fence
    <2>1. CASE Same(q, d, q2, d2)
        BY <2>1 DEF Same, Holder
    <2>2. CASE Raised(d, d2)
        BY <1>2, <2>2 DEF Raised
    <2>3. CASE GivenUp(q, d, q2, d2)
        <3>1. d2.number = d.number /\ d2.fence = d.fence
            BY <2>3 DEF GivenUp, Sent
        <3> QED BY <3>1 DEF Holder
    <2>4. CASE Resolved(d, d2)
        BY <2>4 DEF Resolved, Holder
    <2> QED BY <2>1, <2>2, <2>3, <2>4 DEF Moves
<1> QED BY <1>1, <1>3 DEF Holder

(* And a sender keeps its dispatch until it has sent. *)
LEMMA SenderStays ==
    ASSUME NEW q, NEW d, NEW q2, NEW d2, NEW b, NEW x,
           Sender(x, q, d, b), Moves(q, d, q2, d2), ~Resolved(d, d2)
    PROVE  Sender(x, q2, d2, b)
<1>1. CASE Same(q, d, q2, d2)
    BY <1>1 DEF Same, Sender
<1>2. CASE Raised(d, d2)
    BY <1>2 DEF Raised, Sender
<1>3. CASE GivenUp(q, d, q2, d2)
    <2>1. d2.number = d.number /\ d2.fence = d.fence /\ d2.outcome = "quarantined" /\ q2.paid = q.paid
        BY <1>3 DEF GivenUp, Sent
    <2> QED BY <2>1 DEF Sender
<1> QED BY <1>1, <1>2, <1>3 DEF Moves

(* A late call that comes to be tells the truth and is nobody's to send. *)
Fresh(call) ==
    /\ Known(call.number, call.result, request[call.request], dispatch[call.request],
             bill[call.request])
    /\ \A w \in Workers :
          run[w].pc = "post" /\ run[w].request = call.request => run[w].number # call.number

(* A step of the ledger about one request, and of a run that does not send. *)
LEMMA KnowledgeKept ==
    ASSUME TypeOK, TypeOK', Runs, Calls, Senders, Holders, NEW r \in Requests,
           bill' = bill,
           \A call \in late' : call \in late \/ Fresh(call),
           \A s \in Requests \ {r} : dispatch'[s] = dispatch[s] /\ request'[s].paid = request[s].paid,
           Moves(request[r], dispatch[r], request'[r], dispatch'[r]),
           Resolved(dispatch[r], dispatch'[r]) /\ dispatch'[r] # dispatch[r] =>
               \A w \in Workers : run[w].pc = "post" => run[w].request # r
    PROVE  /\ Calls'
           /\ \A w \in Workers : run'[w] = run[w] \/ Calm(run'[w], run[w]) => Sends(w)' /\ Knows(w)'
<1>1. /\ run \in [Workers -> RunState] /\ run' \in [Workers -> RunState]
      /\ dispatch \in [Requests -> DispatchRow]
      /\ request \in [Requests -> RequestRow]
      /\ late \subseteq Call /\ late' \subseteq Call
    BY Types DEF TypeOK, RunState, Call
<1>2. \A s \in Requests : dispatch[s].number \in Nat
    BY <1>1, ModelAssumption DEF DispatchRow
<1>3. \A s \in Requests : Moves(request[s], dispatch[s], request'[s], dispatch'[s])
    BY DEF Moves, Same
<1>4. ASSUME NEW call \in late'
      PROVE  Known(call.number, call.result, request'[call.request], dispatch'[call.request],
                   bill'[call.request])
    <2>1. call.request \in Requests
        BY <1>1 DEF Call
    <2>2. Known(call.number, call.result, request[call.request], dispatch[call.request],
                bill[call.request])
        BY DEF Calls, Fresh
    <2> QED BY <1>2, <1>3, <2>1, <2>2, KnownStays
<1>5. ASSUME NEW w \in Workers, run'[w] = run[w] \/ Calm(run'[w], run[w])
      PROVE  Sends(w)'
    <2> SUFFICES ASSUME run'[w].pc = "post"
                 PROVE  Sends(w)'
        BY DEF Sends
    <2>1. run'[w] = run[w] /\ run[w].pc = "post"
        BY <1>5 DEF Calm
    <2>2. PICK s \in Requests : s = run[w].request
        BY <2>1, AtWork
    <2>3. /\ Sender(run[w], request[s], dispatch[s], bill[s])
          /\ \A call \in late : call.request = s => call.number # run[w].number
        BY <2>1, <2>2 DEF Senders, Sends
    <2>4. Sender(run[w], request'[s], dispatch'[s], bill[s])
        <3>1. CASE Resolved(dispatch[s], dispatch'[s])
            <4>1. dispatch'[s] = dispatch[s]
                BY <2>1, <2>2, <3>1
            <4>2. dispatch[s].outcome \in {"pending", "quarantined"}
                BY <2>3 DEF Sender
            <4> QED BY <3>1, <4>1, <4>2 DEF Resolved
        <3>2. CASE ~Resolved(dispatch[s], dispatch'[s])
            BY <1>3, <2>3, <3>2, SenderStays
        <3> QED BY <3>1, <3>2
    <2>5. \A call \in late' : call.request = s => call.number # run[w].number
        BY <2>1, <2>2, <2>3 DEF Fresh
    <2> QED BY <2>1, <2>2, <2>4, <2>5 DEF Sends
<1>6. ASSUME NEW w \in Workers, run'[w] = run[w] \/ Calm(run'[w], run[w])
      PROVE  Knows(w)'
    <2> SUFFICES ASSUME run'[w].result # NoResult
                 PROVE  Knows(w)'
        BY DEF Knows
    <2>1. /\ run'[w].request = run[w].request /\ run'[w].fence = run[w].fence
          /\ run'[w].number = run[w].number /\ run'[w].result = run[w].result
        BY <1>6 DEF Calm
    <2>2. PICK s \in Requests : s = run[w].request
        <3>1. run[w].pc # "idle"
            BY <2>1 DEF Runs, Running, Idle, At
        <3> QED BY <3>1, AtWork
    <2>3. Holder(run[w], request[s], dispatch[s], bill[s])
        BY <2>1, <2>2 DEF Holders, Knows
    <2>4. Holder(run[w], request'[s], dispatch'[s], bill[s])
        BY <1>2, <1>3, <2>3, HolderStays
    <2>5. Holder(run'[w], request'[s], dispatch'[s], bill[s])
        BY <2>1, <2>4 DEF Holder
    <2> QED BY <2>1, <2>2, <2>5 DEF Knows
<1> QED BY <1>4, <1>5, <1>6 DEF Calls
-----------------------------------------------------------------------------
(* The money of one request                                                *)

(* An uncertain dispatch can be billed for once more and stays within what *)
(* is held.                                                                *)
LEMMA WithinHold ==
    ASSUME NEW q \in RequestRow, NEW d \in DispatchRow, NEW b \in Nat, Uncertain(q, d, b)
    PROVE  /\ q.paid + Price <= Price * d.number
           /\ Price * d.number \in Nat
           /\ q.paid + Price <= Hold
<1>1. d.number \in 1 .. MaxAttempts /\ q.paid \in Nat
    BY DEF Uncertain, RequestRow
<1>2. d.number - 1 \in 0 .. MaxAttempts
    BY <1>1, Amounts
<1>3. /\ Price * (d.number - 1) \in Nat
      /\ Price * (d.number - 1) + Price = Price * d.number
      /\ Price * d.number \in Nat
      /\ Price * d.number <= Hold
    <2>1. PICK n \in 1 .. MaxAttempts : n = d.number
        BY <1>1
    <2>2. n \in 0 .. MaxAttempts /\ n - 1 \in 0 .. MaxAttempts
        BY <1>1, <1>2, <2>1, Amounts
    <2>3. Price * (n - 1) \in Nat /\ Price * n \in Nat
        BY <2>2, Amounts
    <2>4. Price * (n - 1) + Price = Price * n
        BY Amounts
    <2>5. Price * n <= Hold
        BY <2>2, Amounts
    <2> QED BY <2>1, <2>3, <2>4, <2>5
<1>4. q.paid <= Price * (d.number - 1)
    BY DEF Uncertain
<1> QED BY <1>1, <1>3, <1>4, Amounts

(* A reservation. *)
LEMMA ReservedAccounts ==
    ASSUME NEW q \in RequestRow, NEW d \in DispatchRow, NEW b \in Nat, Accounted(q, d, b),
           q.state = "planned", NEW day
    PROVE  /\ Accounted(Row("reserved", day, Hold, 0), d, b)
           /\ Accounted(Row("review_required", 0, 0, 0), d, b)
<1>1. d.number = 0 /\ d.outcome = "none" /\ b = 0
    BY DEF Accounted, Untouched
<1>2. Price * 0 = 0
    BY Amounts
<1>3. Waiting(Row("reserved", day, Hold, 0), d, b)
    BY <1>1, <1>2, Amounts DEF Waiting, Row
<1>4. Closed(Row("review_required", 0, 0, 0), d, b)
    BY <1>1 DEF Closed, Row
<1> QED BY <1>1, <1>3, <1>4 DEF Accounted, Row, Final, Doubts, Open

(* An authorization, or its refusal. *)
LEMMA BegunAccounts ==
    ASSUME NEW q \in RequestRow, NEW d \in DispatchRow, NEW b \in Nat, Accounted(q, d, b),
           q.state = "reserved", NEW fence
    PROVE  /\ Accounted(Row("in_flight", q.day, q.hold, q.paid),
                        Sent(d.number + 1, fence, "pending"), b)
           /\ Accounted(Row("review_required", q.day, 0, q.paid), d, b)
<1>1. Waiting(q, d, b)
    BY DEF Accounted
<1>2. d.number \in Nat /\ q.paid \in Nat /\ q.hold \in Nat
    BY ModelAssumption DEF DispatchRow, RequestRow
<1>3. d.number + 1 \in 1 .. MaxAttempts /\ (d.number + 1) - 1 = d.number
    BY <1>1, <1>2, Amounts DEF Waiting
<1>4. Uncertain(Row("in_flight", q.day, q.hold, q.paid), Sent(d.number + 1, fence, "pending"), b)
    <2> DEFINE q2 == Row("in_flight", q.day, q.hold, q.paid)
               d2 == Sent(d.number + 1, fence, "pending")
    <2>1. q2.hold = q.hold /\ q2.paid = q.paid /\ d2.number = d.number + 1
        BY DEF Row, Sent
    <2>2. q.hold + q.paid = Hold /\ q.paid <= Price * d.number /\ b = q.paid
        BY <1>1 DEF Waiting
    <2> HIDE DEF q2, d2
    <2>3. Price * (d2.number - 1) = Price * d.number
        BY <1>3, <2>1
    <2>4. b <= q.paid + Price
        BY <1>2, <2>2, Amounts
    <2>5. Uncertain(q2, d2, b)
        BY <1>2, <1>3, <2>1, <2>2, <2>3, <2>4 DEF Uncertain
    <2> QED BY <2>5 DEF q2, d2
<1>5. Closed(Row("review_required", q.day, 0, q.paid), d, b)
    BY <1>1 DEF Closed, Row, Waiting
<1>6. d.outcome \notin Doubts \cup {"pending"}
    BY <1>1 DEF Waiting, Doubts, Open
<1>7. Accounted(Row("in_flight", q.day, q.hold, q.paid), Sent(d.number + 1, fence, "pending"), b)
    BY <1>4 DEF Accounted, Row, Sent, Final, Doubts, Open
<1>8. Accounted(Row("review_required", q.day, 0, q.paid), d, b)
    BY <1>5, <1>6 DEF Accounted, Row, Final
<1> QED BY <1>7, <1>8

(* A result nobody can rely on, or no result at all. *)
LEMMA DoubtAccounts ==
    ASSUME NEW q \in RequestRow, NEW d \in DispatchRow, NEW b \in Nat, Accounted(q, d, b),
           d.outcome = "pending", NEW outcome \in Doubts,
           NEW state \in {"review_required", "outcome_unknown"}
    PROVE  Accounted(Row(state, q.day, q.hold, q.paid), Sent(d.number, d.fence, outcome), b)
<1>1. Uncertain(q, d, b)
    BY DEF Accounted
<1>2. Uncertain(Row(state, q.day, q.hold, q.paid), Sent(d.number, d.fence, outcome), b)
    BY <1>1 DEF Uncertain, Row, Sent
<1>3. outcome # "pending"
    BY DEF Doubts, Open
<1> QED BY <1>2, <1>3 DEF Accounted, Row, Sent

(* A result to rely on: the last one, or one that is to be tried again. *)
LEMMA BookedAccounts ==
    ASSUME NEW q \in RequestRow, NEW d \in DispatchRow, NEW b \in Nat, Accounted(q, d, b),
           d.outcome = "pending", NEW class \in {"success", "retry", "refused"},
           NEW cost \in 0 .. Price, cost <= q.hold, b = q.paid + cost
    PROVE  /\ \A state \in Final :
                 Accounted(Row(state, q.day, 0, q.paid + cost), Sent(d.number, d.fence, class), b)
           /\ d.number < MaxAttempts =>
                 Accounted(Row("reserved", q.day, q.hold - cost, q.paid + cost),
                           Sent(d.number, d.fence, "retry"), b)
<1>1. Uncertain(q, d, b)
    BY DEF Accounted
<1>2. q.hold \in Nat /\ q.paid \in Nat /\ cost \in Nat /\ cost <= Price
    BY Amounts DEF RequestRow
<1>3. class \notin Doubts \cup {"pending"}
    BY DEF Doubts, Open
<1>4. ASSUME NEW state \in Final
      PROVE  Accounted(Row(state, q.day, 0, q.paid + cost), Sent(d.number, d.fence, class), b)
    <2> DEFINE q2 == Row(state, q.day, 0, q.paid + cost)
               d2 == Sent(d.number, d.fence, class)
    <2>1. q2.state = state /\ d2.outcome = class
        BY DEF Row, Sent
    <2>2. Closed(q2, d2, b)
        BY DEF Closed, Row
    <2> HIDE DEF q2, d2
    <2>3. Accounted(q2, d2, b)
        BY <1>3, <2>1, <2>2 DEF Accounted, Final
    <2> QED BY <2>3 DEF q2, d2
<1>5. ASSUME d.number < MaxAttempts
      PROVE  Accounted(Row("reserved", q.day, q.hold - cost, q.paid + cost),
                       Sent(d.number, d.fence, "retry"), b)
    <2> DEFINE q2 == Row("reserved", q.day, q.hold - cost, q.paid + cost)
               d2 == Sent(d.number, d.fence, "retry")
    <2>1. /\ q2.state = "reserved" /\ q2.hold = q.hold - cost /\ q2.paid = q.paid + cost
          /\ d2.number = d.number /\ d2.outcome = "retry"
        BY DEF Row, Sent
    <2> HIDE DEF q2, d2
    <2>2. q.hold + q.paid = Hold
        BY <1>1 DEF Uncertain
    <2>3. q2.hold + q2.paid = Hold
        BY <1>2, <2>1, <2>2
    <2>4. q2.paid <= Price * d2.number
        BY <1>1, <1>2, <2>1, WithinHold, Amounts
    <2>5. Waiting(q2, d2, b)
        BY <1>5, <2>1, <2>3, <2>4 DEF Waiting
    <2>6. Accounted(q2, d2, b)
        BY <2>1, <2>5 DEF Accounted, Doubts, Open, Final
    <2> QED BY <2>6 DEF q2, d2
<1> QED BY <1>4, <1>5

(* The bill of a dispatch that is out. *)
LEMMA BilledAccounts ==
    ASSUME NEW q \in RequestRow, NEW d \in DispatchRow, NEW b \in Nat, Accounted(q, d, b),
           d.outcome \in {"pending", "quarantined"}, b = q.paid, NEW cost \in 0 .. Price
    PROVE  /\ Uncertain(q, d, b)
           /\ Accounted(q, d, b + cost)
<1>1. Uncertain(q, d, b)
    <2>1. CASE d.outcome = "pending"
        BY <2>1 DEF Accounted
    <2>2. CASE d.outcome = "quarantined"
        BY <2>2 DEF Accounted, Doubts
    <2> QED BY <2>1, <2>2
<1>2. q.paid \in Nat /\ cost \in Nat /\ cost <= Price
    BY Amounts DEF RequestRow
<1>3. Uncertain(q, d, b + cost)
    BY <1>1, <1>2, Amounts DEF Uncertain
<1>4. q.state \in {"in_flight", "review_required", "outcome_unknown"}
    BY DEF Accounted, Doubts
<1>5. q.state = "in_flight" \/ d.outcome \in Doubts
    BY DEF Accounted, Doubts
<1> QED BY <1>1, <1>3, <1>4, <1>5 DEF Accounted, Final
-----------------------------------------------------------------------------
(* The steps                                                               *)

(* A run that goes on, or ends, and leaves the ledger alone. *)
GoingOn(w) ==
    /\ run' = [run EXCEPT ![w] = run'[w]]
    /\ run'[w] = Idle \/
         (run[w] # Idle /\ run'[w].request = run[w].request /\ run'[w].fence = run[w].fence)
    /\ Running(run'[w])
    /\ Calm(run'[w], run[w])
    /\ run'[w].pc \in Sending =>
          run[w].pc \in Sending /\ run'[w].request = run[w].request /\ run'[w].number = run[w].number

(* Of a run that goes on the knowledge and the numbers stay right while    *)
(* the ledger moves on.                                                    *)
LEMMA GoingOnRuns ==
    ASSUME TypeOK, TypeOK', Runs, NEW w \in Workers, GoingOn(w),
           \A r \in Requests : dispatch'[r].number >= dispatch[r].number,
           \A r \in Requests : job'[r].fence >= job[r].fence
    PROVE  /\ Runs'
           /\ \A v \in Workers : run'[v] = run[v] \/ Calm(run'[v], run[v])
<1>1. run \in [Workers -> RunState] /\ dispatch \in [Requests -> DispatchRow]
      /\ dispatch' \in [Requests -> DispatchRow]
    BY Types DEF TypeOK, DispatchRow
<1>2. ASSUME run'[w].pc \in Sending
      PROVE  run'[w].number \in 1 .. dispatch'[run'[w].request].number
    <2>1. run[w].pc \in Sending /\ run'[w].request = run[w].request /\ run'[w].number = run[w].number
        BY <1>2 DEF GoingOn
    <2>2. run[w].request \in Requests
        BY <2>1, AtWork DEF Sending, Reporting
    <2>3. run[w].number \in 1 .. dispatch[run[w].request].number
        BY <2>1 DEF Runs
    <2>4. dispatch[run[w].request].number \in Nat /\ dispatch'[run[w].request].number \in Nat
        BY <1>1, <2>2, ModelAssumption DEF DispatchRow
    <2>5. dispatch'[run[w].request].number >= dispatch[run[w].request].number
        BY <2>2
    <2> QED BY <2>1, <2>3, <2>4, <2>5
<1>3. Runs'
    BY <1>2, RunsKept DEF GoingOn
<1>4. \A v \in Workers \ {w} : run'[v] = run[v]
    BY <1>1 DEF GoingOn
<1> QED BY <1>3, <1>4 DEF GoingOn

(* Nobody moves. *)
LEMMA NobodyMoves ==
    ASSUME TypeOK, TypeOK', Runs, run' = run,
           \A r \in Requests : dispatch'[r].number >= dispatch[r].number,
           \A r \in Requests : job'[r].fence >= job[r].fence
    PROVE  Runs'
<1>1. CASE Workers = {}
    BY <1>1 DEF Runs
<1>2. CASE Workers # {}
    <2>1. PICK w \in Workers : TRUE
        BY <1>2
    <2>2. run \in [Workers -> RunState]
        BY Types
    <2>3. run' = [run EXCEPT ![w] = run'[w]] /\ run'[w] = run[w]
        BY <2>2
    <2>4. Running(run[w])
        BY DEF Runs
    <2>5. run[w].pc \in Sending => run[w].number \in 1 .. dispatch[run[w].request].number
        BY DEF Runs
    <2>6. run[w].pc \in Sending => run[w].number \in 1 .. dispatch'[run[w].request].number
        <3> SUFFICES ASSUME run[w].pc \in Sending
                     PROVE  run[w].number \in 1 .. dispatch'[run[w].request].number
            OBVIOUS
        <3>1. run[w].request \in Requests
            BY AtWork DEF Sending, Reporting
        <3>2. /\ dispatch[run[w].request].number \in Nat
              /\ dispatch'[run[w].request].number \in Nat
            <4>1. dispatch \in [Requests -> DispatchRow] /\ dispatch' \in [Requests -> DispatchRow]
                BY DEF TypeOK, DispatchRow
            <4> QED BY <3>1, <4>1, ModelAssumption DEF DispatchRow
        <3>3. dispatch'[run[w].request].number >= dispatch[run[w].request].number
            BY <3>1
        <3> QED BY <2>5, <3>2, <3>3
    <2>7. Running(run'[w])
        BY <2>3, <2>4
    <2>8. run'[w].pc \in Sending => run'[w].number \in 1 .. dispatch'[run'[w].request].number
        BY <2>3, <2>6
    <2>9. run'[w] = Idle \/
            (run[w] # Idle /\ run'[w].request = run[w].request /\ run'[w].fence = run[w].fence)
        BY <2>3
    <2> QED BY <2>3, <2>7, <2>8, <2>9, RunsKept
<1> QED BY <1>1, <1>2

(* A step of the ledger about a request that has not come to its end. *)
LEMMA LedgerStep ==
    ASSUME IInv, TypeOK', Runs', NEW r \in Requests,
           request' = [request EXCEPT ![r] = request'[r]],
           dispatch' = [dispatch EXCEPT ![r] = dispatch'[r]],
           UNCHANGED <<job, sealed, bill>>,
           request[r].state \notin Final,
           Accounted(request'[r], dispatch'[r], bill[r]),
           Moves(request[r], dispatch[r], request'[r], dispatch'[r]),
           Resolved(dispatch[r], dispatch'[r]) /\ dispatch'[r] # dispatch[r] =>
               \A w \in Workers : run[w].pc = "post" => run[w].request # r,
           late' \subseteq late,
           \A w \in Workers : run'[w] = run[w] \/ Calm(run'[w], run[w]) \/ (Sends(w)' /\ Knows(w)')
    PROVE  IInv'
<1>1. /\ request \in [Requests -> RequestRow] /\ dispatch \in [Requests -> DispatchRow]
      /\ TypeOK
    BY Types DEF IInv
<1>2. \A s \in Requests \ {r} : dispatch'[s] = dispatch[s] /\ request'[s] = request[s]
    BY <1>1
<1>3. Money'
    BY <1>2 DEF IInv, Money
<1>4. /\ Calls'
      /\ \A w \in Workers : run'[w] = run[w] \/ Calm(run'[w], run[w]) => Sends(w)' /\ Knows(w)'
    BY <1>2, KnowledgeKept DEF IInv
<1>5. Senders' /\ Holders'
    BY <1>4 DEF Senders, Holders
<1>6. sealed[r] = "none" /\ job[r].state # "completed"
    <2>1. sealed[r] \in {"none", "result", "review"}
        BY <1>1, Types
    <2>2. sealed[r] = "none"
        BY <2>1 DEF IInv, JobTellsRequest, Final
    <2> QED BY <2>2 DEF IInv, JobTellsRequest
<1>7. JobTellsRequest'
    BY <1>2, <1>6 DEF IInv, JobTellsRequest
<1> QED BY <1>3, <1>4, <1>5, <1>7 DEF IInv

(* A step that leaves the ledger alone. *)
LEMMA OtherStep ==
    ASSUME IInv, TypeOK', Runs', UNCHANGED <<request, dispatch, bill, late>>, JobTellsRequest',
           \A w \in Workers : run'[w] = run[w] \/ Calm(run'[w], run[w])
    PROVE  IInv'
<1>1. Money'
    BY DEF IInv, Money
<1>2. CASE Requests = {}
    <2>1. late = {} /\ \A w \in Workers : run[w] = Idle
        <3>1. late \subseteq Call /\ run \in [Workers -> RunState]
            BY Types DEF IInv
        <3>2. \A w \in Workers : Running(run[w])
            BY DEF IInv, Runs
        <3>3. late = {}
            BY <1>2, <3>1 DEF Call
        <3>4. \A w \in Workers : run[w].pc = "idle"
            BY <1>2, AtWork DEF IInv
        <3> QED BY <3>2, <3>3, <3>4 DEF Running
    <2>2. \A w \in Workers : run'[w].pc # "post" /\ run'[w].result = NoResult
        BY <2>1 DEF Calm, Idle, At
    <2> QED BY <1>1, <2>1, <2>2 DEF IInv, Calls, Senders, Sends, Holders, Knows
<1>3. CASE Requests # {}
    <2>1. PICK r \in Requests : TRUE
        BY <1>3
    <2>2. Moves(request[r], dispatch[r], request'[r], dispatch'[r])
        BY DEF Moves, Same
    <2>3. Calls' /\ \A w \in Workers : Sends(w)' /\ Knows(w)'
        BY <2>2, KnowledgeKept DEF IInv
    <2> QED BY <1>1, <2>3 DEF IInv, Senders, Holders
<1> QED BY <1>2, <1>3

(* The four ways on from a request that has been sent. *)
LEMMA Routes ==
    ASSUME NEW state, NEW otherwise
    PROVE  Route(state, otherwise) \in {"seal_result", "seal_review", "fail", otherwise}
BY DEF Route

(* To go on, or to rest, is to be going on. *)
LEMMA GoesOnGoing ==
    ASSUME TypeOK, Runs, NEW w \in Workers, run[w].pc # "idle",
           NEW pc \in Points \ {"idle", "post", "reconcile"}, Goto(w, pc),
           pc \in Reporting => run[w].result # NoResult,
           pc \in Sending => run[w].pc \in Sending
    PROVE  run' \in [Workers -> RunState] /\ GoingOn(w)
<1>1. run[w] # Idle
    BY AtWork
<1> QED BY <1>1, GoesOn DEF GoingOn

(* A run that ends is one that goes on. *)
LEMMA RestsGoing ==
    ASSUME TypeOK, NEW w \in Workers, Rest(w)
    PROVE  run' \in [Workers -> RunState] /\ GoingOn(w)
BY Rests DEF GoingOn

(* Dispatches and claims are counted. *)
LEMMA Counted ==
    ASSUME TypeOK
    PROVE  \A r \in Requests : dispatch[r].number \in Nat /\ job[r].fence \in Nat
<1>1. \A r \in Requests : dispatch[r] \in DispatchRow /\ job[r] \in JobRow
    BY Types
<1> QED BY <1>1, ModelAssumption DEF DispatchRow, JobRow

(* A run goes on, or ends, and changes nothing else. *)
LEMMA QuietStep ==
    ASSUME IInv, NEW w \in Workers, run' \in [Workers -> RunState], GoingOn(w),
           Fault \/ UNCHANGED faults,
           UNCHANGED <<jobs, ledger, account, today, bill, late>>
    PROVE  IInv'
<1>1. TypeOK
    BY DEF IInv
<1>2. faults' \in 0 .. MaxFaults
    BY <1>1, FaultTypes
<1>3. TypeOK'
    BY <1>1, <1>2, Types, NextTypes DEF TypeOK, jobs, ledger
<1>4. /\ \A r \in Requests : dispatch'[r].number >= dispatch[r].number
      /\ \A r \in Requests : job'[r].fence >= job[r].fence
    <2>1. \A r \in Requests : dispatch[r].number \in Nat /\ job[r].fence \in Nat
        BY <1>1, Counted
    <2> QED BY <2>1 DEF jobs, ledger
<1>5. /\ Runs'
      /\ \A v \in Workers : run'[v] = run[v] \/ Calm(run'[v], run[v])
    BY <1>1, <1>3, <1>4, GoingOnRuns DEF IInv
<1>6. JobTellsRequest'
    BY DEF IInv, JobTellsRequest, jobs, ledger
<1> QED BY <1>3, <1>5, <1>6, OtherStep DEF ledger

(* A look at the request only decides how the run goes on. *)
LEMMA LookupStep == ASSUME IInv, NEW w \in Workers, Lookup(w) PROVE IInv'
<1> DEFINE state == request[run[w].request].state
           pc == CASE state = "none"      -> "create"
                   [] state = "planned"   -> "reserve"
                   [] state = "reserved"  -> "begin"
                   [] OTHER               -> Route(state, "read")
<1>1. /\ run[w].pc = "lookup"
      /\ Goto(w, pc)
      /\ UNCHANGED <<jobs, ledger, account, today, bill, late, faults>>
    BY DEF Lookup
<1>2. pc \in {"create", "reserve", "begin", "seal_result", "seal_review", "fail", "read"}
    BY Routes
<1> HIDE DEF pc
<1>3. run' \in [Workers -> RunState] /\ GoingOn(w)
    BY <1>1, <1>2, GoesOnGoing DEF IInv, Points, Reporting, Sending
<1> QED BY <1>1, <1>3, QuietStep

(* A run that reads the row after a failed report still has its result, if *)
(* it has one, to report again.                                            *)
LEMMA RereadStep == ASSUME IInv, NEW w \in Workers, Reread(w) PROVE IInv'
<1> DEFINE r == run[w].request
           state == request[r].state
           again == IF run[w].pc = "reread" THEN "reconcile_again" ELSE "recover"
           pc == Route(state, again)
<1>1. /\ run[w].pc \in {"reread", "reread_again"}
      /\ UNCHANGED <<jobs, ledger, account, today, bill, late, faults>>
      /\ IF run[w].result = NoResult /\ state = "in_flight" THEN Rest(w) ELSE Goto(w, pc)
    BY DEF Reread
<1>2. CASE Rest(w)
    BY <1>1, <1>2, RestsGoing, QuietStep DEF IInv
<1>3. CASE Goto(w, pc) /\ ~(run[w].result = NoResult /\ state = "in_flight")
    <2>1. r \in Requests
        BY <1>1, AtWork DEF IInv
    <2>2. state \notin {"none", "planned"}
        <3>1. run[w].number \in 1 .. dispatch[r].number
            BY <1>1 DEF IInv, Runs, Sending, Reporting
        <3>2. dispatch[r].number # 0
            BY <3>1
        <3> QED BY <2>1, <3>2 DEF IInv, Money, Accounted, Untouched
    <2>3. state \in States
        BY <2>1, Types DEF IInv, RequestRow
    <2>4. pc \in Reporting => run[w].result # NoResult
        <3> SUFFICES ASSUME pc \in Reporting PROVE run[w].result # NoResult
            OBVIOUS
        <3>1. pc = again
            BY Routes DEF Reporting
        <3>2. state = "in_flight"
            BY <2>2, <2>3, <3>1 DEF Route, States, Reporting
        <3> QED BY <1>3, <3>2
    <2>5. pc \in {"seal_result", "seal_review", "fail", "reconcile_again", "recover"}
        BY Routes
    <2> HIDE DEF pc
    <2>6. run' \in [Workers -> RunState] /\ GoingOn(w)
        BY <1>1, <1>3, <2>4, <2>5, GoesOnGoing DEF IInv, Points, Reporting, Sending
    <2> QED BY <1>1, <2>6, QuietStep
<1> QED BY <1>1, <1>2, <1>3

(* A run that recovers remembers the number of the dispatch it found, and  *)
(* no result.                                                              *)
LEMMA ReadStep == ASSUME IInv, NEW w \in Workers, Read(w) PROVE IInv'
<1> DEFINE r == run[w].request
           pc == Route(request[r].state, "recover")
           y == At(pc, r, run[w].fence, dispatch[r].number, NoResult)
<1>1. /\ run[w].pc = "read"
      /\ run' = [run EXCEPT ![w] = y]
      /\ UNCHANGED <<jobs, ledger, account, today, bill, late, faults>>
    BY DEF Read
<1>2. pc \in {"seal_result", "seal_review", "fail", "recover"}
    BY Routes
<1>3. /\ r \in Requests /\ r # NoRequest /\ run[w] # Idle
      /\ run \in [Workers -> RunState] /\ dispatch \in [Requests -> DispatchRow]
    BY <1>1, AtWork, Types, ModelAssumption DEF IInv
<1>4. /\ y.pc = pc /\ y.request = r /\ y.fence = run[w].fence /\ y.result = NoResult
      /\ y.number = dispatch[r].number
    BY DEF At
<1> HIDE DEF pc
<1>5. y \in RunState
    BY <1>2, <1>3 DEF At, RunState, DispatchRow, Points
<1> HIDE DEF y
<1>6. run' \in [Workers -> RunState] /\ run'[w] = y /\ run' = [run EXCEPT ![w] = run'[w]]
    BY <1>1, <1>3, <1>5
<1>7. Running(y) /\ Calm(y, run[w]) /\ y.pc \notin Sending
    BY <1>2, <1>3, <1>4 DEF Running, Calm, Reporting, Sending
<1>8. GoingOn(w)
    BY <1>3, <1>4, <1>6, <1>7 DEF GoingOn
<1> QED BY <1>1, <1>6, <1>8, QuietStep

(* A failed call moves the run only. *)
LEMMA CallFailsStep == ASSUME IInv, NEW w \in Workers, CallFails(w) PROVE IInv'
<1>1. /\ run[w].pc # "idle"
      /\ Goto(w, "fail")
      /\ Fault \/ UNCHANGED faults
      /\ UNCHANGED <<jobs, ledger, account, today, bill, late>>
    BY DEF CallFails
<1>2. run' \in [Workers -> RunState] /\ GoingOn(w)
    BY <1>1, GoesOnGoing DEF IInv, Points, Reporting, Sending
<1> QED BY <1>1, <1>2, QuietStep

(* A run that ends leaves its dispatch to others, who do not know its      *)
(* result.                                                                 *)
LEMMA StopStep == ASSUME IInv, NEW w \in Workers, Stop(w) PROVE IInv'
BY RestsGoing, QuietStep DEF Stop, IInv

(* A run goes on, or ends, and changes its job, or what is sealed for it. *)
LEMMA JobStep ==
    ASSUME IInv, NEW w \in Workers, run' \in [Workers -> RunState], GoingOn(w),
           job' \in [Requests -> JobRow],
           \A r \in Requests : job'[r].fence >= job[r].fence,
           sealed' \in [Requests -> {"none", "result", "review"}],
           JobTellsRequest',
           Fault \/ UNCHANGED faults,
           UNCHANGED <<ledger, account, today, bill, late>>
    PROVE  IInv'
<1>1. TypeOK
    BY DEF IInv
<1>2. faults' \in 0 .. MaxFaults
    BY <1>1, FaultTypes
<1>3. TypeOK'
    BY <1>1, <1>2, Types, NextTypes DEF TypeOK, ledger
<1>4. \A r \in Requests : dispatch'[r].number >= dispatch[r].number
    BY <1>1, Types, ModelAssumption DEF ledger, DispatchRow
<1>5. /\ Runs'
      /\ \A v \in Workers : run'[v] = run[v] \/ Calm(run'[v], run[v])
    BY <1>1, <1>3, <1>4, GoingOnRuns DEF IInv
<1> QED BY <1>3, <1>5, OtherStep DEF ledger

(* A released job is a job that is not completed, with the fence it had. *)
LEMMA ReleasedTypes ==
    ASSUME NEW row \in JobRow
    PROVE  /\ Released(row) \in JobRow
           /\ Released(row).fence = row.fence
           /\ Released(row).state # "completed"
BY DEF Released, Lease, JobRow

(* Taking expired leases back neither completes a job nor moves its fence. *)
LEMMA SweptTypes ==
    ASSUME TypeOK
    PROVE  /\ Swept \in [Requests -> JobRow]
           /\ \A r \in Requests : /\ Swept[r].fence = job[r].fence
                                  /\ Swept[r].state = "completed" => job[r].state = "completed"
<1>1. job \in [Requests -> JobRow]
    BY Types
<1>2. \A r \in Requests :
         /\ Released(job[r]) \in JobRow
         /\ Released(job[r]).fence = job[r].fence
         /\ Released(job[r]).state # "completed"
    BY <1>1, ReleasedTypes
<1> QED BY <1>1, <1>2 DEF Swept

(* A job that is released is not completed. *)
LEMMA FailStep == ASSUME IInv, NEW w \in Workers, Fail(w) PROVE IInv'
<1> DEFINE r == run[w].request
<1>1. /\ run[w].pc = "fail" /\ Rest(w)
      /\ job' = IF Holds(w) THEN [job EXCEPT ![r] = Released(job[r])] ELSE job
      /\ UNCHANGED <<sealed, ledger, account, today, bill, late, faults>>
    BY DEF Fail
<1>2. TypeOK /\ Runs /\ job \in [Requests -> JobRow]
    BY Types DEF IInv
<1>3. r \in Requests
    BY <1>1, <1>2, AtWork
<1>4. Released(job[r]) \in JobRow /\ Released(job[r]).fence = job[r].fence
      /\ Released(job[r]).state # "completed"
    BY <1>2, <1>3, ReleasedTypes
<1>5. job' \in [Requests -> JobRow]
    BY <1>1, <1>2, <1>4
<1>6. \A s \in Requests : job'[s].fence >= job[s].fence
    BY <1>1, <1>2, <1>3, <1>4, ModelAssumption DEF JobRow
<1>7. \A s \in Requests : job'[s].state = "completed" => job[s].state = "completed"
    BY <1>1, <1>2, <1>3, <1>4
<1>8. JobTellsRequest'
    BY <1>1, <1>7 DEF IInv, JobTellsRequest, ledger
<1>9. run' \in [Workers -> RunState] /\ GoingOn(w)
    BY <1>1, <1>2, RestsGoing
<1>10. sealed' \in [Requests -> {"none", "result", "review"}]
    BY <1>1, <1>2, Types
<1> QED BY <1>1, <1>5, <1>6, <1>8, <1>9, <1>10, JobStep

(* Money that is still held once a request is closed is held in doubt. *)
LEMMA HeldInDoubt ==
    ASSUME IInv, NEW r \in Requests, request[r].state \in Final, request[r].hold > 0
    PROVE  /\ dispatch[r].outcome \in Doubts
           /\ request[r].state # "succeeded"
<1>1. Accounted(request[r], dispatch[r], bill[r])
    BY DEF IInv, Money
<1>2. request[r].hold # 0
    BY Types DEF IInv, RequestRow
<1>3. dispatch[r].outcome \in Doubts
    BY <1>1, <1>2 DEF Accounted, Closed
<1> QED BY <1>1, <1>3 DEF Accounted

(* A completed job has been sealed, and money still held for it has a      *)
(* review.                                                                 *)
LEMMA CompleteStep == ASSUME IInv, NEW w \in Workers, Complete(w) PROVE IInv'
<1> DEFINE r == run[w].request
<1>1. /\ run[w].pc = "complete" /\ Rest(w)
      /\ Holds(w)
      /\ sealed[r] # "none"
      /\ job' = [job EXCEPT ![r] = Lease("completed", run[w].fence, FALSE)]
      /\ UNCHANGED <<sealed, ledger, account, today, bill, late, faults>>
    BY DEF Complete
<1>2. TypeOK /\ Runs /\ job \in [Requests -> JobRow] /\ run \in [Workers -> RunState]
      /\ sealed \in [Requests -> {"none", "result", "review"}]
    BY Types DEF IInv
<1>3. r \in Requests
    BY <1>1, <1>2, AtWork
<1>4. job[r].fence = run[w].fence
    BY <1>1 DEF Holds, Lease
<1>5. job' \in [Requests -> JobRow]
    <2>1. Lease("completed", run[w].fence, FALSE) \in JobRow
        BY <1>2 DEF Lease, JobRow, RunState
    <2> QED BY <1>1, <1>2, <2>1
<1>6. \A s \in Requests : job'[s].fence >= job[s].fence
    <2>1. Lease("completed", run[w].fence, FALSE).fence = run[w].fence
        BY DEF Lease
    <2>2. \A s \in Requests : job[s].fence \in Nat
        BY <1>2, ModelAssumption DEF JobRow
    <2>3. job'[r].fence = job[r].fence
        BY <1>1, <1>2, <1>3, <1>4, <2>1
    <2>4. \A s \in Requests \ {r} : job'[s].fence = job[s].fence
        BY <1>1, <1>2
    <2> QED BY <2>2, <2>3, <2>4
<1>7. \A s \in Requests \ {r} : job'[s] = job[s]
    BY <1>1, <1>2
<1>8. JobTellsRequest'
    <2>1. request[r].hold > 0 => sealed[r] = "review" /\ dispatch[r].outcome \in Doubts
        <3> SUFFICES ASSUME request[r].hold > 0
                     PROVE  sealed[r] = "review" /\ dispatch[r].outcome \in Doubts
            OBVIOUS
        <3>1. request[r].state \in Final
            BY <1>1, <1>2, <1>3 DEF IInv, JobTellsRequest, Final
        <3>2. dispatch[r].outcome \in Doubts /\ request[r].state # "succeeded"
            BY <1>3, <3>1, HeldInDoubt
        <3> QED BY <1>1, <1>2, <1>3, <3>2 DEF IInv, JobTellsRequest
    <2> QED BY <1>1, <1>7, <2>1 DEF IInv, JobTellsRequest, ledger, Doubts
<1>9. run' \in [Workers -> RunState] /\ GoingOn(w)
    BY <1>1, <1>2, RestsGoing
<1> QED BY <1>1, <1>2, <1>5, <1>6, <1>8, <1>9, JobStep

(* What is sealed, and what the request is when it is. *)
Sealing(w, seal, states) ==
    /\ run[w].pc # "idle"
    /\ request[run[w].request].state \in states
    /\ sealed[run[w].request] \in {"none", seal}
    /\ sealed' = [sealed EXCEPT ![run[w].request] = seal]
    /\ Answer(w, "complete")
    /\ UNCHANGED <<job, ledger, account, today, bill, late>>

(* Sealing what the request says keeps the invariant. *)
LEMMA SealStep ==
    ASSUME IInv, NEW w \in Workers, NEW seal, NEW states, Sealing(w, seal, states),
           \/ seal = "result" /\ states = {"succeeded"}
           \/ seal = "review" /\ states = {"review_required", "outcome_unknown"}
    PROVE  IInv'
<1> DEFINE r == run[w].request
<1>1. TypeOK /\ Runs /\ sealed \in [Requests -> {"none", "result", "review"}]
      /\ job \in [Requests -> JobRow]
    BY Types DEF IInv
<1>2. r \in Requests
    BY <1>1, AtWork DEF Sealing
<1>3. run' \in [Workers -> RunState] /\ GoingOn(w) /\ (Fault \/ UNCHANGED faults)
    <2>1. CASE Goto(w, "complete") /\ UNCHANGED faults
        BY <1>1, <2>1, GoesOnGoing DEF Sealing, Points, Reporting, Sending
    <2>2. CASE Goto(w, "fail") /\ Fault
        BY <1>1, <2>2, GoesOnGoing DEF Sealing, Points, Reporting, Sending
    <2> QED BY <2>1, <2>2 DEF Sealing, Answer
<1>4. /\ sealed' \in [Requests -> {"none", "result", "review"}]
      /\ sealed'[r] = seal
      /\ \A s \in Requests \ {r} : sealed'[s] = sealed[s]
    BY <1>1, <1>2 DEF Sealing
<1>5. JobTellsRequest'
    <2>1. UNCHANGED <<job, request, dispatch>>
        BY DEF Sealing, ledger
    <2>2. /\ seal = "result" => request[r].state = "succeeded"
          /\ seal = "review" => request[r].state \in {"review_required", "outcome_unknown"}
          /\ seal \in {"result", "review"}
        BY DEF Sealing
    <2>3. job[r].state = "completed" => sealed[r] = seal
        BY <1>2 DEF Sealing, IInv, JobTellsRequest
    <2>4. job[r].state = "completed" /\ request[r].hold > 0 =>
             seal = "review" /\ dispatch[r].outcome \in Doubts
        BY <1>2, <2>3 DEF IInv, JobTellsRequest, Doubts
    <2> QED BY <1>2, <1>4, <2>1, <2>2, <2>4 DEF IInv, JobTellsRequest, Doubts
<1>6. \A s \in Requests : job'[s].fence >= job[s].fence
    BY <1>1, ModelAssumption DEF Sealing, JobRow
<1>7. job' \in [Requests -> JobRow]
    BY <1>1 DEF Sealing
<1> QED BY <1>3, <1>4, <1>5, <1>6, <1>7, JobStep DEF Sealing

(* A result is sealed for a request that succeeded. *)
LEMMA SealResultStep == ASSUME IInv, NEW w \in Workers, SealResult(w) PROVE IInv'
<1>1. run[w].request \in Requests /\ sealed \in [Requests -> {"none", "result", "review"}]
    BY AtWork, Types DEF IInv, SealResult
<1>2. Sealing(w, "result", {"succeeded"})
    BY <1>1 DEF Sealing, SealResult
<1> QED BY <1>2, SealStep

(* A review is sealed for a request that ended otherwise. *)
LEMMA SealReviewStep == ASSUME IInv, NEW w \in Workers, SealReview(w) PROVE IInv'
<1>1. run[w].request \in Requests /\ sealed \in [Requests -> {"none", "result", "review"}]
    BY AtWork, Types DEF IInv, SealReview
<1>2. Sealing(w, "review", {"review_required", "outcome_unknown"})
    BY <1>1 DEF Sealing, SealReview
<1> QED BY <1>2, SealStep

(* A step of the world around: no run moves. *)
LEMMA WorldStep ==
    ASSUME IInv, TypeOK', UNCHANGED <<sealed, request, dispatch, bill, run, late>>,
           \A r \in Requests : job'[r].fence >= job[r].fence,
           \A r \in Requests : job'[r].state = "completed" => job[r].state = "completed"
    PROVE  IInv'
<1>1. TypeOK /\ Runs /\ dispatch \in [Requests -> DispatchRow]
    BY Types DEF IInv
<1>2. \A r \in Requests : dispatch'[r].number >= dispatch[r].number
    BY <1>1, ModelAssumption DEF DispatchRow
<1>3. Runs'
    BY <1>1, <1>2, NobodyMoves
<1>4. JobTellsRequest'
    BY DEF IInv, JobTellsRequest
<1> QED BY <1>3, <1>4, OtherStep

(* An expired lease takes nothing from what its run knows. *)
LEMMA ExpireStep == ASSUME IInv, NEW r \in Requests, Expire(r) PROVE IInv'
<1>1. TypeOK /\ job \in [Requests -> JobRow]
    BY Types DEF IInv
<1>2. /\ job' = [job EXCEPT ![r] = Lease("leased", job[r].fence, FALSE)]
      /\ UNCHANGED <<sealed, ledger, account, today, bill, run, late>>
      /\ Fault \/ UNCHANGED faults
    BY DEF Expire
<1>3. /\ Lease("leased", job[r].fence, FALSE) \in JobRow
      /\ Lease("leased", job[r].fence, FALSE).fence = job[r].fence
      /\ Lease("leased", job[r].fence, FALSE).state # "completed"
    BY <1>1 DEF Lease, JobRow
<1>4. /\ job' \in [Requests -> JobRow]
      /\ \A s \in Requests : job'[s].fence = job[s].fence
      /\ \A s \in Requests : job'[s].state = "completed" => job[s].state = "completed"
    BY <1>1, <1>2, <1>3
<1>5. \A s \in Requests : job'[s].fence >= job[s].fence
    BY <1>1, <1>4, ModelAssumption DEF JobRow
<1>6. faults' \in 0 .. MaxFaults
    BY <1>1, <1>2, FaultTypes
<1>7. TypeOK'
    BY <1>1, <1>2, <1>4, <1>6, Types, NextTypes DEF TypeOK, ledger
<1> QED BY <1>2, <1>4, <1>5, <1>7, WorldStep DEF ledger

(* The configuration of the account is in no row. *)
LEMMA ConfigureStep == ASSUME IInv, Configure PROVE IInv'
<1>1. TypeOK /\ job \in [Requests -> JobRow]
    BY Types DEF IInv
<1>2. PICK enabled \in BOOLEAN, budget \in Budgets :
         account' = [enabled |-> enabled, budget |-> budget, version |-> account.version + 1]
    BY DEF Configure
<1>3. account.version \in 0 .. MaxConfigurations /\ account.version < MaxConfigurations
    BY <1>1 DEF TypeOK, Configure
<1>4. account.version + 1 \in 0 .. MaxConfigurations
    BY <1>3, ModelAssumption
<1>5. account' \in [enabled : BOOLEAN, budget : Budgets, version : 0 .. MaxConfigurations]
    BY <1>2, <1>4
<1>6. TypeOK'
    BY <1>1, <1>5, Types, NextTypes DEF TypeOK, Configure, jobs, ledger
<1>7. \A r \in Requests : job'[r].fence >= job[r].fence
    BY <1>1, ModelAssumption DEF JobRow, Configure, jobs
<1> QED BY <1>6, <1>7, WorldStep DEF Configure, jobs, ledger

(* Neither is the date. *)
LEMMA MidnightStep == ASSUME IInv, Midnight PROVE IInv'
<1>1. TypeOK /\ job \in [Requests -> JobRow] /\ today \in 1 .. Days
    BY Types DEF IInv
<1>2. today' \in 1 .. Days
    BY <1>1, ModelAssumption DEF Midnight
<1>3. TypeOK'
    BY <1>1, <1>2, Types, NextTypes DEF TypeOK, Midnight, jobs, ledger
<1>4. \A r \in Requests : job'[r].fence >= job[r].fence
    BY <1>1, ModelAssumption DEF JobRow, Midnight, jobs
<1> QED BY <1>3, <1>4, WorldStep DEF Midnight, jobs, ledger

(* A claim gives its run a fence that no other run of the job has. *)
LEMMA ClaimStep == ASSUME IInv, NEW w \in Workers, Claim(w) PROVE IInv'
<1>1. /\ TypeOK /\ Runs
      /\ job \in [Requests -> JobRow] /\ run \in [Workers -> RunState]
      /\ dispatch \in [Requests -> DispatchRow]
    BY Types DEF IInv
<1>2. /\ Swept \in [Requests -> JobRow]
      /\ \A r \in Requests : /\ Swept[r].fence = job[r].fence
                             /\ Swept[r].state = "completed" => job[r].state = "completed"
    BY <1>1, SweptTypes
<1>3. UNCHANGED <<ledger, sealed, account, today, bill, late, faults>>
    BY DEF Claim
<1>4. CASE job' = Swept /\ UNCHANGED run
    <2>1. TypeOK'
        BY <1>1, <1>2, <1>3, <1>4, Types, NextTypes DEF TypeOK, ledger
    <2>2. \A r \in Requests : job'[r].fence >= job[r].fence
        BY <1>1, <1>2, <1>4, ModelAssumption DEF JobRow
    <2> QED BY <1>2, <1>3, <1>4, <2>1, <2>2, WorldStep DEF ledger
<1>5. ASSUME NEW r \in Requests, Swept[r].state = "ready", Swept[r].fence < MaxTries,
             job' = [Swept EXCEPT ![r] = Lease("leased", Swept[r].fence + 1, TRUE)],
             run' = [run EXCEPT ![w] = At("lookup", r, Swept[r].fence + 1, 0, NoResult)]
      PROVE  IInv'
    <2> DEFINE fence == Swept[r].fence + 1
               row == Lease("leased", fence, TRUE)
               y == At("lookup", r, fence, 0, NoResult)
    <2>1. fence \in 1 .. MaxTries /\ fence = job[r].fence + 1
        BY <1>1, <1>2, <1>5, ModelAssumption DEF JobRow
    <2>2. row \in JobRow /\ row.fence = fence /\ row.state # "completed"
        BY <2>1 DEF Lease, JobRow
    <2>3. y \in RunState
        BY <2>1, ModelAssumption DEF At, RunState, Points
    <2>4. /\ y.pc = "lookup" /\ y.request = r /\ y.fence = fence /\ y.result = NoResult
          /\ y # Idle
        BY DEF At, Idle
    <2> HIDE DEF row, y
    <2>5. job' \in [Requests -> JobRow] /\ job'[r] = row
        BY <1>2, <1>5, <2>2 DEF row
    <2>6. \A s \in Requests \ {r} : job'[s] = Swept[s]
        BY <1>2, <1>5
    <2>7. run' \in [Workers -> RunState] /\ run'[w] = y
        BY <1>1, <1>5, <2>3 DEF y
    <2>8. \A v \in Workers \ {w} : run'[v] = run[v]
        BY <1>1, <1>5
    <2>9. TypeOK'
        BY <1>1, <1>3, <2>5, <2>7, Types, NextTypes DEF TypeOK, ledger
    <2>10. /\ \A s \in Requests : job[s].fence \in Nat
           /\ job'[r].fence = job[r].fence + 1
           /\ \A s \in Requests \ {r} : job'[s].fence = job[s].fence
        BY <1>1, <1>2, <2>1, <2>2, <2>5, <2>6, ModelAssumption DEF JobRow
    <2>11. \A s \in Requests : job'[s].state = "completed" => job[s].state = "completed"
        BY <1>2, <2>2, <2>5, <2>6
    <2>12. JobTellsRequest'
        BY <1>3, <2>11 DEF IInv, JobTellsRequest, ledger
    <2>13. Running(y) /\ Calm(y, run[w]) /\ y.pc \notin Sending
        BY <2>4, ModelAssumption DEF Running, Calm, Sending, Reporting
    <2>14. \A v \in Workers : Running(run'[v])
        BY <1>1, <2>7, <2>8, <2>13 DEF Runs
    <2>15. \A v \in Workers : run'[v].pc \in Sending =>
              run'[v].number \in 1 .. dispatch'[run'[v].request].number
        BY <1>1, <1>3, <2>7, <2>8, <2>13 DEF Runs, ledger
    <2>16. ASSUME NEW v \in Workers, run'[v] # Idle
           PROVE  run'[v].fence \in 1 .. job'[run'[v].request].fence
        <3>1. CASE v = w
            BY <2>1, <2>2, <2>4, <2>5, <2>7, <3>1
        <3>2. CASE v # w
            <4>1. run'[v] = run[v] /\ run[v] # Idle
                BY <2>8, <2>16, <3>2
            <4>2. run[v].request \in Requests
                BY <1>1, <4>1, AtWork DEF Runs, Running
            <4>3. run[v].fence \in 1 .. job[run[v].request].fence
                BY <1>1, <4>1 DEF Runs
            <4> QED BY <2>10, <4>1, <4>2, <4>3
        <3> QED BY <3>1, <3>2
    <2>17. ASSUME NEW v \in Workers, run[v].request = r
           PROVE  run[v].fence # fence
        <3>1. run[v] # Idle
            BY <1>5, <2>17, ModelAssumption DEF Idle, At
        <3>2. run[v].fence \in 1 .. job[r].fence
            BY <1>1, <2>17, <3>1 DEF Runs
        <3> QED BY <2>1, <2>10, <3>2
    <2>18. \A v, u \in Workers :
              v # u /\ run'[v] # Idle /\ run'[u].request = run'[v].request =>
                run'[u].fence # run'[v].fence
        BY <1>1, <2>4, <2>7, <2>8, <2>17 DEF Runs
    <2>19. Runs'
        BY <2>14, <2>15, <2>16, <2>18 DEF Runs
    <2>20. \A v \in Workers : run'[v] = run[v] \/ Calm(run'[v], run[v])
        BY <2>7, <2>8, <2>13
    <2> QED BY <1>3, <2>9, <2>12, <2>19, <2>20, OtherStep DEF ledger
<1> QED BY <1>4, <1>5 DEF Claim

(* The books stay in their types. *)
LEMMA MovedTypes ==
    ASSUME NEW entry \in Sums, NEW used \in Int, NEW freed \in Int
    PROVE  Moved(entry, used, freed) \in Sums
BY DEF Moved, Entry, Sums

(* Booked sums are sums. *)
LEMMA BookTypes ==
    ASSUME TypeOK, NEW r \in Requests, NEW used \in Int, NEW freed \in Int, Book(r, used, freed)
    PROVE  books' \in Sums /\ daily' \in [1 .. Days -> Sums]
<1>1. books \in Sums /\ daily \in [1 .. Days -> Sums]
    BY Types
<1>2. Moved(books, used, freed) \in Sums
    BY <1>1, MovedTypes
<1>3. \A d \in 1 .. Days : Moved(daily[d], used, freed) \in Sums
    BY <1>1, MovedTypes
<1> QED BY <1>1, <1>2, <1>3 DEF Book

(* A row of a request. *)
LEMMA RowTypes ==
    ASSUME NEW state \in States, NEW day \in 0 .. Days, NEW hold \in Nat, NEW paid \in Nat
    PROVE  Row(state, day, hold, paid) \in RequestRow
BY DEF Row, RequestRow

(* What a step of the ledger needs to be one that keeps its types. *)
LEMMA LedgerTypes ==
    ASSUME TypeOK, NEW r \in Requests,
           NEW q \in RequestRow, request' = [request EXCEPT ![r] = q],
           NEW d \in DispatchRow, dispatch' = [dispatch EXCEPT ![r] = d],
           books' \in Sums, daily' \in [1 .. Days -> Sums],
           run' \in [Workers -> RunState], late' \subseteq Call,
           Fault \/ UNCHANGED faults,
           UNCHANGED <<jobs, account, today, bill>>
    PROVE  /\ TypeOK'
           /\ request'[r] = q /\ dispatch'[r] = d
           /\ request' = [request EXCEPT ![r] = request'[r]]
           /\ dispatch' = [dispatch EXCEPT ![r] = dispatch'[r]]
<1>1. /\ request \in [Requests -> RequestRow]
      /\ dispatch \in [Requests -> DispatchRow]
    BY Types
<1>2. request' \in [Requests -> RequestRow] /\ dispatch' \in [Requests -> DispatchRow]
    BY <1>1
<1>3. faults' \in 0 .. MaxFaults
    BY FaultTypes
<1>4. TypeOK'
    BY <1>2, <1>3, Types, NextTypes DEF TypeOK, jobs
<1> QED BY <1>1, <1>4

(* A run that holds its lease moves its request on and goes on itself. *)
LEMMA WorkerLedgerStep ==
    ASSUME IInv, NEW w \in Workers, NEW r \in Requests,
           request[r].state \notin Final,
           NEW q \in RequestRow, request' = [request EXCEPT ![r] = q],
           NEW d \in DispatchRow, dispatch' = [dispatch EXCEPT ![r] = d],
           Accounted(q, d, bill[r]),
           Moves(request[r], dispatch[r], q, d), d.number >= dispatch[r].number,
           Resolved(dispatch[r], d) /\ d # dispatch[r] =>
               \A v \in Workers : run[v].pc = "post" => run[v].request # r,
           books' \in Sums, daily' \in [1 .. Days -> Sums],
           run' \in [Workers -> RunState], GoingOn(w),
           Fault \/ UNCHANGED faults,
           UNCHANGED <<jobs, account, today, bill, late>>
    PROVE  IInv'
<1>1. /\ TypeOK /\ Runs /\ late \subseteq Call
      /\ dispatch \in [Requests -> DispatchRow] /\ job \in [Requests -> JobRow]
    BY Types DEF IInv
<1>2. /\ TypeOK'
      /\ request'[r] = q /\ dispatch'[r] = d
      /\ request' = [request EXCEPT ![r] = request'[r]]
      /\ dispatch' = [dispatch EXCEPT ![r] = dispatch'[r]]
    BY <1>1, LedgerTypes
<1>3. /\ \A s \in Requests : dispatch'[s].number >= dispatch[s].number
      /\ \A s \in Requests : job'[s].fence >= job[s].fence
    <2>1. \A s \in Requests : dispatch[s].number \in Nat /\ job[s].fence \in Nat
        BY <1>1, Counted
    <2>2. \A s \in Requests \ {r} : dispatch'[s] = dispatch[s]
        BY <1>1
    <2> QED BY <1>2, <2>1, <2>2 DEF jobs
<1>4. /\ Runs'
      /\ \A v \in Workers : run'[v] = run[v] \/ Calm(run'[v], run[v])
    BY <1>1, <1>2, <1>3, GoingOnRuns
<1> QED BY <1>2, <1>4, LedgerStep DEF jobs

(* The two ways on of a call whose answer may be lost. *)
LEMMA AnswerGoing ==
    ASSUME TypeOK, Runs, NEW w \in Workers, run[w].pc # "idle",
           NEW pc \in Points \ {"idle", "post", "reconcile"}, pc \notin Sending, Answer(w, pc)
    PROVE  /\ run' \in [Workers -> RunState] /\ GoingOn(w)
           /\ Fault \/ UNCHANGED faults
<1>1. "fail" \in Points \ {"idle", "post", "reconcile"} /\ "fail" \notin Sending
    BY DEF Points, Sending, Reporting
<1>2. Reporting \subseteq Sending
    BY DEF Sending
<1>3. CASE Goto(w, pc) /\ UNCHANGED faults
    BY <1>2, <1>3, GoesOnGoing
<1>4. CASE Goto(w, "fail") /\ Fault
    BY <1>1, <1>2, <1>4, GoesOnGoing
<1> QED BY <1>3, <1>4 DEF Answer

(* A planned request has nothing held. *)
LEMMA CreateStep == ASSUME IInv, NEW w \in Workers, Create(w) PROVE IInv'
<1> DEFINE r == run[w].request
           q == Row("planned", 0, 0, 0)
<1>1. /\ run[w].pc = "create" /\ request[r].state = "none"
      /\ request' = [request EXCEPT ![r] = q]
      /\ Answer(w, "reserve")
      /\ UNCHANGED <<jobs, dispatch, account, books, daily, today, bill, late>>
    BY DEF Create
<1>2. /\ TypeOK /\ Runs /\ request \in [Requests -> RequestRow]
      /\ dispatch \in [Requests -> DispatchRow] /\ r \in Requests
      /\ books \in Sums /\ daily \in [1 .. Days -> Sums]
    BY <1>1, Types, AtWork DEF IInv
<1>3. Accounted(request[r], dispatch[r], bill[r]) /\ request[r] \in RequestRow
    BY <1>2 DEF IInv, Money
<1>4. q \in RequestRow
    BY ModelAssumption, RowTypes DEF States
<1>5. request[r].paid = 0 /\ dispatch[r].outcome = "none"
    BY <1>1, <1>3 DEF Accounted, Untouched
<1>6. Accounted(q, dispatch[r], bill[r])
    BY <1>1, <1>3, <1>5 DEF Accounted, Untouched, Row, Doubts, Open, Final
<1>7. Moves(request[r], dispatch[r], q, dispatch[r])
    BY <1>5 DEF Moves, Same, Row
<1>8. run' \in [Workers -> RunState] /\ GoingOn(w) /\ (Fault \/ UNCHANGED faults)
    BY <1>1, <1>2, AnswerGoing DEF Points, Sending, Reporting
<1>9. dispatch' = [dispatch EXCEPT ![r] = dispatch[r]] /\ dispatch[r] \in DispatchRow
      /\ dispatch[r].number >= dispatch[r].number
    BY <1>1, <1>2, ModelAssumption DEF DispatchRow
<1>10. request[r].state \notin Final
    BY <1>1 DEF Final
<1> HIDE DEF q
<1> QED BY <1>1, <1>2, <1>4, <1>6, <1>7, <1>8, <1>9, <1>10, WorkerLedgerStep

(* A reserved request has the hold of all its attempts. *)
LEMMA ReserveStep == ASSUME IInv, NEW w \in Workers, Reserve(w) PROVE IInv'
<1> DEFINE r == run[w].request
           q == IF Affordable THEN Row("reserved", today, Hold, 0)
                              ELSE Row("review_required", 0, 0, 0)
<1>1. /\ run[w].pc = "reserve" /\ request[r].state = "planned"
      /\ ReserveEffect(r)
      /\ Answer(w, IF Affordable THEN "begin" ELSE "seal_review")
      /\ UNCHANGED <<jobs, account, today, bill, late>>
    BY DEF Reserve
<1>2. /\ TypeOK /\ Runs /\ request \in [Requests -> RequestRow]
      /\ dispatch \in [Requests -> DispatchRow] /\ r \in Requests
      /\ books \in Sums /\ daily \in [1 .. Days -> Sums] /\ today \in 1 .. Days
    BY <1>1, Types, AtWork DEF IInv
<1>3. /\ Accounted(request[r], dispatch[r], bill[r])
      /\ request[r] \in RequestRow /\ dispatch[r] \in DispatchRow /\ bill[r] \in Nat
    BY <1>2, Types DEF IInv, Money
<1>4. q \in RequestRow
    <2>1. today \in 0 .. Days /\ 0 \in 0 .. Days /\ 0 \in Nat /\ Hold \in Nat
        BY <1>2, ModelAssumption, Amounts
    <2> QED BY <2>1, RowTypes DEF States
<1>5. request[r].paid = 0
    BY <1>1, <1>3 DEF Accounted, Untouched
<1>6. Accounted(q, dispatch[r], bill[r])
    BY <1>1, <1>3, ReservedAccounts
<1>7. Moves(request[r], dispatch[r], q, dispatch[r])
    BY <1>5 DEF Moves, Same, Row
<1>8. run' \in [Workers -> RunState] /\ GoingOn(w) /\ (Fault \/ UNCHANGED faults)
    <2>1. CASE Affordable
        BY <1>1, <1>2, <2>1, AnswerGoing DEF Points, Sending, Reporting
    <2>2. CASE ~Affordable
        BY <1>1, <1>2, <2>2, AnswerGoing DEF Points, Sending, Reporting
    <2> QED BY <2>1, <2>2
<1>9. /\ request' = [request EXCEPT ![r] = q]
      /\ dispatch' = [dispatch EXCEPT ![r] = dispatch[r]]
      /\ dispatch[r].number >= dispatch[r].number
    BY <1>1, <1>2, <1>3, ModelAssumption DEF DispatchRow, ReserveEffect
<1>10. books' \in Sums /\ daily' \in [1 .. Days -> Sums]
    <2>1. 0 \in Int /\ -Hold \in Int
        BY Amounts
    <2>2. Moved(books, 0, -Hold) \in Sums
        BY <1>2, <2>1, MovedTypes
    <2>3. Moved(daily[today], 0, -Hold) \in Sums
        BY <1>2, <2>1, MovedTypes
    <2> QED BY <1>1, <1>2, <2>2, <2>3 DEF ReserveEffect
<1>11. request[r].state \notin Final
    BY <1>1 DEF Final
<1> HIDE DEF q
<1> QED BY <1>1, <1>2, <1>3, <1>4, <1>6, <1>7, <1>8, <1>9, <1>10, <1>11, WorkerLedgerStep

(* A dispatch that is given up keeps its hold. *)
LEMMA RecoverStep == ASSUME IInv, NEW w \in Workers, Recover(w) PROVE IInv'
<1> DEFINE r == run[w].request
           q == Row("outcome_unknown", request[r].day, request[r].hold, request[r].paid)
           d == Sent(dispatch[r].number, dispatch[r].fence, "quarantined")
<1>1. /\ run[w].pc = "recover" /\ dispatch[r].outcome = "pending"
      /\ QuarantineEffect(r)
      /\ Answer(w, "seal_review")
      /\ UNCHANGED <<jobs, account, today, bill, late>>
    BY DEF Recover, Quarantinable, Awaited
<1>2. /\ TypeOK /\ Runs /\ request \in [Requests -> RequestRow]
      /\ dispatch \in [Requests -> DispatchRow] /\ r \in Requests
      /\ books \in Sums /\ daily \in [1 .. Days -> Sums]
    BY <1>1, Types, AtWork DEF IInv
<1>3. /\ Accounted(request[r], dispatch[r], bill[r])
      /\ request[r] \in RequestRow /\ dispatch[r] \in DispatchRow /\ bill[r] \in Nat
    BY <1>2, Types DEF IInv, Money
<1>4. /\ q \in RequestRow /\ d \in DispatchRow
      /\ d.number = dispatch[r].number /\ d.outcome = "quarantined" /\ q.paid = request[r].paid
    BY <1>3 DEF Row, RequestRow, Sent, DispatchRow, States, Outcomes
<1>5. Accounted(q, d, bill[r])
    BY <1>1, <1>3, DoubtAccounts DEF Doubts
<1>6. Moves(request[r], dispatch[r], q, d) /\ ~Resolved(dispatch[r], d)
    BY <1>4 DEF Moves, GivenUp, Resolved
<1>7. run' \in [Workers -> RunState] /\ GoingOn(w) /\ (Fault \/ UNCHANGED faults)
    BY <1>1, <1>2, AnswerGoing DEF Points, Sending, Reporting
<1>8. request' = [request EXCEPT ![r] = q] /\ dispatch' = [dispatch EXCEPT ![r] = d]
      /\ books' = books /\ daily' = daily
    BY <1>1 DEF QuarantineEffect
<1>9. request[r].state \notin Final
    <2>1. request[r].state = "in_flight"
        BY <1>1, <1>3 DEF Accounted
    <2> QED BY <2>1 DEF Final
<1>10. d.number >= dispatch[r].number
    <2>1. dispatch[r].number \in Nat
        BY <1>3, ModelAssumption DEF DispatchRow
    <2> QED BY <1>4, <2>1
<1> HIDE DEF q, d
<1> QED BY <1>1, <1>2, <1>4, <1>5, <1>6, <1>7, <1>8, <1>9, <1>10, WorkerLedgerStep

(* What a reconciliation makes of a request. *)
LEMMA ReconcileEffects ==
    ASSUME IInv, NEW r \in Requests, dispatch[r].outcome = "pending",
           NEW result \in Results, ReconcileEffect(r, result),
           result.class \notin Open => bill[r] = request[r].paid + result.cost
    PROVE  /\ \E q \in RequestRow, d \in DispatchRow :
                 /\ request' = [request EXCEPT ![r] = q]
                 /\ dispatch' = [dispatch EXCEPT ![r] = d]
                 /\ Accounted(q, d, bill[r])
                 /\ Resolved(dispatch[r], d)
                 /\ d.outcome = result.class
           /\ books' \in Sums /\ daily' \in [1 .. Days -> Sums]
           /\ request[r].state \notin Final
<1>1. /\ TypeOK /\ request \in [Requests -> RequestRow] /\ dispatch \in [Requests -> DispatchRow]
      /\ books \in Sums /\ daily \in [1 .. Days -> Sums]
    BY Types DEF IInv
<1>2. /\ Accounted(request[r], dispatch[r], bill[r])
      /\ request[r] \in RequestRow /\ dispatch[r] \in DispatchRow /\ bill[r] \in Nat
    BY <1>1, Types DEF IInv, Money
<1>3. /\ result.class \in {"success", "retry", "refused", "unknown", "mismatch"}
      /\ result.cost \in 0 .. Price
    BY ResultTypes
<1>4. request[r].state = "in_flight" /\ request[r].state \notin Final
    BY <1>2 DEF Accounted, Final
<1> DEFINE d == Sent(dispatch[r].number, dispatch[r].fence, result.class)
<1>5. /\ d \in DispatchRow /\ d.outcome = result.class
      /\ d.number = dispatch[r].number /\ d.fence = dispatch[r].fence
    BY <1>2, <1>3 DEF Sent, DispatchRow, Outcomes, Open
<1>6. Resolved(dispatch[r], d)
    BY <1>3, <1>5 DEF Resolved
<1>7. dispatch' = [dispatch EXCEPT ![r] = d]
    BY DEF ReconcileEffect
<1>8. CASE result.class \in Open
    <2> DEFINE state == IF result.class = "mismatch" THEN "review_required" ELSE "outcome_unknown"
               q == Row(state, request[r].day, request[r].hold, request[r].paid)
    <2>1. request' = [request EXCEPT ![r] = q] /\ books' = books /\ daily' = daily
        BY <1>8 DEF ReconcileEffect
    <2>2. q \in RequestRow
        BY <1>2 DEF Row, RequestRow, States
    <2>3. Accounted(q, d, bill[r])
        <3>1. state \in {"review_required", "outcome_unknown"} /\ result.class \in Doubts
            BY <1>8 DEF Doubts
        <3> QED BY <1>2, <3>1, DoubtAccounts
    <2> QED BY <1>1, <1>4, <1>5, <1>6, <1>7, <2>1, <2>2, <2>3
<1>9. CASE result.class \notin Open
    <2> DEFINE freed == IF Closes(r, result) THEN request[r].hold - result.cost ELSE 0
    <2>1. /\ result.class \in {"success", "retry", "refused"}
          /\ result.cost <= request[r].hold
          /\ request' = [request EXCEPT ![r] = BookedRow(r, result)]
          /\ Book(r, result.cost, freed)
          /\ bill[r] = request[r].paid + result.cost
        BY <1>3, <1>9 DEF ReconcileEffect, Open
    <2>2. /\ request[r].hold \in Nat /\ request[r].paid \in Nat /\ request[r].day \in 0 .. Days
          /\ result.cost \in Nat /\ result.cost <= Price
        BY <1>2, <1>3, Amounts DEF RequestRow
    <2>3. freed \in Int /\ result.cost \in Int
        BY <2>2
    <2> HIDE DEF freed
    <2>4. books' \in Sums /\ daily' \in [1 .. Days -> Sums]
        BY <1>1, <2>1, <2>3, BookTypes
    <2>5. BookedRow(r, result) \in RequestRow
        <3>1. request[r].paid + result.cost \in Nat /\ request[r].hold - result.cost \in Nat
            BY <2>1, <2>2
        <3>2. {"succeeded", "review_required", "reserved"} \subseteq States /\ 0 \in Nat
            BY DEF States
        <3> QED BY <2>2, <3>1, <3>2, RowTypes DEF BookedRow
    <2>6. Accounted(BookedRow(r, result), d, bill[r])
        <3>1. CASE Closes(r, result)
            <4>1. PICK state \in Final : BookedRow(r, result) =
                     Row(state, request[r].day, 0, request[r].paid + result.cost)
                BY <3>1 DEF BookedRow, Final
            <4> QED BY <1>2, <1>3, <2>1, <4>1, BookedAccounts
        <3>2. CASE ~Closes(r, result)
            <4>1. result.class = "retry" /\ dispatch[r].number < MaxAttempts
                BY <1>2, <3>2, Amounts DEF Closes, DispatchRow
            <4>2. BookedRow(r, result) = Row("reserved", request[r].day,
                     request[r].hold - result.cost, request[r].paid + result.cost)
                BY <3>2 DEF BookedRow
            <4>3. d = Sent(dispatch[r].number, dispatch[r].fence, "retry")
                BY <4>1
            <4> QED BY <1>2, <1>3, <2>1, <4>1, <4>2, <4>3, BookedAccounts
        <3> QED BY <3>1, <3>2
    <2> QED BY <1>4, <1>5, <1>6, <1>7, <2>1, <2>4, <2>5, <2>6
<1> QED BY <1>8, <1>9

(* Nobody is about to send what is being reconciled. *)
LEMMA NobodySends ==
    ASSUME IInv, NEW w \in Workers, run[w].result # NoResult, NEW v \in Workers,
           run[v].pc = "post", run[v].request = run[w].request
    PROVE  run[w].number # dispatch[run[w].request].number
<1> DEFINE r == run[w].request
<1>1. TypeOK /\ Runs
    BY DEF IInv
<1>2. Sender(run[v], request[r], dispatch[r], bill[r])
    BY DEF IInv, Senders, Sends
<1>3. v # w
    BY <1>2 DEF Sender
<1>4. run[v] # Idle
    BY <1>1, AtWork
<1>5. run[v].fence # run[w].fence
    BY <1>1, <1>3, <1>4 DEF Runs
<1>6. Holder(run[w], request[r], dispatch[r], bill[r])
    BY DEF IInv, Holders, Knows
<1> QED BY <1>2, <1>5, <1>6 DEF Sender, Holder

(* A run that reports its result books what was billed, and nobody is      *)
(* about to send that dispatch.                                            *)
LEMMA ReconcileStep == ASSUME IInv, NEW w \in Workers, Reconcile(w) PROVE IInv'
<1> DEFINE r == run[w].request
           result == run[w].result
<1>1. /\ run[w].pc \in {"reconcile", "reconcile_again"}
      /\ UNCHANGED <<jobs, account, today, bill>>
    BY DEF Reconcile
<1>2. /\ TypeOK /\ Runs /\ request \in [Requests -> RequestRow] /\ late \subseteq Call
      /\ dispatch \in [Requests -> DispatchRow] /\ r \in Requests
      /\ run \in [Workers -> RunState] /\ job \in [Requests -> JobRow]
    BY <1>1, Types, AtWork DEF IInv
<1>3. result # NoResult /\ result \in Results
    BY <1>1, <1>2 DEF Runs, Running, Reporting, RunState
<1>4. run[w].pc \in Sending
    BY <1>1 DEF Sending, Reporting
<1>5. Holder(run[w], request[r], dispatch[r], bill[r])
    BY <1>3 DEF IInv, Holders, Knows
<1>6. ASSUME NEW pc, Goto(w, pc),
             pc \in {"seal_result", "seal_review", "fail", "recover", "reread", "reread_again"}
      PROVE  run' \in [Workers -> RunState] /\ GoingOn(w)
    BY <1>1, <1>2, <1>3, <1>4, <1>6, GoesOnGoing DEF Points
<1>7. CASE /\ Awaited(r, run[w].number)
           /\ ReconcileEffect(r, result)
           /\ Goto(w, Route(request'[r].state, "recover"))
           /\ UNCHANGED <<late, faults>>
    <2>1. dispatch[r].outcome = "pending" /\ dispatch[r].number = run[w].number
        BY <1>7 DEF Awaited
    <2>2. result.class \notin Open => bill[r] = request[r].paid + result.cost
        BY <1>5, <2>1 DEF Holder, Known
    <2>3. PICK q \in RequestRow, d \in DispatchRow :
             /\ request' = [request EXCEPT ![r] = q]
             /\ dispatch' = [dispatch EXCEPT ![r] = d]
             /\ Accounted(q, d, bill[r])
             /\ Resolved(dispatch[r], d)
        BY <1>2, <1>3, <1>7, <2>1, <2>2, ReconcileEffects
    <2>4. books' \in Sums /\ daily' \in [1 .. Days -> Sums] /\ request[r].state \notin Final
        BY <1>2, <1>3, <1>7, <2>1, <2>2, ReconcileEffects
    <2>5. \A v \in Workers : run[v].pc = "post" => run[v].request # r
        BY <1>3, <2>1, NobodySends
    <2>6. run' \in [Workers -> RunState] /\ GoingOn(w)
        BY <1>6, <1>7, Routes
    <2>7. Moves(request[r], dispatch[r], q, d) /\ d.number >= dispatch[r].number
        BY <1>2, <2>3, ModelAssumption DEF Moves, Resolved, DispatchRow
    <2> QED BY <1>1, <1>2, <1>7, <2>3, <2>4, <2>5, <2>6, <2>7, WorkerLedgerStep
<1>8. CASE /\ Goto(w, Route(request[r].state, "recover"))
           /\ UNCHANGED <<ledger, late, faults>>
    <2>1. run' \in [Workers -> RunState] /\ GoingOn(w)
        BY <1>6, <1>8, Routes
    <2> QED BY <1>1, <1>8, <2>1, QuietStep
<1>9. CASE /\ IF Awaited(r, run[w].number)
                THEN /\ late' = late \cup {[request |-> r, number |-> run[w].number,
                                            result |-> result]}
                     /\ Fault
                ELSE UNCHANGED <<late, faults>>
           /\ Goto(w, IF run[w].pc = "reconcile" THEN "reread" ELSE "reread_again")
           /\ UNCHANGED ledger
    <2>1. run' \in [Workers -> RunState] /\ GoingOn(w)
        BY <1>6, <1>9
    <2>2. CASE ~Awaited(r, run[w].number)
        BY <1>1, <1>9, <2>1, <2>2, QuietStep
    <2>3. CASE Awaited(r, run[w].number)
        <3> DEFINE call == [request |-> r, number |-> run[w].number, result |-> result]
        <3>1. late' = late \cup {call} /\ Fault
            BY <1>9, <2>3
        <3>2. /\ call.request = r /\ call.number = run[w].number /\ call.result = result
              /\ call \in Call
            BY <1>2, <1>3 DEF Call, RunState
        <3> HIDE DEF call
        <3>3. TypeOK'
            <4>1. faults' \in 0 .. MaxFaults
                BY <1>2, <3>1, FaultTypes
            <4>2. late' \subseteq Call
                BY <1>2, <3>1, <3>2
            <4> QED BY <1>1, <1>2, <1>9, <2>1, <4>1, <4>2, Types, NextTypes
                    DEF TypeOK, ledger, jobs
        <3>4. Fresh(call)
            <4>1. Known(call.number, call.result, request[r], dispatch[r], bill[r])
                BY <1>5, <3>2 DEF Holder
            <4>2. dispatch[r].number = run[w].number
                BY <2>3 DEF Awaited
            <4>3. \A v \in Workers : run[v].pc = "post" => run[v].request # r
                BY <1>3, <4>2, NobodySends
            <4> QED BY <3>2, <4>1, <4>3 DEF Fresh
        <3>5. /\ \A s \in Requests : dispatch'[s].number >= dispatch[s].number
              /\ \A s \in Requests : job'[s].fence >= job[s].fence
            BY <1>1, <1>2, <1>9, ModelAssumption DEF ledger, jobs, DispatchRow, JobRow
        <3>6. /\ Runs'
              /\ \A v \in Workers : run'[v] = run[v] \/ Calm(run'[v], run[v])
            BY <1>2, <2>1, <3>3, <3>5, GoingOnRuns
        <3>7. Moves(request[r], dispatch[r], request'[r], dispatch'[r])
            BY <1>9 DEF Moves, Same, ledger
        <3>8. Calls' /\ \A v \in Workers : Sends(v)' /\ Knows(v)'
            BY <1>1, <1>2, <1>9, <3>1, <3>3, <3>4, <3>6, <3>7, KnowledgeKept DEF IInv, ledger
        <3>9. Money' /\ JobTellsRequest'
            BY <1>1, <1>9 DEF IInv, Money, JobTellsRequest, ledger, jobs
        <3> QED BY <3>3, <3>6, <3>8, <3>9 DEF IInv, Senders, Holders
    <2> QED BY <2>2, <2>3
<1> QED BY <1>7, <1>8, <1>9 DEF Reconcile

(* So does a report that is executed late, if it is still awaited. *)
LEMMA LateReconcileStep == ASSUME IInv, LateReconcile PROVE IInv'
<1>1. PICK call \in late :
         /\ late' = late \ {call}
         /\ IF Awaited(call.request, call.number)
              THEN ReconcileEffect(call.request, call.result)
              ELSE UNCHANGED ledger
    BY DEF LateReconcile
<1>2. UNCHANGED <<jobs, account, today, bill, run, faults>>
    BY <1>1 DEF LateReconcile
<1> DEFINE r == call.request
<1>3. /\ TypeOK /\ Runs /\ late \subseteq Call
      /\ request \in [Requests -> RequestRow] /\ dispatch \in [Requests -> DispatchRow]
      /\ job \in [Requests -> JobRow] /\ run \in [Workers -> RunState]
      /\ books \in Sums /\ daily \in [1 .. Days -> Sums]
    BY Types DEF IInv
<1>4. r \in Requests /\ call.result \in Results /\ late' \subseteq Call
    BY <1>1, <1>3 DEF Call
<1>5. Known(call.number, call.result, request[r], dispatch[r], bill[r])
    BY DEF IInv, Calls
<1>6. CASE Awaited(r, call.number)
    <2>1. /\ dispatch[r].outcome = "pending" /\ dispatch[r].number = call.number
          /\ ReconcileEffect(r, call.result)
        BY <1>1, <1>6 DEF Awaited
    <2>2. call.result.class \notin Open => bill[r] = request[r].paid + call.result.cost
        BY <1>5, <2>1 DEF Known
    <2>3. PICK q \in RequestRow, d \in DispatchRow :
             /\ request' = [request EXCEPT ![r] = q]
             /\ dispatch' = [dispatch EXCEPT ![r] = d]
             /\ Accounted(q, d, bill[r])
             /\ Resolved(dispatch[r], d)
        BY <1>4, <2>1, <2>2, ReconcileEffects
    <2>4. books' \in Sums /\ daily' \in [1 .. Days -> Sums] /\ request[r].state \notin Final
        BY <1>4, <2>1, <2>2, ReconcileEffects
    <2>5. /\ TypeOK'
          /\ request'[r] = q /\ dispatch'[r] = d
          /\ request' = [request EXCEPT ![r] = request'[r]]
          /\ dispatch' = [dispatch EXCEPT ![r] = dispatch'[r]]
        BY <1>2, <1>3, <1>4, <2>3, <2>4, LedgerTypes
    <2>6. /\ \A s \in Requests : dispatch'[s].number >= dispatch[s].number
          /\ \A s \in Requests : job'[s].fence >= job[s].fence
        <3>1. \A s \in Requests : dispatch[s].number \in Nat /\ job[s].fence \in Nat
            BY <1>3, ModelAssumption DEF DispatchRow, JobRow
        <3>2. dispatch'[r].number = dispatch[r].number
            BY <2>3, <2>5 DEF Resolved
        <3>3. \A s \in Requests \ {r} : dispatch'[s] = dispatch[s]
            BY <1>3, <2>3
        <3> QED BY <1>2, <3>1, <3>2, <3>3 DEF jobs
    <2>7. Runs'
        BY <1>2, <1>3, <2>5, <2>6, NobodyMoves
    <2>8. \A w \in Workers : run[w].pc = "post" => run[w].request # r
        BY <2>1 DEF IInv, Senders, Sends, Sender
    <2>9. Moves(request[r], dispatch[r], request'[r], dispatch'[r])
        BY <2>3, <2>5 DEF Moves
    <2>10. UNCHANGED <<job, sealed, bill>> /\ late' \subseteq late
           /\ \A w \in Workers : run'[w] = run[w]
        BY <1>1, <1>2 DEF jobs
    <2>11. Accounted(request'[r], dispatch'[r], bill[r])
        BY <2>3, <2>5
    <2> QED BY <1>4, <2>4, <2>5, <2>7, <2>8, <2>9, <2>10, <2>11, LedgerStep
<1>7. CASE ~Awaited(r, call.number)
    <2>1. UNCHANGED ledger
        BY <1>1, <1>7
    <2>2. TypeOK'
        BY <1>2, <1>3, <1>4, <2>1, Types, NextTypes DEF TypeOK, ledger, jobs
    <2>3. /\ \A s \in Requests : dispatch'[s].number >= dispatch[s].number
          /\ \A s \in Requests : job'[s].fence >= job[s].fence
        BY <1>2, <1>3, <2>1, ModelAssumption DEF ledger, jobs, DispatchRow, JobRow
    <2>4. Runs'
        BY <1>2, <1>3, <2>2, <2>3, NobodyMoves
    <2>5. Moves(request[r], dispatch[r], request'[r], dispatch'[r])
        BY <2>1 DEF Moves, Same, ledger
    <2>6. Calls' /\ \A w \in Workers : Sends(w)' /\ Knows(w)'
        BY <1>1, <1>2, <1>4, <2>1, <2>2, <2>5, KnowledgeKept DEF IInv, ledger
    <2>7. Money' /\ JobTellsRequest'
        BY <1>2, <2>1 DEF IInv, Money, JobTellsRequest, ledger, jobs
    <2> QED BY <2>2, <2>4, <2>6, <2>7 DEF IInv, Senders, Holders
<1> QED BY <1>6, <1>7

(* A dispatch that begins has nobody who knows its result. *)
LEMMA BeginStep == ASSUME IInv, NEW w \in Workers, Begin(w) PROVE IInv'
<1> DEFINE r == run[w].request
<1>1. /\ run[w].pc = "begin" /\ request[r].state = "reserved"
      /\ dispatch[r].number < MaxAttempts
      /\ BeginEffect(r, run[w].fence)
      /\ UNCHANGED <<jobs, account, today, bill, late>>
    BY DEF Begin
<1>2. /\ TypeOK /\ Runs /\ request \in [Requests -> RequestRow]
      /\ dispatch \in [Requests -> DispatchRow] /\ r \in Requests
      /\ run \in [Workers -> RunState] /\ job \in [Requests -> JobRow] /\ late \subseteq Call
      /\ books \in Sums /\ daily \in [1 .. Days -> Sums]
    BY <1>1, Types, AtWork DEF IInv
<1>3. /\ Accounted(request[r], dispatch[r], bill[r])
      /\ request[r] \in RequestRow /\ dispatch[r] \in DispatchRow /\ bill[r] \in Nat
    BY <1>2, Types DEF IInv, Money
<1>4. Waiting(request[r], dispatch[r], bill[r]) /\ request[r].state \notin Final
    BY <1>1, <1>3 DEF Accounted, Final
<1>5. CASE account.enabled
    <2> DEFINE number == dispatch[r].number + 1
               q == Row("in_flight", request[r].day, request[r].hold, request[r].paid)
               d == Sent(number, run[w].fence, "pending")
               y == At("post", r, run[w].fence, number, NoResult)
    <2>1. /\ request' = [request EXCEPT ![r] = q]
          /\ dispatch' = [dispatch EXCEPT ![r] = d]
          /\ books' = books /\ daily' = daily
        BY <1>1, <1>5 DEF BeginEffect
    <2>2. number \in 1 .. MaxAttempts /\ number \in Nat /\ dispatch[r].number \in Nat
        BY <1>1, <1>3, Amounts DEF DispatchRow
    <2>3. /\ d.number = number /\ d.fence = run[w].fence /\ d.outcome = "pending"
          /\ q.paid = request[r].paid
        BY DEF Row, Sent
    <2>4. q \in RequestRow /\ d \in DispatchRow
        BY <1>2, <1>3, <2>2 DEF Row, RequestRow, Sent, DispatchRow, RunState, States, Outcomes
    <2>5. Accounted(q, d, bill[r])
        BY <1>1, <1>3, BegunAccounts
    <2>6. Raised(dispatch[r], d) /\ Moves(request[r], dispatch[r], q, d)
          /\ ~Resolved(dispatch[r], d)
        BY <1>4, <2>2, <2>3 DEF Raised, Moves, Resolved, Waiting
    <2>7. d.number >= dispatch[r].number
        BY <2>2, <2>3
    <2>8. CASE Goto(w, "fail") /\ Fault
        <3>1. run' \in [Workers -> RunState] /\ GoingOn(w)
            BY <1>1, <1>2, <2>8, GoesOnGoing DEF Points, Sending, Reporting
        <3> HIDE DEF q, d
        <3> QED BY <1>1, <1>2, <1>4, <2>1, <2>4, <2>5, <2>6, <2>7, <2>8, <3>1, WorkerLedgerStep
    <2>9. CASE run' = [run EXCEPT ![w] = y] /\ UNCHANGED faults
        <3>1. /\ y.pc = "post" /\ y.request = r /\ y.fence = run[w].fence /\ y.number = number
              /\ y.result = NoResult
            BY DEF At
        <3>2. y \in RunState
            BY <1>2, <2>2 DEF At, RunState, Points
        <3>3. y # Idle /\ Running(y)
            BY <1>2, <3>1, ModelAssumption DEF Idle, At, Running, Reporting
        <3> HIDE DEF y, q, d, number
        <3>4. /\ run' \in [Workers -> RunState] /\ run'[w] = y
              /\ run' = [run EXCEPT ![w] = run'[w]]
              /\ \A v \in Workers \ {w} : run'[v] = run[v]
            BY <1>2, <2>9, <3>2
        <3>5. /\ TypeOK'
              /\ request'[r] = q /\ dispatch'[r] = d
              /\ request' = [request EXCEPT ![r] = request'[r]]
              /\ dispatch' = [dispatch EXCEPT ![r] = dispatch'[r]]
            BY <1>1, <1>2, <2>1, <2>4, <2>9, <3>4, LedgerTypes
        <3>6. /\ \A s \in Requests : dispatch'[s].number >= dispatch[s].number
              /\ \A s \in Requests : job'[s].fence >= job[s].fence
            <4>1. \A s \in Requests : dispatch[s].number \in Nat /\ job[s].fence \in Nat
                BY <1>2, ModelAssumption DEF DispatchRow, JobRow
            <4>2. \A s \in Requests \ {r} : dispatch'[s] = dispatch[s]
                BY <1>2, <2>1
            <4> QED BY <1>1, <2>7, <3>5, <4>1, <4>2 DEF jobs
        <3>7. run'[w].pc \in Sending =>
                 run'[w].number \in 1 .. dispatch'[run'[w].request].number
            BY <2>2, <2>3, <3>1, <3>4, <3>5
        <3>8. run[w] # Idle
            BY <1>1, <1>2, AtWork
        <3>9. Runs'
            BY <1>2, <3>1, <3>3, <3>4, <3>5, <3>6, <3>7, <3>8, RunsKept
        <3>10. Sends(w)' /\ Knows(w)'
            <4>1. bill[r] = request[r].paid
                BY <1>4 DEF Waiting
            <4>2. Sender(run'[w], request'[r], dispatch'[r], bill'[r])
                BY <1>1, <2>3, <3>1, <3>4, <3>5, <4>1 DEF Sender
            <4>3. \A call \in late' : call.request = r => call.number # run'[w].number
                <5> SUFFICES ASSUME NEW call \in late, call.request = r
                             PROVE  call.number # number
                    BY <1>1, <3>1, <3>4
                <5>1. call.number \in 1 .. dispatch[r].number
                    BY DEF IInv, Calls, Known
                <5> QED BY <2>2, <5>1 DEF number
            <4>4. Sends(w)'
                BY <3>1, <3>4, <4>2, <4>3 DEF Sends
            <4>5. Knows(w)'
                BY <3>1, <3>4 DEF Knows
            <4> QED BY <4>4, <4>5
        <3>11. late' \subseteq late /\ UNCHANGED <<job, sealed, bill>>
            BY <1>1 DEF jobs
        <3> QED BY <1>2, <1>4, <2>5, <2>6, <3>4, <3>5, <3>9, <3>10, <3>11, LedgerStep
    <2> QED BY <1>5, <2>8, <2>9 DEF Begin
<1>6. CASE ~account.enabled
    <2> DEFINE q == Row("review_required", request[r].day, 0, request[r].paid)
    <2>1. /\ request' = [request EXCEPT ![r] = q]
          /\ dispatch' = [dispatch EXCEPT ![r] = dispatch[r]]
          /\ Book(r, 0, request[r].hold)
        BY <1>1, <1>2, <1>6 DEF BeginEffect
    <2>2. request[r].hold \in Int /\ request[r].paid \in Nat /\ request[r].day \in 0 .. Days
        BY <1>3 DEF RequestRow
    <2>3. books' \in Sums /\ daily' \in [1 .. Days -> Sums]
        BY <1>2, <2>1, <2>2, BookTypes
    <2>4. q \in RequestRow
        BY <2>2 DEF Row, RequestRow, States
    <2>5. Accounted(q, dispatch[r], bill[r])
        BY <1>1, <1>3, BegunAccounts
    <2>6. Moves(request[r], dispatch[r], q, dispatch[r])
        BY DEF Moves, Same, Row
    <2>7. dispatch[r].number >= dispatch[r].number
        BY <1>3, ModelAssumption DEF DispatchRow
    <2>8. run' \in [Workers -> RunState] /\ GoingOn(w) /\ (Fault \/ UNCHANGED faults)
        <3>1. Answer(w, "seal_review")
            BY <1>6 DEF Begin
        <3> QED BY <1>1, <1>2, <3>1, AnswerGoing DEF Points, Sending, Reporting
    <2> HIDE DEF q
    <2> QED BY <1>1, <1>2, <1>3, <1>4, <2>1, <2>3, <2>4, <2>5, <2>6, <2>7, <2>8, WorkerLedgerStep
<1> QED BY <1>5, <1>6

(* The provider bills the one dispatch nobody else knows the result of. *)
LEMMA PostStep == ASSUME IInv, NEW w \in Workers, Post(w) PROVE IInv'
<1> DEFINE r == run[w].request
<1>1. PICK result \in Results \cup {NoResult}, cost \in 0 .. Price :
         /\ result.class \in {"success", "retry", "refused"} => cost = result.cost
         /\ bill' = [bill EXCEPT ![r] = bill[r] + cost]
         /\ run' = [run EXCEPT ![w] =
               At(IF result = NoResult THEN "reread" ELSE "reconcile",
                  r, run[w].fence, run[w].number, result)]
         /\ IF result = NoResult THEN Fault ELSE UNCHANGED faults
    BY DEF Post
<1>2. run[w].pc = "post" /\ UNCHANGED <<jobs, ledger, account, today, late>>
    BY DEF Post
<1> DEFINE y == At(IF result = NoResult THEN "reread" ELSE "reconcile",
                   r, run[w].fence, run[w].number, result)
<1>3. /\ TypeOK /\ Runs /\ request \in [Requests -> RequestRow]
      /\ dispatch \in [Requests -> DispatchRow] /\ r \in Requests /\ bill \in [Requests -> Nat]
      /\ run \in [Workers -> RunState] /\ job \in [Requests -> JobRow] /\ late \subseteq Call
    BY <1>2, Types, AtWork DEF IInv
<1>4. /\ Sender(run[w], request[r], dispatch[r], bill[r])
      /\ \A call \in late : call.request = r => call.number # run[w].number
    BY <1>2 DEF IInv, Senders, Sends
<1>5. /\ y.pc \in {"reread", "reconcile"} /\ y.request = r /\ y.fence = run[w].fence
      /\ y.number = run[w].number /\ y.result = result
      /\ y.pc = "reconcile" => result # NoResult
      /\ y.pc = "reread" => result = NoResult
    BY DEF At
<1>6. y \in RunState
    BY <1>3 DEF At, RunState, Points
<1>7. y # Idle /\ Running(y)
    BY <1>3, <1>5, ModelAssumption DEF Idle, At, Running, Reporting, Unresolved
<1>8. cost \in Nat /\ bill[r] \in Nat /\ cost <= Price
    BY <1>3, Amounts
<1>9. run' = [run EXCEPT ![w] = y]
    BY <1>1
<1> HIDE DEF y
<1>10. /\ bill' \in [Requests -> Nat] /\ bill'[r] = bill[r] + cost
       /\ \A s \in Requests \ {r} : bill'[s] = bill[s]
    BY <1>1, <1>3, <1>8
<1>11. /\ run' \in [Workers -> RunState] /\ run'[w] = y /\ run' = [run EXCEPT ![w] = run'[w]]
       /\ \A v \in Workers \ {w} : run'[v] = run[v]
    BY <1>3, <1>6, <1>9
<1>12. TypeOK'
    <2>1. faults' \in 0 .. MaxFaults
        BY <1>1, <1>3, FaultTypes
    <2> QED BY <1>2, <1>3, <1>10, <1>11, <2>1, Types, NextTypes DEF TypeOK, ledger, jobs
<1>13. Money'
    <2>1. Accounted(request[r], dispatch[r], bill[r] + cost)
        <3>1. Accounted(request[r], dispatch[r], bill[r])
            BY <1>3 DEF IInv, Money
        <3> QED BY <1>3, <1>4, <1>8, <3>1, BilledAccounts DEF Sender
    <2> QED BY <1>2, <1>10, <2>1 DEF IInv, Money, ledger
<1>14. /\ \A s \in Requests : dispatch'[s].number >= dispatch[s].number
       /\ \A s \in Requests : job'[s].fence >= job[s].fence
    BY <1>2, <1>3, ModelAssumption DEF ledger, jobs, DispatchRow, JobRow
<1>15. Runs'
    <2>1. run[w].number \in 1 .. dispatch[r].number
        BY <1>2, <1>3 DEF Runs, Sending
    <2>2. run[w] # Idle
        BY <1>2, <1>3, AtWork
    <2>3. run'[w].number \in 1 .. dispatch'[run'[w].request].number
        BY <1>2, <1>5, <1>11, <2>1 DEF ledger
    <2> QED BY <1>3, <1>5, <1>7, <1>11, <1>12, <1>14, <2>2, <2>3, RunsKept
<1>16. Calls'
    <2> SUFFICES ASSUME NEW call \in late
                 PROVE  Known(call.number, call.result, request[call.request],
                              dispatch[call.request], bill'[call.request])
        BY <1>2 DEF Calls, ledger
    <2>1. Known(call.number, call.result, request[call.request], dispatch[call.request],
                bill[call.request])
        BY DEF IInv, Calls
    <2>2. CASE call.request = r
        <3>1. call.number # dispatch[r].number
            BY <1>4, <2>2 DEF Sender
        <3> QED BY <2>1, <2>2, <3>1 DEF Known
    <2>3. CASE call.request # r
        BY <1>3, <1>10, <2>1, <2>3 DEF Call
    <2> QED BY <2>2, <2>3
<1>17. ASSUME NEW v \in Workers, v # w
       PROVE  Sends(v)' /\ Knows(v)'
    <2>1. run'[v] = run[v]
        BY <1>11, <1>17
    <2>2. CASE run[v].request # r
        <3>1. run[v].pc = "post" \/ run[v].result # NoResult => run[v].request \in Requests
            BY <1>3, AtWork DEF Runs, Running, Idle, At
        <3>2. run[v].pc = "post" \/ run[v].result # NoResult =>
                 bill'[run[v].request] = bill[run[v].request]
            BY <1>10, <2>2, <3>1
        <3>3. Sends(v)'
            BY <1>2, <2>1, <3>2 DEF IInv, Senders, Sends, ledger
        <3>4. Knows(v)'
            BY <1>2, <2>1, <3>2 DEF IInv, Holders, Knows, ledger
        <3> QED BY <3>3, <3>4
    <2>3. CASE run[v].request = r
        <3>1. run[v].fence # run[w].fence
            <4>1. run[w] # Idle
                BY <1>2, <1>3, AtWork
            <4> QED BY <1>3, <1>17, <2>3, <4>1 DEF Runs
        <3>2. run[v].fence # dispatch[r].fence
            BY <1>4, <3>1 DEF Sender
        <3>3. run[v].pc # "post"
            BY <2>3, <3>2 DEF IInv, Senders, Sends, Sender
        <3>4. Knows(v)'
            <4> SUFFICES ASSUME run[v].result # NoResult
                         PROVE  Holder(run[v], request[r], dispatch[r], bill'[r])
                BY <1>2, <2>1, <2>3 DEF Knows, ledger
            <4>1. Holder(run[v], request[r], dispatch[r], bill[r])
                BY <2>3 DEF IInv, Holders, Knows
            <4>2. run[v].number # dispatch[r].number
                BY <3>2, <4>1 DEF Holder
            <4> QED BY <4>1, <4>2 DEF Holder, Known
        <3> QED BY <2>1, <3>3, <3>4 DEF Sends
    <2> QED BY <2>2, <2>3
<1>18. Sends(w)' /\ Knows(w)'
    <2>1. run'[w].pc # "post"
        BY <1>5, <1>11
    <2>2. Sends(w)'
        BY <2>1 DEF Sends
    <2>3. Knows(w)'
        <3> SUFFICES ASSUME result # NoResult
                     PROVE  Holder(y, request[r], dispatch[r], bill[r] + cost)
            BY <1>2, <1>5, <1>10, <1>11 DEF Knows, ledger
        <3>1. result.class \notin Open => cost = result.cost
            BY <1>1, ResultTypes DEF Open
        <3>2. y.number = dispatch[r].number /\ y.fence = dispatch[r].fence
              /\ bill[r] = request[r].paid
            BY <1>4, <1>5 DEF Sender
        <3>3. y.number \in 1 .. dispatch[r].number
            BY <1>2, <1>3, <1>5 DEF Runs, Sending
        <3> QED BY <1>5, <3>1, <3>2, <3>3 DEF Holder, Known
    <2> QED BY <2>2, <2>3
<1>19. Senders' /\ Holders'
    BY <1>17, <1>18 DEF Senders, Holders
<1>20. JobTellsRequest'
    BY <1>2 DEF IInv, JobTellsRequest, ledger, jobs
<1> QED BY <1>12, <1>13, <1>15, <1>16, <1>19, <1>20 DEF IInv
-----------------------------------------------------------------------------
(* The invariant                                                           *)

(* In the beginning nothing is known, held or billed. *)
LEMMA InitHolds == Init => IInv
<1> SUFFICES ASSUME Init PROVE IInv
    OBVIOUS
<1>1. TypeOK
    <2>1. /\ 0 \in 0 .. MaxTries /\ 0 \in 0 .. MaxAttempts /\ 0 \in 0 .. MaxConfigurations
          /\ 0 \in 0 .. MaxFaults /\ 0 \in 0 .. Days /\ 1 \in 1 .. Days
        BY ModelAssumption
    <2>2. Idle \in RunState
        BY <2>1 DEF Idle, At, RunState, Points
    <2>3. Lease("ready", 0, FALSE) \in JobRow /\ Row("none", 0, 0, 0) \in RequestRow
          /\ Sent(0, 0, "none") \in DispatchRow /\ Entry(0, 0) \in Sums
        BY <2>1 DEF Lease, JobRow, Row, RequestRow, States, Sent, DispatchRow, Outcomes, Entry, Sums
    <2>4. account \in [enabled : BOOLEAN, budget : Budgets, version : 0 .. MaxConfigurations]
        BY <2>1, ModelAssumption DEF Init
    <2> QED BY <2>1, <2>2, <2>3, <2>4
            DEF Init, TypeOK, JobRow, RequestRow, DispatchRow, Sums, RunState
<1>2. Money
    <2>1. Accounted(Row("none", 0, 0, 0), Sent(0, 0, "none"), 0)
        BY DEF Accounted, Row, Sent, Untouched, Doubts, Open, Final
    <2> QED BY <2>1 DEF Money, Init
<1>3. \A w \in Workers : run[w] = Idle
    BY DEF Init
<1>4. Calls
    BY DEF Init, Calls
<1>5. Senders /\ Holders
    BY <1>3 DEF Senders, Sends, Holders, Knows, Idle, At
<1>6. Runs
    BY <1>3 DEF Runs, Running, Idle, At, Sending, Reporting
<1>7. JobTellsRequest
    BY DEF Init, JobTellsRequest, Lease
<1> QED BY <1>1, <1>2, <1>4, <1>5, <1>6, <1>7 DEF IInv

(* A step of a run keeps the invariant. *)
LEMMA WorkerStep == ASSUME IInv, NEW w \in Workers, Claim(w) \/ Step(w) PROVE IInv'
BY ClaimStep, LookupStep, CreateStep, ReserveStep, BeginStep, PostStep, ReconcileStep,
   RereadStep, ReadStep, RecoverStep, SealResultStep, SealReviewStep, CompleteStep,
   CallFailsStep, FailStep, StopStep DEF Step

(* Every step keeps the invariant. *)
LEMMA Inductive == IInv /\ [Next]_vars => IInv'
<1> SUFFICES ASSUME IInv, [Next]_vars PROVE IInv'
    OBVIOUS
<1>1. CASE Next
    BY <1>1, WorkerStep, LateReconcileStep, ExpireStep, ConfigureStep, MidnightStep DEF Next
<1>2. CASE UNCHANGED vars
    <2>1. UNCHANGED <<job, request, dispatch, sealed, bill, run, late>>
        BY <1>2 DEF vars
    <2>2. TypeOK'
        BY <1>2 DEF vars, IInv, TypeOK
    <2>3. Money' /\ Calls' /\ JobTellsRequest'
        BY <2>1 DEF IInv, Money, Calls, JobTellsRequest
    <2>4. Senders' /\ Holders'
        BY <2>1 DEF IInv, Senders, Sends, Holders, Knows
    <2>5. Runs'
        BY <2>1 DEF IInv, Runs
    <2> QED BY <2>2, <2>3, <2>4, <2>5 DEF IInv
<1> QED BY <1>1, <1>2

(* What is known of the ledger, the runs and the calls holds always. *)
THEOREM Invariance == Spec => []IInv
BY InitHolds, Inductive, PTL DEF Spec

(* The types are kept, and with them the bounds: never more attempts than  *)
(* MaxAttempts, never more claims of a job than MaxTries.                  *)
THEOREM TypeCorrect == Spec => []TypeOK
<1>1. IInv => TypeOK
    BY DEF IInv
<1> QED BY <1>1, Invariance, PTL

(* What a completed job says of its request is so, and stays so whatever   *)
(* reconciliations come late.                                              *)
THEOREM JobsTellRequests == Spec => []JobTellsRequest
<1>1. IInv => JobTellsRequest
    BY DEF IInv
<1> QED BY <1>1, Invariance, PTL

(* Every request is accounted for: what is held and booked for it adds up  *)
(* to the whole hold until it is closed, and then to its bill.             *)
THEOREM EveryRequestAccounted == Spec => []Money
<1>1. IInv => Money
    BY DEF IInv
<1> QED BY <1>1, Invariance, PTL
-----------------------------------------------------------------------------
(* Sums over a finite set                                                  *)

(* Among subsets of a finite set there is one from which nothing can be    *)
(* taken away: the induction the lemmas on sums use.                       *)
LEMMA MinimalExists ==
    ASSUME NEW S, IsFiniteSet(S), NEW B, B \subseteq SUBSET S, B # {}
    PROVE  \E s \in B : \A x \in s : s \ {x} \notin B
<1> DEFINE N == {Cardinality(s) : s \in B}
<1>1. \A s \in B : IsFiniteSet(s) /\ Cardinality(s) \in Nat
    BY FS_Subset, FS_CardinalityType
<1>2. N \subseteq Nat /\ N # {}
    BY <1>1
<1>3. PICK n \in N : \A m \in N : ~(m < n)
    <2> HIDE DEF N
    <2>1. PICK n \in N : \A m \in N : ~(<<m, n>> \in OpToRel(<, Nat))
        BY <1>2, NatLessThanWellFounded, WFMin
    <2>2. \A m \in N : ~(m < n)
        BY <1>2, <2>1 DEF OpToRel
    <2> QED BY <2>1, <2>2
<1>4. PICK s \in B : n = Cardinality(s)
    OBVIOUS
<1>6. ASSUME NEW x \in s PROVE s \ {x} \notin B
    <2>1. Cardinality(s \ {x}) = Cardinality(s) - 1
        BY <1>1, FS_RemoveElement
    <2>2. Cardinality(s) - 1 < n
        BY <1>1, <1>4
    <2>3. s \ {x} \in B => Cardinality(s \ {x}) \in N
        OBVIOUS
    <2> HIDE DEF N
    <2> QED BY <1>3, <2>1, <2>2, <2>3
<1> QED BY <1>6

(* The recursion that sums over the subsets of a set. *)
Picked(s) == CHOOSE x \in s : TRUE
AddsUp(f, g, D) == g = [s \in D |-> IF s = {} THEN 0 ELSE f[Picked(s)] + g[s \ {Picked(s)}]]

(* The library's sum is a solution of that equation, at S.                *)
LEMMA SumIs ==
    ASSUME NEW f, NEW S
    PROVE  SumFunctionOnSet(f, S) = (CHOOSE g : AddsUp(f, g, SUBSET S))[S]
BY DEF SumFunctionOnSet, FoldFunctionOnSet, MapThenFoldSet, AddsUp, Picked

(* An element is picked from every set that has one.                      *)
LEMMA PickedIn == ASSUME NEW s, s # {} PROVE Picked(s) \in s
BY DEF Picked

(* It has a solution: one that covers the subsets of up to n elements is   *)
(* extended to those of n + 1.                                             *)
LEMMA SumsExist ==
    ASSUME NEW f, NEW S, IsFiniteSet(S)
    PROVE  \E g : AddsUp(f, g, SUBSET S)
<1> DEFINE D(n) == {s \in SUBSET S : Cardinality(s) <= n}
           Q(n) == \E g : AddsUp(f, g, D(n))
           B == {n \in Nat : ~Q(n)}
<1>1. \A s \in SUBSET S : IsFiniteSet(s) /\ Cardinality(s) \in Nat
    BY FS_Subset, FS_CardinalityType
<1>2. Q(0)
    <2>1. \A s \in D(0) : s = {}
        BY <1>1, FS_EmptySet
    <2> DEFINE g == [s \in D(0) |-> 0]
    <2>2. g = [s \in D(0) |-> IF s = {} THEN 0 ELSE f[Picked(s)] + g[s \ {Picked(s)}]]
        BY <2>1
    <2> QED BY <2>2 DEF AddsUp
<1>3. ASSUME NEW n \in Nat, Q(n) PROVE Q(n + 1)
    <2>1. PICK g : g = [s \in D(n) |-> IF s = {} THEN 0 ELSE f[Picked(s)] + g[s \ {Picked(s)}]]
        BY <1>3 DEF AddsUp
    <2> DEFINE h == [s \in D(n + 1) |-> IF s = {} THEN 0 ELSE f[Picked(s)] + g[s \ {Picked(s)}]]
    <2>2. ASSUME NEW s \in D(n + 1), s # {} PROVE s \ {Picked(s)} \in D(n)
        <3>1. Picked(s) \in s /\ Cardinality(s) \in Nat /\ IsFiniteSet(s)
            BY <1>1, <2>2, PickedIn
        <3>2. Cardinality(s \ {Picked(s)}) = Cardinality(s) - 1
            BY <3>1, FS_RemoveElement
        <3> QED BY <3>1, <3>2
    <2>3. \A s \in D(n) : s \in D(n + 1) /\ h[s] = g[s]
        <3>1. \A s \in D(n) : s \in D(n + 1)
            BY <1>1
        <3>2. \A s \in D(n) : g[s] = IF s = {} THEN 0 ELSE f[Picked(s)] + g[s \ {Picked(s)}]
            BY <2>1
        <3> QED BY <3>1, <3>2
    <2>4. \A s \in D(n + 1) : s # {} => h[s \ {Picked(s)}] = g[s \ {Picked(s)}]
        BY <2>2, <2>3
    <2>5. h = [s \in D(n + 1) |-> IF s = {} THEN 0 ELSE f[Picked(s)] + h[s \ {Picked(s)}]]
        <3> DEFINE k == [s \in D(n + 1) |-> IF s = {} THEN 0 ELSE f[Picked(s)] + h[s \ {Picked(s)}]]
        <3>1. \A s \in D(n + 1) : h[s] = k[s]
            BY <2>4
        <3>2. DOMAIN h = D(n + 1) /\ DOMAIN k = D(n + 1)
            OBVIOUS
        <3> QED BY <3>1, <3>2
    <2> HIDE DEF h
    <2> QED BY <2>5 DEF AddsUp
<1> HIDE DEF Q
<1>4. B = {}
    <2> SUFFICES ASSUME B # {} PROVE FALSE
        OBVIOUS
    <2>1. PICK n \in B : \A m \in B : ~(<<m, n>> \in OpToRel(<, Nat))
        BY NatLessThanWellFounded, WFMin
    <2>2. \A m \in B : ~(m < n)
        BY <2>1 DEF OpToRel
    <2>3. n \in Nat /\ ~Q(n) /\ n # 0
        BY <1>2
    <2>4. n - 1 \in Nat /\ n - 1 < n /\ (n - 1) + 1 = n
        BY <2>3
    <2>5. Q(n - 1)
        BY <2>2, <2>4
    <2>6. Q((n - 1) + 1)
        BY <1>3, <2>4, <2>5
    <2> QED BY <2>3, <2>4, <2>6
<1>5. Q(Cardinality(S))
    BY <1>1, <1>4
<1>6. D(Cardinality(S)) = SUBSET S
    BY FS_Subset, FS_CardinalityType
<1> HIDE DEF D
<1> QED BY <1>5, <1>6 DEF Q

(* And only one, on whatever larger set of sets it is taken. *)
LEMMA SumOf ==
    ASSUME NEW f, NEW T, IsFiniteSet(T), NEW D, \A s \in SUBSET T : s \in D,
           NEW g, AddsUp(f, g, D)
    PROVE  SumFunctionOnSet(f, T) = g[T]
<1> DEFINE h == CHOOSE k : AddsUp(f, k, SUBSET T)
           B == {s \in SUBSET T : g[s] # h[s]}
<1>1. AddsUp(f, h, SUBSET T) /\ SumFunctionOnSet(f, T) = h[T]
    BY SumsExist, SumIs
<1> HIDE DEF h
<1>2. \A s \in SUBSET T : h[s] = IF s = {} THEN 0 ELSE f[Picked(s)] + h[s \ {Picked(s)}]
    BY <1>1 DEF AddsUp
<1>3. \A s \in SUBSET T : g[s] = IF s = {} THEN 0 ELSE f[Picked(s)] + g[s \ {Picked(s)}]
    BY DEF AddsUp
<1>4. B = {}
    <2> SUFFICES ASSUME B # {} PROVE FALSE
        OBVIOUS
    <2>1. PICK s \in B : \A x \in s : s \ {x} \notin B
        BY MinimalExists
    <2>2. s # {} /\ Picked(s) \in s
        BY <1>2, <1>3, PickedIn
    <2>3. g[s \ {Picked(s)}] = h[s \ {Picked(s)}]
        BY <2>1, <2>2
    <2> QED BY <1>2, <1>3, <2>2, <2>3
<1> QED BY <1>1, <1>4

(* So a sum is the picked element and the sum of the rest. *)
LEMMA SumUnfolds ==
    ASSUME NEW f, NEW S, IsFiniteSet(S)
    PROVE  /\ SumFunctionOnSet(f, {}) = 0
           /\ S # {} => SumFunctionOnSet(f, S)
                          = f[Picked(S)] + SumFunctionOnSet(f, S \ {Picked(S)})
<1>1. PICK g : AddsUp(f, g, SUBSET S)
    BY SumsExist
<1>2. g[{}] = 0 /\ (S # {} => g[S] = f[Picked(S)] + g[S \ {Picked(S)}])
    BY <1>1 DEF AddsUp
<1>3. ASSUME NEW T, T \in SUBSET S PROVE SumFunctionOnSet(f, T) = g[T]
    <2>1. IsFiniteSet(T)
        BY <1>3, FS_Subset
    <2>2. \A s \in SUBSET T : s \in SUBSET S
        BY <1>3
    <2> QED BY <1>1, <2>1, <2>2, SumOf
<1>4. {} \in SUBSET S /\ S \in SUBSET S /\ S \ {Picked(S)} \in SUBSET S
    OBVIOUS
<1> QED BY <1>2, <1>3, <1>4

(* Integers sum up to an integer.                                         *)
LEMMA SumTyped ==
    ASSUME NEW f, NEW S, IsFiniteSet(S), \A x \in S : f[x] \in Int
    PROVE  SumFunctionOnSet(f, S) \in Int
<1> DEFINE B == {s \in SUBSET S : SumFunctionOnSet(f, s) \notin Int}
<1>1. B = {}
    <2> SUFFICES ASSUME B # {} PROVE FALSE
        OBVIOUS
    <2>1. PICK s \in B : \A x \in s : s \ {x} \notin B
        BY MinimalExists
    <2>2. IsFiniteSet(s)
        BY FS_Subset
    <2>3. s # {} /\ Picked(s) \in s
        <3>1. SumFunctionOnSet(f, {}) = 0
            BY SumUnfolds
        <3>2. SumFunctionOnSet(f, s) \notin Int
            OBVIOUS
        <3>3. s # {}
            BY <3>1, <3>2
        <3> QED BY <3>3, PickedIn
    <2>4. SumFunctionOnSet(f, s \ {Picked(s)}) \in Int
        BY <2>1, <2>3
    <2> QED BY <2>2, <2>3, <2>4, SumUnfolds
<1> QED BY <1>1

(* Any element will do. *)
LEMMA SumTakesOut ==
    ASSUME NEW f, NEW S, IsFiniteSet(S), \A x \in S : f[x] \in Int, NEW e \in S
    PROVE  SumFunctionOnSet(f, S) = f[e] + SumFunctionOnSet(f, S \ {e})
<1> DEFINE Sum(s) == SumFunctionOnSet(f, s)
           B == {s \in SUBSET S : \E x \in s : Sum(s) # f[x] + Sum(s \ {x})}
<1>1. B = {}
    <2> SUFFICES ASSUME B # {} PROVE FALSE
        OBVIOUS
    <2>1. PICK s \in B : \A x \in s : s \ {x} \notin B
        BY MinimalExists
    <2>2. PICK x \in s : Sum(s) # f[x] + Sum(s \ {x})
        OBVIOUS
    <2> DEFINE c == Picked(s)
    <2>3. c \in s /\ Sum(s) = f[c] + Sum(s \ {c})
        BY <2>2, FS_Subset, SumUnfolds, PickedIn
    <2> HIDE DEF c
    <2>4. x # c
        BY <2>2, <2>3
    <2>5. Sum(s \ {c}) = f[x] + Sum((s \ {c}) \ {x})
        BY <2>1, <2>3, <2>4
    <2>6. Sum(s \ {x}) = f[c] + Sum((s \ {x}) \ {c})
        BY <2>1, <2>3, <2>4
    <2>7. (s \ {c}) \ {x} = (s \ {x}) \ {c}
        OBVIOUS
    <2>8. Sum((s \ {x}) \ {c}) \in Int /\ f[x] \in Int /\ f[c] \in Int
        <3>1. IsFiniteSet((s \ {x}) \ {c}) /\ \A y \in (s \ {x}) \ {c} : f[y] \in Int
            BY FS_Subset
        <3> QED BY <2>3, <3>1, SumTyped
    <2>9. Sum(s) = f[c] + (f[x] + Sum((s \ {x}) \ {c}))
        BY <2>3, <2>5, <2>7
    <2>10. Sum(s) # f[x] + (f[c] + Sum((s \ {x}) \ {c}))
        BY <2>2, <2>6
    <2> HIDE DEF Sum
    <2> QED BY <2>8, <2>9, <2>10
<1> QED BY <1>1

(* A sum of smaller terms is no larger.                                   *)
LEMMA SumLeq ==
    ASSUME NEW S, IsFiniteSet(S), NEW f, NEW h,
           \A x \in S : f[x] \in Int /\ h[x] \in Int /\ f[x] <= h[x]
    PROVE  SumFunctionOnSet(f, S) <= SumFunctionOnSet(h, S)
<1> DEFINE F(s) == SumFunctionOnSet(f, s)
           H(s) == SumFunctionOnSet(h, s)
           B == {s \in SUBSET S : ~(F(s) <= H(s))}
<1>1. B = {}
    <2> SUFFICES ASSUME B # {} PROVE FALSE
        OBVIOUS
    <2>1. PICK s \in B : \A x \in s : s \ {x} \notin B
        BY MinimalExists
    <2>2. IsFiniteSet(s) /\ F({}) = 0 /\ H({}) = 0
        BY FS_Subset, SumUnfolds
    <2>3. PICK x : x \in s
        BY <2>2
    <2>4. F(s) = f[x] + F(s \ {x}) /\ H(s) = h[x] + H(s \ {x})
        BY <2>2, <2>3, SumTakesOut
    <2>5. F(s \ {x}) \in Int /\ H(s \ {x}) \in Int
        <3>1. IsFiniteSet(s \ {x})
            BY <2>2, FS_Subset
        <3> QED BY <3>1, SumTyped
    <2>6. F(s \ {x}) <= H(s \ {x})
        BY <2>1, <2>3
    <2> HIDE DEF F, H
    <2> QED BY <2>3, <2>4, <2>5, <2>6
<1> QED BY <1>1

(* Equal terms, equal sums.                                               *)
LEMMA SumSame ==
    ASSUME NEW S, IsFiniteSet(S), NEW f, NEW h, \A x \in S : f[x] \in Int /\ h[x] = f[x]
    PROVE  SumFunctionOnSet(h, S) = SumFunctionOnSet(f, S)
<1>1. SumFunctionOnSet(f, S) <= SumFunctionOnSet(h, S) /\ SumFunctionOnSet(h, S) <= SumFunctionOnSet(f, S)
    BY SumLeq
<1>2. SumFunctionOnSet(f, S) \in Int /\ SumFunctionOnSet(h, S) \in Int
    BY SumTyped
<1> QED BY <1>1, <1>2

(* The sum of sums, term by term.                                         *)
LEMMA SumPlus ==
    ASSUME NEW S, IsFiniteSet(S), NEW f, NEW h, NEW k,
           \A x \in S : f[x] \in Int /\ h[x] \in Int /\ k[x] = f[x] + h[x]
    PROVE  SumFunctionOnSet(k, S) = SumFunctionOnSet(f, S) + SumFunctionOnSet(h, S)
<1> DEFINE F(s) == SumFunctionOnSet(f, s)
           H(s) == SumFunctionOnSet(h, s)
           K(s) == SumFunctionOnSet(k, s)
           B == {s \in SUBSET S : K(s) # F(s) + H(s)}
<1>1. B = {}
    <2> SUFFICES ASSUME B # {} PROVE FALSE
        OBVIOUS
    <2>1. PICK s \in B : \A x \in s : s \ {x} \notin B
        BY MinimalExists
    <2>2. IsFiniteSet(s) /\ F({}) = 0 /\ H({}) = 0 /\ K({}) = 0
        BY FS_Subset, SumUnfolds
    <2>3. PICK x : x \in s
        <3>1. ~(K(s) = F(s) + H(s))
            OBVIOUS
        <3> HIDE DEF F, H, K, B
        <3>2. F({}) + H({}) = K({})
            BY <2>2
        <3>3. s # {}
            BY <3>1, <3>2
        <3> QED BY <3>3
    <2>4. F(s) = f[x] + F(s \ {x}) /\ H(s) = h[x] + H(s \ {x}) /\ K(s) = k[x] + K(s \ {x})
        BY <2>2, <2>3, SumTakesOut
    <2>5. F(s \ {x}) \in Int /\ H(s \ {x}) \in Int
        <3>1. IsFiniteSet(s \ {x})
            BY <2>2, FS_Subset
        <3> QED BY <3>1, SumTyped
    <2>6. K(s \ {x}) = F(s \ {x}) + H(s \ {x})
        BY <2>1, <2>3
    <2> HIDE DEF F, H, K
    <2> QED BY <2>3, <2>4, <2>5, <2>6
<1> QED BY <1>1

(* When one value changes the sum changes by as much. *)
LEMMA SumChanges ==
    ASSUME NEW S, IsFiniteSet(S), NEW f, NEW h, NEW e \in S,
           \A x \in S : f[x] \in Int /\ h[x] \in Int /\ (x # e => h[x] = f[x])
    PROVE  SumFunctionOnSet(h, S) = SumFunctionOnSet(f, S) + (h[e] - f[e])
<1>1. /\ SumFunctionOnSet(f, S) = f[e] + SumFunctionOnSet(f, S \ {e})
      /\ SumFunctionOnSet(h, S) = h[e] + SumFunctionOnSet(h, S \ {e})
    BY SumTakesOut
<1>2. IsFiniteSet(S \ {e})
    BY FS_Subset
<1>3. SumFunctionOnSet(f, S \ {e}) \in Int
    BY <1>2, SumTyped
<1>4. SumFunctionOnSet(h, S \ {e}) = SumFunctionOnSet(f, S \ {e})
    BY <1>2, SumSame
<1> QED BY <1>1, <1>3, <1>4
-----------------------------------------------------------------------------
(* The books                                                               *)

(* A request has a day from the moment money is set aside for it, and the  *)
(* account has no more committed to it than was allocated.                 *)
Dated(q) ==
    /\ q.state \in {"none", "planned"} => q.day = 0
    /\ q.state \in {"reserved", "in_flight"} => q.day \in 1 .. Days

Balance ==
    /\ BooksBalance
    /\ books.reserved + books.actual <= account.budget.allocation
    /\ \A r \in Requests : Dated(request[r])

(* What the rows hold and have booked are numbers. *)
LEMMA AmountTypes ==
    ASSUME TypeOK
    PROVE  /\ DOMAIN Holdings = Requests /\ DOMAIN Payments = Requests
           /\ \A r \in Requests : /\ Holdings[r] = request[r].hold /\ Holdings[r] \in Nat
                                  /\ Payments[r] = request[r].paid /\ Payments[r] \in Nat
           /\ \A d : OnDay(d) \subseteq Requests /\ IsFiniteSet(OnDay(d))
<1>1. request \in [Requests -> RequestRow]
    BY Types
<1>2. ASSUME NEW d PROVE OnDay(d) \subseteq Requests /\ IsFiniteSet(OnDay(d))
    <2>1. OnDay(d) \subseteq Requests
        BY DEF OnDay
    <2> QED BY <2>1, RequestsAreFinite, FS_Subset
<1> QED BY <1>1, <1>2 DEF Holdings, Payments, RequestRow

(* The sum over the requests of a day, when one request changes its row    *)
(* and keeps its day, or gets one while nothing is held or booked for it.  *)
LEMMA SumMoves ==
    ASSUME NEW f, NEW h, NEW r \in Requests, NEW S, NEW T, NEW more \in Int,
           S \subseteq Requests, T \subseteq Requests,
           \A x \in Requests : f[x] \in Int /\ h[x] \in Int /\ (x # r => h[x] = f[x]),
           \A x \in Requests : x # r => (x \in S <=> x \in T),
           r \in T => h[r] = f[r] + more /\ (r \in S \/ f[r] = 0),
           r \notin T => r \notin S
    PROVE  SumFunctionOnSet(h, T) = SumFunctionOnSet(f, S) + (IF r \in T THEN more ELSE 0)
<1>1. IsFiniteSet(S) /\ IsFiniteSet(T)
    BY RequestsAreFinite, FS_Subset
<1>2. /\ \A x \in S : f[x] \in Int /\ h[x] \in Int
      /\ \A x \in T : f[x] \in Int /\ h[x] \in Int
    OBVIOUS
<1>3. SumFunctionOnSet(f, S) \in Int
    BY <1>1, <1>2, SumTyped
<1>4. CASE r \notin T
    <2>1. S = T
        BY <1>4
    <2>2. \A x \in T : f[x] \in Int /\ h[x] = f[x]
        BY <1>2, <1>4
    <2>3. SumFunctionOnSet(h, T) = SumFunctionOnSet(f, T)
        BY <1>1, <2>2, SumSame
    <2> QED BY <1>3, <1>4, <2>1, <2>3
<1>5. CASE r \in T
    <2>1. SumFunctionOnSet(h, T) = SumFunctionOnSet(f, T) + (h[r] - f[r])
        BY <1>1, <1>5, SumChanges
    <2>2. SumFunctionOnSet(f, T) = SumFunctionOnSet(f, S)
        <3>1. CASE r \in S
            <4>1. \A x \in Requests : x \in S <=> x \in T
                BY <1>5, <3>1
            <4>2. S = T
                BY <4>1
            <4> QED BY <4>2
        <3>2. CASE r \notin S
            <4>1. T \ {r} = S
                BY <1>5, <3>2
            <4>2. SumFunctionOnSet(f, T) = f[r] + SumFunctionOnSet(f, S)
                BY <1>1, <1>2, <1>5, <4>1, SumTakesOut
            <4>3. f[r] = 0
                BY <1>5, <3>2
            <4> QED BY <1>3, <4>2, <4>3
        <3> QED BY <3>1, <3>2
    <2>3. h[r] - f[r] = more
        BY <1>5
    <2> QED BY <1>5, <2>1, <2>2, <2>3
<1> QED BY <1>4, <1>5

(* The sums of a ledger in which one row has changed. *)
LEMMA RowMoves ==
    ASSUME TypeOK, TypeOK', NEW r \in Requests,
           NEW q \in RequestRow, request' = [request EXCEPT ![r] = q],
           \/ q.day = request[r].day
           \/ request[r].day = 0 /\ request[r].hold = 0 /\ request[r].paid = 0
    PROVE  /\ SumFunction(Holdings') = SumFunction(Holdings) + (q.hold - request[r].hold)
           /\ SumFunction(Payments') = SumFunction(Payments) + (q.paid - request[r].paid)
           /\ \A d \in 1 .. Days :
                /\ SumFunctionOnSet(Holdings', OnDay(d)')
                     = SumFunctionOnSet(Holdings, OnDay(d))
                         + (IF q.day = d THEN q.hold - request[r].hold ELSE 0)
                /\ SumFunctionOnSet(Payments', OnDay(d)')
                     = SumFunctionOnSet(Payments, OnDay(d))
                         + (IF q.day = d THEN q.paid - request[r].paid ELSE 0)
<1> DEFINE held == q.hold - request[r].hold
           more == q.paid - request[r].paid
<1>0. /\ held \in Int /\ q.hold = request[r].hold + held
      /\ more \in Int /\ q.paid = request[r].paid + more
    BY Types DEF RequestRow
<1> HIDE DEF held, more
<1>1. /\ DOMAIN Holdings = Requests /\ DOMAIN Payments = Requests
      /\ \A x \in Requests : Holdings[x] = request[x].hold /\ Holdings[x] \in Int
      /\ \A x \in Requests : Payments[x] = request[x].paid /\ Payments[x] \in Int
    BY AmountTypes
<1>2. /\ request'[r] = q
      /\ \A x \in Requests \ {r} : request'[x] = request[x]
    BY Types
<1>3. request' \in [Requests -> RequestRow]
    BY Types
<1>4. /\ DOMAIN Holdings' = Requests /\ DOMAIN Payments' = Requests
      /\ \A x \in Requests : Holdings'[x] = request'[x].hold /\ Holdings'[x] \in Int
      /\ \A x \in Requests : Payments'[x] = request'[x].paid /\ Payments'[x] \in Int
    BY <1>3 DEF Holdings, Payments, RequestRow
<1>5. /\ Holdings'[r] = Holdings[r] + held
      /\ Payments'[r] = Payments[r] + more
      /\ \A x \in Requests : x # r => Holdings'[x] = Holdings[x] /\ Payments'[x] = Payments[x]
    BY <1>0, <1>1, <1>2, <1>4
<1>6. /\ SumFunctionOnSet(Holdings', Requests) = SumFunctionOnSet(Holdings, Requests) + held
      /\ SumFunctionOnSet(Payments', Requests) = SumFunctionOnSet(Payments, Requests) + more
    <2>1. /\ SumFunctionOnSet(Holdings', Requests)
               = SumFunctionOnSet(Holdings, Requests) + (Holdings'[r] - Holdings[r])
          /\ SumFunctionOnSet(Payments', Requests)
               = SumFunctionOnSet(Payments, Requests) + (Payments'[r] - Payments[r])
        BY <1>1, <1>4, <1>5, RequestsAreFinite, SumChanges
    <2>2. Holdings'[r] - Holdings[r] = held /\ Payments'[r] - Payments[r] = more
        BY <1>0, <1>1, <1>5
    <2> QED BY <2>1, <2>2
<1>7. ASSUME NEW d \in 1 .. Days
      PROVE  /\ SumFunctionOnSet(Holdings', OnDay(d)')
                  = SumFunctionOnSet(Holdings, OnDay(d)) + (IF q.day = d THEN held ELSE 0)
             /\ SumFunctionOnSet(Payments', OnDay(d)')
                  = SumFunctionOnSet(Payments, OnDay(d)) + (IF q.day = d THEN more ELSE 0)
    <2> DEFINE S == OnDay(d)
               T == OnDay(d)'
    <2>1. S \subseteq Requests /\ T \subseteq Requests
        BY DEF OnDay
    <2>2. \A x \in Requests : x # r => (x \in S <=> x \in T)
        BY <1>2 DEF OnDay
    <2>3. /\ r \in T <=> q.day = d
          /\ r \in S <=> request[r].day = d
        BY <1>2 DEF OnDay
    <2>4. d # 0
        BY ModelAssumption
    <2>5. /\ r \in T => r \in S \/ (Holdings[r] = 0 /\ Payments[r] = 0)
          /\ r \notin T => r \notin S
        BY <1>1, <2>3, <2>4
    <2> HIDE DEF S, T
    <2>6. SumFunctionOnSet(Holdings', T) = SumFunctionOnSet(Holdings, S) + (IF r \in T THEN held ELSE 0)
        BY <1>0, <1>1, <1>4, <1>5, <2>1, <2>2, <2>5, SumMoves
    <2>7. SumFunctionOnSet(Payments', T) = SumFunctionOnSet(Payments, S) + (IF r \in T THEN more ELSE 0)
        BY <1>0, <1>1, <1>4, <1>5, <2>1, <2>2, <2>5, SumMoves
    <2> QED BY <2>3, <2>6, <2>7 DEF S, T
<1> QED BY <1>1, <1>4, <1>6, <1>7 DEF SumFunction, held, more

(* A row changes and the books do not: nothing was set aside or used. *)
LEMMA Unbooked ==
    ASSUME TypeOK, TypeOK', Balance, NEW r \in Requests,
           NEW q, request' = [request EXCEPT ![r] = q],
           q.day = request[r].day, q.hold = request[r].hold, q.paid = request[r].paid,
           Dated(q),
           UNCHANGED <<books, daily, account>>
    PROVE  Balance'
<1>0. q \in RequestRow
    BY Types DEF TypeOK, RequestRow
<1>1. /\ SumFunction(Holdings') = SumFunction(Holdings) + 0
      /\ SumFunction(Payments') = SumFunction(Payments) + 0
      /\ \A d \in 1 .. Days :
           /\ SumFunctionOnSet(Holdings', OnDay(d)')
                = SumFunctionOnSet(Holdings, OnDay(d)) + (IF q.day = d THEN 0 ELSE 0)
           /\ SumFunctionOnSet(Payments', OnDay(d)')
                = SumFunctionOnSet(Payments, OnDay(d)) + (IF q.day = d THEN 0 ELSE 0)
    <2> DEFINE held == q.hold - request[r].hold
               more == q.paid - request[r].paid
    <2>1. /\ SumFunction(Holdings') = SumFunction(Holdings) + held
          /\ SumFunction(Payments') = SumFunction(Payments) + more
          /\ \A d \in 1 .. Days :
               /\ SumFunctionOnSet(Holdings', OnDay(d)')
                    = SumFunctionOnSet(Holdings, OnDay(d)) + (IF q.day = d THEN held ELSE 0)
               /\ SumFunctionOnSet(Payments', OnDay(d)')
                    = SumFunctionOnSet(Payments, OnDay(d)) + (IF q.day = d THEN more ELSE 0)
        BY <1>0, RowMoves
    <2>2. held = 0 /\ more = 0
        BY <1>0, Types DEF RequestRow
    <2> HIDE DEF held, more
    <2> QED BY <2>1, <2>2
<1>2. /\ books = Entry(SumFunction(Holdings), SumFunction(Payments))
      /\ \A d \in 1 .. Days : daily[d] = Entry(SumFunctionOnSet(Holdings, OnDay(d)),
                                              SumFunctionOnSet(Payments, OnDay(d)))
    BY DEF Balance, BooksBalance
<1>3. /\ SumFunction(Holdings) \in Int /\ SumFunction(Payments) \in Int
      /\ \A d \in 1 .. Days : /\ SumFunctionOnSet(Holdings, OnDay(d)) \in Int
                             /\ SumFunctionOnSet(Payments, OnDay(d)) \in Int
    <2>1. books \in Sums /\ \A d \in 1 .. Days : daily[d] \in Sums
        BY Types
    <2>2. \A x, y : Entry(x, y) \in Sums => x \in Int /\ y \in Int
        BY DEF Entry, Sums
    <2> QED BY <1>2, <2>1, <2>2
<1>4. books' = Entry(SumFunction(Holdings'), SumFunction(Payments'))
    BY <1>1, <1>2, <1>3
<1>5. ASSUME NEW d \in 1 .. Days
      PROVE  /\ daily'[d] = Entry(SumFunctionOnSet(Holdings', OnDay(d)'),
                                  SumFunctionOnSet(Payments', OnDay(d)'))
             /\ daily'[d].reserved + daily'[d].actual <= account'.budget.ceiling
    <2>1. /\ SumFunctionOnSet(Holdings', OnDay(d)') = SumFunctionOnSet(Holdings, OnDay(d))
          /\ SumFunctionOnSet(Payments', OnDay(d)') = SumFunctionOnSet(Payments, OnDay(d))
        BY <1>1, <1>3
    <2> QED BY <1>2, <2>1 DEF Balance, BooksBalance
<1>6. \A x \in Requests : Dated(request'[x])
    BY Types DEF Balance
<1> QED BY <1>4, <1>5, <1>6 DEF Balance, BooksBalance

(* What is committed in an account or on a day after money has moved. *)
LEMMA MovedEntry ==
    ASSUME NEW entry \in Sums, NEW used \in Int, NEW freed \in Int
    PROVE  /\ Moved(entry, used, freed) = Entry(entry.reserved - (used + freed), entry.actual + used)
           /\ Moved(entry, used, freed).reserved + Moved(entry, used, freed).actual
                = (entry.reserved + entry.actual) - freed
<1>1. entry.reserved \in Int /\ entry.actual \in Int
    BY DEF Sums
<1>2. entry.reserved - used - freed = entry.reserved - (used + freed)
    BY <1>1
<1> QED BY <1>1, <1>2 DEF Moved, Entry

(* A row changes and the books with it, on the day of the row.  Only a     *)
(* reservation that can be afforded commits more than there was.           *)
LEMMA Booked ==
    ASSUME TypeOK, TypeOK', Balance, NEW r \in Requests,
           NEW q, request' = [request EXCEPT ![r] = q],
           \/ q.day = request[r].day
           \/ request[r].day = 0 /\ request[r].hold = 0 /\ request[r].paid = 0,
           q.day \in 1 .. Days, Dated(q),
           NEW used \in Int, NEW freed \in Int,
           q.hold = request[r].hold - (used + freed), q.paid = request[r].paid + used,
           freed >= 0 \/ (Affordable /\ freed = -Hold /\ q.day = today),
           books' = Moved(books, used, freed),
           daily' = [daily EXCEPT ![q.day] = Moved(@, used, freed)],
           UNCHANGED account
    PROVE  Balance'
<1>0. q \in RequestRow
    BY Types DEF TypeOK, RequestRow
<1> DEFINE held == -(used + freed)
<1>1. /\ SumFunction(Holdings') = SumFunction(Holdings) + held
      /\ SumFunction(Payments') = SumFunction(Payments) + used
      /\ \A d \in 1 .. Days :
           /\ SumFunctionOnSet(Holdings', OnDay(d)')
                = SumFunctionOnSet(Holdings, OnDay(d)) + (IF q.day = d THEN held ELSE 0)
           /\ SumFunctionOnSet(Payments', OnDay(d)')
                = SumFunctionOnSet(Payments, OnDay(d)) + (IF q.day = d THEN used ELSE 0)
    <2> DEFINE less == q.hold - request[r].hold
               more == q.paid - request[r].paid
    <2>1. /\ SumFunction(Holdings') = SumFunction(Holdings) + less
          /\ SumFunction(Payments') = SumFunction(Payments) + more
          /\ \A d \in 1 .. Days :
               /\ SumFunctionOnSet(Holdings', OnDay(d)')
                    = SumFunctionOnSet(Holdings, OnDay(d)) + (IF q.day = d THEN less ELSE 0)
               /\ SumFunctionOnSet(Payments', OnDay(d)')
                    = SumFunctionOnSet(Payments, OnDay(d)) + (IF q.day = d THEN more ELSE 0)
        BY <1>0, RowMoves
    <2>2. less = held /\ more = used
        <3>1. request[r].hold \in Int /\ request[r].paid \in Int
            BY Types DEF RequestRow
        <3> QED BY <3>1
    <2> HIDE DEF held, less, more
    <2> QED BY <2>1, <2>2
<1>2. /\ books = Entry(SumFunction(Holdings), SumFunction(Payments))
      /\ \A d \in 1 .. Days : daily[d] = Entry(SumFunctionOnSet(Holdings, OnDay(d)),
                                              SumFunctionOnSet(Payments, OnDay(d)))
    BY DEF Balance, BooksBalance
<1>3. /\ books.reserved = SumFunction(Holdings) /\ books.actual = SumFunction(Payments)
      /\ \A d \in 1 .. Days : /\ daily[d].reserved = SumFunctionOnSet(Holdings, OnDay(d))
                             /\ daily[d].actual = SumFunctionOnSet(Payments, OnDay(d))
    <2>1. \A x, y : Entry(x, y).reserved = x /\ Entry(x, y).actual = y
        BY DEF Entry
    <2> QED BY <1>2, <2>1
<1>4. /\ books \in Sums /\ books.reserved \in Int /\ books.actual \in Int
      /\ \A d \in 1 .. Days : daily[d] \in Sums /\ daily[d].reserved \in Int /\ daily[d].actual \in Int
    BY Types DEF Sums
<1>5. /\ account' = account
      /\ account.budget.allocation \in Int /\ account.budget.ceiling \in Int
      /\ Hold \in Nat
    <2>1. account.budget \in Budgets
        BY DEF TypeOK
    <2>2. account.budget.allocation \in Int /\ account.budget.ceiling \in Int
        BY <2>1, ModelAssumption
    <2> QED BY <2>2, Amounts
<1>6. /\ books' = Entry(SumFunction(Holdings'), SumFunction(Payments'))
      /\ books'.reserved + books'.actual = (books.reserved + books.actual) - freed
    <2>1. /\ books' = Entry(books.reserved - (used + freed), books.actual + used)
          /\ books'.reserved + books'.actual = (books.reserved + books.actual) - freed
        BY <1>4, MovedEntry
    <2>2. /\ books.reserved - (used + freed) = SumFunction(Holdings')
          /\ books.actual + used = SumFunction(Payments')
        BY <1>1, <1>3, <1>4
    <2> QED BY <2>1, <2>2
<1>7. books'.reserved + books'.actual <= account'.budget.allocation
    <2>1. CASE freed >= 0
        BY <1>4, <1>5, <1>6, <2>1 DEF Balance
    <2>2. CASE Affordable /\ freed = -Hold
        BY <1>4, <1>5, <1>6, <2>2 DEF Affordable
    <2> QED BY <2>1, <2>2
<1>8. ASSUME NEW d \in 1 .. Days
      PROVE  /\ daily'[d] = Entry(SumFunctionOnSet(Holdings', OnDay(d)'),
                                  SumFunctionOnSet(Payments', OnDay(d)'))
             /\ daily'[d].reserved + daily'[d].actual <= account'.budget.ceiling
    <2>1. daily[d].reserved + daily[d].actual <= account.budget.ceiling
        BY DEF Balance, BooksBalance
    <2>2. CASE q.day # d
        <3>1. daily'[d] = daily[d]
            BY <2>2, Types
        <3>2. /\ SumFunctionOnSet(Holdings', OnDay(d)') = SumFunctionOnSet(Holdings, OnDay(d))
              /\ SumFunctionOnSet(Payments', OnDay(d)') = SumFunctionOnSet(Payments, OnDay(d))
            BY <1>1, <1>3, <1>4, <2>2
        <3> QED BY <1>2, <1>5, <2>1, <3>1, <3>2
    <2>3. CASE q.day = d
        <3>1. daily'[d] = Moved(daily[d], used, freed)
            BY <2>3, Types
        <3>2. /\ daily'[d] = Entry(daily[d].reserved - (used + freed), daily[d].actual + used)
              /\ daily'[d].reserved + daily'[d].actual = (daily[d].reserved + daily[d].actual) - freed
            BY <1>4, <3>1, MovedEntry
        <3>3. /\ daily[d].reserved - (used + freed) = SumFunctionOnSet(Holdings', OnDay(d)')
              /\ daily[d].actual + used = SumFunctionOnSet(Payments', OnDay(d)')
            BY <1>1, <1>3, <1>4, <2>3
        <3>4. daily'[d].reserved + daily'[d].actual <= account'.budget.ceiling
            <4>1. CASE freed >= 0
                BY <1>4, <1>5, <2>1, <3>2, <4>1
            <4>2. CASE Affordable /\ freed = -Hold /\ q.day = today
                <5>1. daily[d].actual + daily[d].reserved + Hold <= account.budget.ceiling
                    BY <2>3, <4>2 DEF Affordable
                <5> QED BY <1>4, <1>5, <3>2, <4>2, <5>1
            <4> QED BY <4>1, <4>2
        <3> QED BY <3>2, <3>3, <3>4
    <2> QED BY <2>2, <2>3
<1>9. \A x \in Requests : Dated(request'[x])
    BY Types DEF Balance
<1> QED BY <1>6, <1>7, <1>8, <1>9 DEF Balance, BooksBalance

(* A step that leaves the rows, the books and the account alone. *)
LEMMA BooksStay ==
    ASSUME Balance, UNCHANGED <<request, books, daily, account>>
    PROVE  Balance'
<1>1. Holdings' = Holdings /\ Payments' = Payments
    BY DEF Holdings, Payments
<1>2. \A d \in 1 .. Days : OnDay(d)' = OnDay(d)
    BY DEF OnDay
<1>3. BooksBalance'
    BY <1>1, <1>2 DEF Balance, BooksBalance
<1> QED BY <1>3 DEF Balance

(* A request that has been created has no money yet. *)
LEMMA CreateBalances ==
    ASSUME IInv, TypeOK', Balance, NEW w \in Workers, Create(w)
    PROVE  Balance'
<1> DEFINE r == run[w].request
           q == Row("planned", 0, 0, 0)
<1>1. /\ run[w].pc = "create" /\ request[r].state = "none"
      /\ request' = [request EXCEPT ![r] = q]
      /\ UNCHANGED <<books, daily, account>>
    BY DEF Create
<1>2. TypeOK /\ r \in Requests
    BY <1>1, AtWork DEF IInv
<1>3. request[r].day = 0 /\ request[r].hold = 0 /\ request[r].paid = 0
    <2>1. Accounted(request[r], dispatch[r], bill[r]) /\ Dated(request[r])
        BY <1>2 DEF IInv, Money, Balance
    <2> QED BY <1>1, <2>1 DEF Accounted, Untouched, Dated
<1>4. /\ q.day = request[r].day /\ q.hold = request[r].hold /\ q.paid = request[r].paid
      /\ Dated(q)
    BY <1>3 DEF Row, Dated
<1> HIDE DEF q, r
<1> QED BY <1>1, <1>2, <1>4, Unbooked

(* What a reservation adds the account can afford, and the day too. *)
LEMMA ReserveBalances ==
    ASSUME IInv, TypeOK', Balance, NEW w \in Workers, Reserve(w)
    PROVE  Balance'
<1> DEFINE r == run[w].request
<1>1. /\ run[w].pc = "reserve" /\ request[r].state = "planned"
      /\ ReserveEffect(r)
      /\ UNCHANGED account
    BY DEF Reserve
<1>2. TypeOK /\ r \in Requests /\ today \in 1 .. Days
    BY <1>1, AtWork, Types DEF IInv
<1>3. request[r].day = 0 /\ request[r].hold = 0 /\ request[r].paid = 0
    <2>1. Accounted(request[r], dispatch[r], bill[r]) /\ Dated(request[r])
        BY <1>2 DEF IInv, Money, Balance
    <2> QED BY <1>1, <2>1 DEF Accounted, Untouched, Dated
<1> HIDE DEF r
<1>4. CASE Affordable
    <2> DEFINE q == Row("reserved", today, Hold, 0)
               freed == -Hold
               used == 0
    <2>1. /\ request' = [request EXCEPT ![r] = q]
          /\ books' = Moved(books, used, freed)
          /\ daily' = [daily EXCEPT ![today] = Moved(@, used, freed)]
        BY <1>1, <1>4 DEF ReserveEffect
    <2>2. /\ q.day = today /\ q.hold = Hold /\ q.paid = 0 /\ Dated(q)
        BY <1>2 DEF Row, Dated
    <2>3. /\ q.hold = request[r].hold - (used + freed) /\ q.paid = request[r].paid + used
          /\ freed \in Int /\ used \in Int /\ freed = -Hold
        BY <1>3, <2>2, Amounts
    <2> HIDE DEF q, freed, used
    <2>4. /\ daily' = [daily EXCEPT ![q.day] = Moved(@, used, freed)]
          /\ q.day \in 1 .. Days
        BY <1>2, <2>1, <2>2
    <2>5. request[r].day = 0 /\ request[r].hold = 0 /\ request[r].paid = 0
        BY <1>3
    <2>6. Affordable /\ freed = -Hold /\ q.day = today
        BY <1>4, <2>2, <2>3
    <2>7. /\ TypeOK /\ r \in Requests /\ UNCHANGED account
          /\ Dated(q) /\ used \in Int /\ freed \in Int
        BY <1>1, <1>2, <2>2, <2>3
    <2> QED BY <2>1, <2>3, <2>4, <2>5, <2>6, <2>7, Booked
<1>5. CASE ~Affordable
    <2> DEFINE q == Row("review_required", 0, 0, 0)
    <2>1. request' = [request EXCEPT ![r] = q] /\ UNCHANGED <<books, daily, account>>
        BY <1>1, <1>5 DEF ReserveEffect
    <2>2. /\ q.day = request[r].day /\ q.hold = request[r].hold /\ q.paid = request[r].paid
          /\ Dated(q)
        BY <1>3 DEF Row, Dated
    <2> HIDE DEF q
    <2> QED BY <1>2, <2>1, <2>2, Unbooked
<1> QED BY <1>4, <1>5

(* An authorization moves nothing, one that is refused frees the hold. *)
LEMMA BeginBalances ==
    ASSUME IInv, TypeOK', Balance, NEW w \in Workers, Begin(w)
    PROVE  Balance'
<1> DEFINE r == run[w].request
<1>1. /\ run[w].pc = "begin" /\ request[r].state = "reserved"
      /\ BeginEffect(r, run[w].fence)
      /\ UNCHANGED account
    BY DEF Begin
<1>2. TypeOK /\ r \in Requests /\ request[r] \in RequestRow
    BY <1>1, AtWork, Types DEF IInv
<1>3. request[r].day \in 1 .. Days
    BY <1>1, <1>2 DEF Balance, Dated
<1>4. CASE account.enabled
    <2> DEFINE q == Row("in_flight", request[r].day, request[r].hold, request[r].paid)
    <2>1. request' = [request EXCEPT ![r] = q] /\ UNCHANGED <<books, daily, account>>
        BY <1>1, <1>4 DEF BeginEffect
    <2>2. /\ q.day = request[r].day /\ q.hold = request[r].hold /\ q.paid = request[r].paid
          /\ Dated(q)
        BY <1>3 DEF Row, Dated
    <2> HIDE DEF q, r
    <2> QED BY <1>2, <2>1, <2>2, Unbooked
<1>5. CASE ~account.enabled
    <2> DEFINE q == Row("review_required", request[r].day, 0, request[r].paid)
               freed == request[r].hold
               used == 0
    <2>1. /\ request' = [request EXCEPT ![r] = q]
          /\ books' = Moved(books, used, freed)
          /\ daily' = [daily EXCEPT ![request[r].day] = Moved(@, used, freed)]
        BY <1>1, <1>5 DEF BeginEffect, Book
    <2>2. q.day = request[r].day /\ q.hold = 0 /\ q.paid = request[r].paid /\ Dated(q)
        BY DEF Row, Dated
    <2>3. /\ q.hold = request[r].hold - (used + freed) /\ q.paid = request[r].paid + used
          /\ freed \in Int /\ freed >= 0 /\ used \in Int
        <3>1. request[r].hold \in Nat /\ request[r].paid \in Nat
            BY <1>2 DEF RequestRow
        <3> HIDE DEF q
        <3> QED BY <2>2, <3>1
    <2> HIDE DEF q, freed, used, r
    <2>4. /\ daily' = [daily EXCEPT ![q.day] = Moved(@, used, freed)]
          /\ q.day \in 1 .. Days
        BY <1>3, <2>1, <2>2
    <2>5. /\ TypeOK /\ r \in Requests /\ UNCHANGED account
          /\ q.day = request[r].day /\ Dated(q)
        BY <1>1, <1>2, <2>2
    <2> QED BY <2>1, <2>3, <2>4, <2>5, Booked
<1> QED BY <1>4, <1>5

(* A result that can be relied on moves its cost from what is held to what *)
(* is booked, on the day of the reservation; any other moves nothing.      *)
LEMMA ReconcileBalances ==
    ASSUME IInv, TypeOK', Balance, NEW r \in Requests, dispatch[r].outcome = "pending",
           NEW result \in Results, ReconcileEffect(r, result), UNCHANGED account
    PROVE  Balance'
<1>1. TypeOK /\ request[r] \in RequestRow
    BY Types DEF IInv
<1>2. request[r].state = "in_flight"
    BY DEF IInv, Money, Accounted
<1>3. request[r].day \in 1 .. Days
    BY <1>2 DEF Balance, Dated
<1>4. CASE result.class \in Open
    <2> DEFINE state == IF result.class = "mismatch" THEN "review_required" ELSE "outcome_unknown"
               q == Row(state, request[r].day, request[r].hold, request[r].paid)
    <2>1. request' = [request EXCEPT ![r] = q] /\ UNCHANGED <<books, daily, account>>
        BY <1>4 DEF ReconcileEffect
    <2>2. /\ q.day = request[r].day /\ q.hold = request[r].hold /\ q.paid = request[r].paid
          /\ Dated(q)
        BY <1>3 DEF Row, Dated
    <2> HIDE DEF q
    <2> QED BY <1>1, <2>1, <2>2, Unbooked
<1>5. CASE result.class \notin Open
    <2> DEFINE q == BookedRow(r, result)
               freed == IF Closes(r, result) THEN request[r].hold - result.cost ELSE 0
               used == result.cost
    <2>1. /\ request' = [request EXCEPT ![r] = q]
          /\ books' = Moved(books, used, freed)
          /\ daily' = [daily EXCEPT ![request[r].day] = Moved(@, used, freed)]
          /\ used <= request[r].hold
        BY <1>5 DEF ReconcileEffect, Book
    <2>2. used \in Int /\ request[r].hold \in Int /\ request[r].paid \in Int
        BY <1>1, ResultTypes, Amounts DEF RequestRow
    <2>3. freed \in Int /\ freed >= 0
        BY <2>1, <2>2
    <2>4. /\ q.day = request[r].day /\ q.paid = request[r].paid + used
          /\ Dated(q)
        BY <1>3 DEF BookedRow, Row, Dated
    <2>5. q.hold = request[r].hold - (used + freed)
        <3>1. q.hold = IF Closes(r, result) THEN 0 ELSE request[r].hold - used
            BY DEF BookedRow, Row
        <3> QED BY <2>2, <3>1
    <2> HIDE DEF q, freed, used
    <2>6. /\ daily' = [daily EXCEPT ![q.day] = Moved(@, used, freed)]
          /\ q.day \in 1 .. Days
        BY <1>3, <2>1, <2>4
    <2> QED BY <1>1, <2>1, <2>2, <2>3, <2>4, <2>5, <2>6, Booked
<1> QED BY <1>4, <1>5

(* So it is for a run, whose report may also come to nothing ... *)
LEMMA RunReconcileBalances ==
    ASSUME IInv, TypeOK', Balance, NEW w \in Workers, Reconcile(w)
    PROVE  Balance'
<1> DEFINE r == run[w].request
<1>1. /\ run[w].pc \in {"reconcile", "reconcile_again"}
      /\ UNCHANGED account
      /\ \/ Awaited(r, run[w].number) /\ ReconcileEffect(r, run[w].result)
         \/ UNCHANGED ledger
    BY DEF Reconcile
<1>2. /\ TypeOK /\ r \in Requests /\ run[w] \in RunState /\ Running(run[w])
    BY <1>1, AtWork, Types DEF IInv, Runs
<1>3. run[w].result \in Results
    BY <1>1, <1>2 DEF Running, Reporting, RunState
<1>4. CASE Awaited(r, run[w].number) /\ ReconcileEffect(r, run[w].result)
    BY <1>1, <1>2, <1>3, <1>4, ReconcileBalances DEF Awaited
<1>5. CASE UNCHANGED ledger
    BY <1>1, <1>5, BooksStay DEF ledger
<1> QED BY <1>1, <1>4, <1>5

(* ... and for a report that comes late. *)
LEMMA LateReconcileBalances ==
    ASSUME IInv, TypeOK', Balance, LateReconcile
    PROVE  Balance'
<1>1. PICK call \in late :
         /\ IF Awaited(call.request, call.number)
              THEN ReconcileEffect(call.request, call.result) ELSE UNCHANGED ledger
         /\ UNCHANGED account
    BY DEF LateReconcile
<1>2. call.request \in Requests /\ call.result \in Results
    BY Types DEF IInv, Call
<1>3. CASE Awaited(call.request, call.number)
    BY <1>1, <1>2, <1>3, ReconcileBalances DEF Awaited
<1>4. CASE ~Awaited(call.request, call.number)
    BY <1>1, <1>4, BooksStay DEF ledger
<1> QED BY <1>3, <1>4

(* A dispatch that is given up stays in the books as it was. *)
LEMMA RecoverBalances ==
    ASSUME IInv, TypeOK', Balance, NEW w \in Workers, Recover(w)
    PROVE  Balance'
<1> DEFINE r == run[w].request
           q == Row("outcome_unknown", request[r].day, request[r].hold, request[r].paid)
<1>1. /\ run[w].pc = "recover"
      /\ request' = [request EXCEPT ![r] = q] /\ UNCHANGED <<books, daily, account>>
    BY DEF Recover, QuarantineEffect
<1>2. TypeOK /\ r \in Requests
    BY <1>1, AtWork DEF IInv
<1>3. /\ q.day = request[r].day /\ q.hold = request[r].hold /\ q.paid = request[r].paid
      /\ Dated(q)
    BY DEF Row, Dated
<1> HIDE DEF q, r
<1> QED BY <1>1, <1>2, <1>3, Unbooked

(* No budget is configured that is below what is committed. *)
LEMMA ConfigureBalances == ASSUME IInv, Balance, Configure PROVE Balance'
<1>1. PICK enabled \in BOOLEAN, budget \in Budgets :
         /\ budget.allocation >= books.actual + books.reserved
         /\ \A d \in 1 .. Days : budget.ceiling >= daily[d].actual + daily[d].reserved
         /\ account' = [enabled |-> enabled, budget |-> budget, version |-> account.version + 1]
    BY DEF Configure
<1>2. /\ UNCHANGED <<request, books, daily>>
      /\ account'.budget = budget
    BY <1>1 DEF Configure, ledger
<1>3. /\ budget.allocation \in Int /\ budget.ceiling \in Int
      /\ books.actual \in Int /\ books.reserved \in Int
      /\ \A d \in 1 .. Days : daily[d].actual \in Int /\ daily[d].reserved \in Int
    <2>1. budget.allocation \in Int /\ budget.ceiling \in Int
        BY ModelAssumption
    <2>2. books \in Sums /\ \A d \in 1 .. Days : daily[d] \in Sums
        BY Types DEF IInv
    <2> QED BY <2>1, <2>2 DEF Sums
<1>4. Holdings' = Holdings /\ Payments' = Payments
    BY <1>2 DEF Holdings, Payments
<1>5. \A d \in 1 .. Days : OnDay(d)' = OnDay(d)
    BY <1>2 DEF OnDay
<1>6. /\ books'.reserved + books'.actual <= account'.budget.allocation
      /\ \A d \in 1 .. Days : daily'[d].reserved + daily'[d].actual <= account'.budget.ceiling
    BY <1>1, <1>2, <1>3
<1>7. BooksBalance'
    BY <1>2, <1>4, <1>5, <1>6 DEF Balance, BooksBalance
<1> QED BY <1>2, <1>6, <1>7 DEF Balance

(* Every step leaves the books balanced. *)
LEMMA Balances == IInv /\ Balance /\ [Next]_vars => Balance'
<1> SUFFICES ASSUME IInv, Balance, [Next]_vars PROVE Balance'
    OBVIOUS
<1>1. TypeOK'
    BY Inductive DEF IInv
<1>2. ASSUME NEW w \in Workers, Claim(w) \/ Step(w) PROVE Balance'
    <2>1. CASE Create(w)
        BY <1>1, <2>1, CreateBalances
    <2>2. CASE Reserve(w)
        BY <1>1, <2>2, ReserveBalances
    <2>3. CASE Begin(w)
        BY <1>1, <2>3, BeginBalances
    <2>4. CASE Reconcile(w)
        BY <1>1, <2>4, RunReconcileBalances
    <2>5. CASE Recover(w)
        BY <1>1, <2>5, RecoverBalances
    <2>6. CASE Claim(w) \/ Lookup(w) \/ Post(w) \/ Reread(w) \/ Read(w)
        <3>1. UNCHANGED <<request, books, daily, account>>
            BY <2>6 DEF Claim, Lookup, Post, Reread, Read, ledger
        <3> QED BY <3>1, BooksStay
    <2>7. CASE SealResult(w) \/ SealReview(w) \/ Complete(w)
        <3>1. UNCHANGED <<request, books, daily, account>>
            BY <2>7 DEF SealResult, SealReview, Complete, ledger
        <3> QED BY <3>1, BooksStay
    <2>8. CASE CallFails(w) \/ Fail(w) \/ Stop(w)
        <3>1. UNCHANGED <<request, books, daily, account>>
            BY <2>8 DEF CallFails, Fail, Stop, ledger
        <3> QED BY <3>1, BooksStay
    <2> QED BY <1>2, <2>1, <2>2, <2>3, <2>4, <2>5, <2>6, <2>7, <2>8 DEF Step
<1>3. CASE LateReconcile
    BY <1>1, <1>3, LateReconcileBalances
<1>4. CASE Configure
    BY <1>4, ConfigureBalances
<1>5. CASE Midnight \/ (\E r \in Requests : Expire(r)) \/ UNCHANGED vars
    <2>1. UNCHANGED <<request, books, daily, account>>
        BY <1>5 DEF Midnight, Expire, ledger, vars
    <2> QED BY <2>1, BooksStay
<1> QED BY <1>2, <1>3, <1>4, <1>5 DEF Next

(* The sum of what is nothing for every request is nothing. *)
LEMMA NothingSums ==
    ASSUME NEW f, NEW S, IsFiniteSet(S), \A x \in S : f[x] = 0
    PROVE  SumFunctionOnSet(f, S) = 0
<1> DEFINE h == f
           total == SumFunctionOnSet(f, S)
<1>1. /\ \A x \in S : f[x] \in Int /\ h[x] \in Int /\ f[x] = f[x] + h[x]
      /\ SumFunctionOnSet(h, S) = total
    OBVIOUS
<1> HIDE DEF h
<1>2. SumFunctionOnSet(f, S) = SumFunctionOnSet(f, S) + SumFunctionOnSet(h, S)
    BY <1>1, SumPlus
<1>3. SumFunctionOnSet(f, S) \in Int
    BY <1>1, SumTyped
<1>4. total \in Int /\ total = total + total
    BY <1>1, <1>2, <1>3
<1> HIDE DEF total
<1>5. total = 0
    BY <1>4
<1> QED BY <1>5 DEF total

(* The books of a new account are empty. *)
LEMMA BalanceInit == Init => Balance
<1> SUFFICES ASSUME Init PROVE Balance
    OBVIOUS
<1>1. /\ TypeOK
      /\ \A r \in Requests : request[r] = Row("none", 0, 0, 0)
      /\ account.budget = FirstBudget
      /\ books = Entry(0, 0) /\ \A d \in 1 .. Days : daily[d] = Entry(0, 0)
    BY InitHolds DEF Init, IInv
<1>2. \A r \in Requests : Holdings[r] = 0 /\ Payments[r] = 0
    BY <1>1 DEF Holdings, Payments, Row
<1>3. /\ SumFunction(Holdings) = 0 /\ SumFunction(Payments) = 0
      /\ \A d \in 1 .. Days : /\ SumFunctionOnSet(Holdings, OnDay(d)) = 0
                             /\ SumFunctionOnSet(Payments, OnDay(d)) = 0
    <2>1. \A d \in 1 .. Days : OnDay(d) \subseteq Requests /\ IsFiniteSet(OnDay(d))
        BY <1>1, AmountTypes
    <2>2. ASSUME NEW S, S \subseteq Requests, IsFiniteSet(S)
          PROVE  SumFunctionOnSet(Holdings, S) = 0 /\ SumFunctionOnSet(Payments, S) = 0
        BY <1>2, <2>2, NothingSums
    <2>3. DOMAIN Holdings = Requests /\ DOMAIN Payments = Requests
        BY DEF Holdings, Payments
    <2> QED BY <2>1, <2>2, <2>3, RequestsAreFinite DEF SumFunction
<1>4. account.budget.allocation >= 0 /\ account.budget.ceiling >= 0
    BY <1>1, ModelAssumption
<1>5. /\ books.reserved + books.actual <= account.budget.allocation
      /\ \A d \in 1 .. Days : daily[d].reserved + daily[d].actual <= account.budget.ceiling
    BY <1>1, <1>4 DEF Entry
<1>6. \A r \in Requests : Dated(request[r])
    BY <1>1 DEF Dated, Row
<1> QED BY <1>1, <1>3, <1>5, <1>6 DEF Balance, BooksBalance

(* The books balance always: the account and every day hold exactly what   *)
(* the requests hold and have been booked, over any number of requests,    *)
(* days and changes of the budget, and no day goes beyond the ceiling.     *)
THEOREM BooksAlwaysBalance == Spec => []BooksBalance
<1>1. Init => IInv /\ Balance
    BY InitHolds, BalanceInit
<1>2. IInv /\ Balance /\ [Next]_vars => (IInv /\ Balance)'
    BY Inductive, Balances
<1>3. Balance => BooksBalance
    BY DEF Balance
<1> QED BY <1>1, <1>2, <1>3, PTL DEF Spec

(* No bill is more than is held and booked for its request. *)
LEMMA BillCovered ==
    ASSUME TypeOK, Money, NEW r \in Requests
    PROVE  bill[r] <= request[r].hold + request[r].paid
<1> DEFINE q == request[r]
           d == dispatch[r]
           b == bill[r]
<1>1. q \in RequestRow /\ d \in DispatchRow /\ b \in Nat /\ Accounted(q, d, b)
    BY Types DEF Money
<1> HIDE DEF q, d, b
<1>2. q.hold \in Nat /\ q.paid \in Nat /\ q.state \in States
    BY <1>1 DEF RequestRow
<1>3. CASE Uncertain(q, d, b)
    <2>1. q.paid + Price <= Hold /\ q.hold + q.paid = Hold /\ b <= q.paid + Price
        BY <1>1, <1>3, WithinHold DEF Uncertain
    <2> QED BY <1>1, <1>2, <2>1, Amounts DEF q, b
<1>4. CASE Untouched(q, d, b) \/ Waiting(q, d, b) \/ Closed(q, d, b)
    <2>1. b <= q.hold + q.paid
        BY <1>1, <1>2, <1>4 DEF Untouched, Waiting, Closed
    <2> QED BY <2>1 DEF q, b
<1>5. Uncertain(q, d, b) \/ Untouched(q, d, b) \/ Waiting(q, d, b) \/ Closed(q, d, b)
    BY <1>1, <1>2 DEF Accounted, States, Final
<1> QED BY <1>3, <1>4, <1>5

(* All that the provider has billed is within what the account allows,     *)
(* whatever answers are lost, whoever reports late and whatever budget is  *)
(* configured meanwhile: every bill is covered by what is held or booked   *)
(* for its request, and these add up to the books.                         *)
THEOREM BillsStayWithinBudget == Spec => []BillsWithinBudget
<1>1. Init => IInv /\ Balance
    BY InitHolds, BalanceInit
<1>2. IInv /\ Balance /\ [Next]_vars => (IInv /\ Balance)'
    BY Inductive, Balances
<1>3. ASSUME IInv, Balance PROVE BillsWithinBudget
    <2> DEFINE both == [r \in Requests |-> Holdings[r] + Payments[r]]
    <2>1. /\ TypeOK /\ Money /\ IsFiniteSet(Requests)
          /\ DOMAIN Holdings = Requests /\ DOMAIN Payments = Requests
          /\ bill \in [Requests -> Nat]
          /\ \A r \in Requests : /\ Holdings[r] = request[r].hold /\ Holdings[r] \in Int
                                 /\ Payments[r] = request[r].paid /\ Payments[r] \in Int
        BY <1>3, AmountTypes, Types, RequestsAreFinite DEF IInv
    <2>2. \A r \in Requests : both[r] = Holdings[r] + Payments[r] /\ both[r] \in Int
        BY <2>1
    <2>3. \A r \in Requests : bill[r] \in Int /\ bill[r] <= both[r]
        BY <2>1, <2>2, BillCovered
    <2> HIDE DEF both
    <2>4. SumFunctionOnSet(bill, Requests) <= SumFunctionOnSet(both, Requests)
        BY <2>1, <2>2, <2>3, SumLeq
    <2>5. SumFunctionOnSet(both, Requests)
            = SumFunctionOnSet(Holdings, Requests) + SumFunctionOnSet(Payments, Requests)
        BY <2>1, <2>2, SumPlus
    <2>6. /\ books.reserved = SumFunctionOnSet(Holdings, Requests)
          /\ books.actual = SumFunctionOnSet(Payments, Requests)
          /\ books.reserved + books.actual <= account.budget.allocation
        BY <1>3, <2>1 DEF Balance, BooksBalance, SumFunction, Entry
    <2>7. /\ SumFunctionOnSet(bill, Requests) \in Int /\ SumFunctionOnSet(both, Requests) \in Int
          /\ account.budget.allocation \in Int
        <3>1. account.budget \in Budgets
            BY <2>1 DEF TypeOK
        <3>2. account.budget.allocation \in Int
            BY <3>1, ModelAssumption
        <3> QED BY <2>1, <2>2, <2>3, <3>2, SumTyped
    <2>8. SumFunctionOnSet(bill, Requests) <= account.budget.allocation
        BY <2>4, <2>5, <2>6, <2>7
    <2> QED BY <2>1, <2>8 DEF BillsWithinBudget, SumFunction
<1> QED BY <1>1, <1>2, <1>3, PTL DEF Spec
-----------------------------------------------------------------------------
(* The refinement                                                          *)

Phases == [r \in Requests |-> PhaseOf(r)]
Sets == [r \in Requests |-> request[r].hold + request[r].paid]
Spending == <<Phases, Sets, bill>>

(* PhaseOf, of the rows. *)
PhaseIn(q, d) ==
    CASE q.state \in {"none", "planned"}        -> "open"
      [] q.state \in {"reserved", "in_flight"}  -> "held"
      [] d.outcome \in Doubts                   -> "doubt"
      [] OTHER                                  -> "settled"

(* What a change of one request shows of its phase and its amount. *)
LEMMA OneRequest ==
    ASSUME TypeOK, NEW r \in Requests,
           NEW q \in RequestRow, request' = [request EXCEPT ![r] = q],
           NEW d \in DispatchRow, dispatch' = [dispatch EXCEPT ![r] = d]
    PROVE  /\ Phases' = [Phases EXCEPT ![r] = PhaseIn(q, d)]
           /\ Sets' = [Sets EXCEPT ![r] = q.hold + q.paid]
           /\ Phases[r] = PhaseIn(request[r], dispatch[r])
           /\ Sets[r] = request[r].hold + request[r].paid
<1>1. request \in [Requests -> RequestRow] /\ dispatch \in [Requests -> DispatchRow]
    BY Types
<1>2. /\ request'[r] = q /\ dispatch'[r] = d
      /\ \A s \in Requests \ {r} : request'[s] = request[s] /\ dispatch'[s] = dispatch[s]
    BY <1>1
<1>3. /\ Phases = [s \in Requests |-> PhaseIn(request[s], dispatch[s])]
      /\ Phases' = [s \in Requests |-> PhaseIn(request'[s], dispatch'[s])]
    BY DEF Phases, PhaseOf, PhaseIn, Doubts
<1>4. /\ Sets = [s \in Requests |-> request[s].hold + request[s].paid]
      /\ Sets' = [s \in Requests |-> request'[s].hold + request'[s].paid]
    BY DEF Sets
<1>5. /\ Phases' = [Phases EXCEPT ![r] = PhaseIn(q, d)]
      /\ Phases[r] = PhaseIn(request[r], dispatch[r])
    BY <1>2, <1>3
<1>6. /\ Sets' = [Sets EXCEPT ![r] = q.hold + q.paid]
      /\ Sets[r] = request[r].hold + request[r].paid
    BY <1>2, <1>4
<1> QED BY <1>5, <1>6

(* A step that touches neither rows nor bills shows nothing. *)
LEMMA NothingShown ==
    ASSUME UNCHANGED <<request, dispatch, bill>>
    PROVE  [Promise!Next]_Spending
BY DEF Spending, Phases, Sets, PhaseOf

(* A request that keeps its phase and its amount shows nothing. *)
LEMMA SameShown ==
    ASSUME TypeOK, NEW r \in Requests,
           NEW q \in RequestRow, request' = [request EXCEPT ![r] = q],
           NEW d \in DispatchRow, dispatch' = [dispatch EXCEPT ![r] = d],
           PhaseIn(q, d) = PhaseIn(request[r], dispatch[r]),
           q.hold + q.paid = request[r].hold + request[r].paid,
           UNCHANGED bill
    PROVE  [Promise!Next]_Spending
<1>1. /\ Phases' = [Phases EXCEPT ![r] = PhaseIn(q, d)]
      /\ Sets' = [Sets EXCEPT ![r] = q.hold + q.paid]
      /\ Phases[r] = PhaseIn(request[r], dispatch[r])
      /\ Sets[r] = request[r].hold + request[r].paid
    BY OneRequest
<1>2. Phases' = Phases /\ Sets' = Sets
    BY <1>1 DEF Phases, Sets
<1> QED BY <1>2 DEF Spending

(* A request that is closed with its exact bill settles. *)
LEMMA SettlesShown ==
    ASSUME TypeOK, NEW r \in Requests,
           NEW q \in RequestRow, request' = [request EXCEPT ![r] = q],
           NEW d \in DispatchRow, dispatch' = [dispatch EXCEPT ![r] = d],
           PhaseIn(request[r], dispatch[r]) \in {"open", "held"},
           PhaseIn(q, d) = "settled",
           q.hold + q.paid = bill[r],
           UNCHANGED bill
    PROVE  [Promise!Next]_Spending
<1>1. /\ Phases' = [Phases EXCEPT ![r] = PhaseIn(q, d)]
      /\ Sets' = [Sets EXCEPT ![r] = q.hold + q.paid]
      /\ Phases[r] = PhaseIn(request[r], dispatch[r])
      /\ Sets[r] = request[r].hold + request[r].paid
    BY OneRequest
<1>2. Promise!Settle(r)
    BY <1>1 DEF Promise!Settle, Phases, Sets
<1> QED BY <1>2 DEF Promise!Next

(* A request that gets its hold has it set aside. *)
LEMMA SetAsideShown ==
    ASSUME TypeOK, NEW r \in Requests,
           NEW q \in RequestRow, request' = [request EXCEPT ![r] = q],
           NEW d \in DispatchRow, dispatch' = [dispatch EXCEPT ![r] = d],
           PhaseIn(request[r], dispatch[r]) = "open",
           PhaseIn(q, d) = "held",
           q.hold + q.paid = Hold,
           UNCHANGED bill
    PROVE  [Promise!Next]_Spending
<1>1. /\ Phases' = [Phases EXCEPT ![r] = PhaseIn(q, d)]
      /\ Sets' = [Sets EXCEPT ![r] = q.hold + q.paid]
      /\ Phases[r] = PhaseIn(request[r], dispatch[r])
      /\ Sets[r] = request[r].hold + request[r].paid
    BY OneRequest
<1>2. Promise!SetAside(r)
    BY <1>1 DEF Promise!SetAside, Phases, Sets
<1> QED BY <1>2 DEF Promise!Next

(* A request whose dispatch nobody can tell the outcome of is in doubt.    *)
LEMMA DoubtShown ==
    ASSUME TypeOK, NEW r \in Requests,
           NEW q \in RequestRow, request' = [request EXCEPT ![r] = q],
           NEW d \in DispatchRow, dispatch' = [dispatch EXCEPT ![r] = d],
           PhaseIn(request[r], dispatch[r]) = "held",
           PhaseIn(q, d) = "doubt",
           q.hold + q.paid = request[r].hold + request[r].paid,
           UNCHANGED bill
    PROVE  [Promise!Next]_Spending
<1>1. /\ Phases' = [Phases EXCEPT ![r] = PhaseIn(q, d)]
      /\ Sets' = [Sets EXCEPT ![r] = q.hold + q.paid]
      /\ Phases[r] = PhaseIn(request[r], dispatch[r])
      /\ Sets[r] = request[r].hold + request[r].paid
    BY OneRequest
<1>2. Sets' = Sets
    BY <1>1 DEF Sets
<1>3. Promise!Doubt(r)
    BY <1>1, <1>2 DEF Promise!Doubt, Phases, Sets
<1> QED BY <1>3 DEF Promise!Next

(* The phase of an accounted request. *)
LEMMA PhaseTells ==
    ASSUME NEW q, NEW d, NEW b, Accounted(q, d, b)
    PROVE  /\ q.state \in {"none", "planned"} => PhaseIn(q, d) = "open"
           /\ q.state \in {"reserved", "in_flight"} => PhaseIn(q, d) = "held"
           /\ d.outcome \in Doubts => PhaseIn(q, d) = "doubt"
           /\ q.state \in Final /\ d.outcome \notin Doubts => PhaseIn(q, d) = "settled"
<1>1. CASE q.state \in {"none", "planned"}
    <2>1. d.outcome \notin Doubts
        BY <1>1 DEF Accounted
    <2> QED BY <1>1, <2>1 DEF PhaseIn, Final
<1>2. CASE q.state \in {"reserved", "in_flight"}
    <2>1. d.outcome \notin Doubts
        BY <1>2 DEF Accounted
    <2> QED BY <1>2, <2>1 DEF PhaseIn, Final
<1>3. CASE q.state \notin {"none", "planned", "reserved", "in_flight"}
    BY <1>3 DEF PhaseIn
<1> QED BY <1>1, <1>2, <1>3

(* To set money aside, or to refuse it, is a step of the promise. *)
LEMMA ReserveShown ==
    ASSUME IInv, NEW w \in Workers, Reserve(w)
    PROVE  [Promise!Next]_Spending
<1> DEFINE r == run[w].request
           q == IF Affordable THEN Row("reserved", today, Hold, 0)
                              ELSE Row("review_required", 0, 0, 0)
<1>1. /\ run[w].pc = "reserve" /\ request[r].state = "planned"
      /\ request' = [request EXCEPT ![r] = q] /\ UNCHANGED <<dispatch, bill>>
    BY DEF Reserve, ReserveEffect
<1>2. /\ TypeOK /\ r \in Requests /\ today \in 1 .. Days
      /\ request[r] \in RequestRow /\ dispatch[r] \in DispatchRow /\ bill[r] \in Nat
      /\ dispatch \in [Requests -> DispatchRow]
    BY <1>1, Types, AtWork DEF IInv
<1>3. Untouched(request[r], dispatch[r], bill[r]) /\ Accounted(request[r], dispatch[r], bill[r])
    BY <1>1, <1>2 DEF IInv, Money, Accounted
<1>4. q \in RequestRow
    <2>1. today \in 0 .. Days /\ 0 \in 0 .. Days /\ 0 \in Nat /\ Hold \in Nat
        BY <1>2, ModelAssumption, Amounts
    <2> QED BY <2>1, RowTypes DEF States
<1>5. dispatch' = [dispatch EXCEPT ![r] = dispatch[r]]
    BY <1>1, <1>2
<1>6. PhaseIn(request[r], dispatch[r]) = "open" /\ Accounted(q, dispatch[r], bill[r])
    BY <1>1, <1>2, <1>3, PhaseTells, ReservedAccounts
<1>7. CASE Affordable
    <2>1. q.state = "reserved" /\ q.hold = Hold /\ q.paid = 0
        BY <1>7 DEF Row
    <2>2. PhaseIn(q, dispatch[r]) = "held" /\ q.hold + q.paid = Hold
        BY <1>6, <2>1, Amounts, PhaseTells
    <2> HIDE DEF q
    <2> QED BY <1>1, <1>2, <1>4, <1>5, <1>6, <2>2, SetAsideShown
<1>8. CASE ~Affordable
    <2>1. q.state = "review_required" /\ q.hold = 0 /\ q.paid = 0
        BY <1>8 DEF Row
    <2>2. PhaseIn(q, dispatch[r]) = "settled"
        BY <1>3, <1>6, <2>1, PhaseTells DEF Untouched, Doubts, Open, Final
    <2>3. q.hold + q.paid = bill[r]
        BY <1>3, <2>1 DEF Untouched
    <2> HIDE DEF q
    <2> QED BY <1>1, <1>2, <1>4, <1>5, <1>6, <2>2, <2>3, SettlesShown
<1> QED BY <1>7, <1>8

(* To authorize a send shows nothing, to give the request up settles it. *)
LEMMA BeginShown ==
    ASSUME IInv, NEW w \in Workers, Begin(w)
    PROVE  [Promise!Next]_Spending
<1> DEFINE r == run[w].request
<1>1. /\ run[w].pc = "begin" /\ request[r].state = "reserved"
      /\ dispatch[r].number < MaxAttempts
      /\ BeginEffect(r, run[w].fence) /\ UNCHANGED bill
    BY DEF Begin
<1>2. /\ TypeOK /\ r \in Requests /\ run[w] \in RunState
      /\ request[r] \in RequestRow /\ dispatch[r] \in DispatchRow /\ bill[r] \in Nat
      /\ dispatch \in [Requests -> DispatchRow]
    BY <1>1, Types, AtWork DEF IInv
<1>3. Waiting(request[r], dispatch[r], bill[r]) /\ Accounted(request[r], dispatch[r], bill[r])
    BY <1>1, <1>2 DEF IInv, Money, Accounted
<1>4. PhaseIn(request[r], dispatch[r]) = "held"
    BY <1>1, <1>3, PhaseTells
<1>5. CASE account.enabled
    <2> DEFINE q == Row("in_flight", request[r].day, request[r].hold, request[r].paid)
               d == Sent(dispatch[r].number + 1, run[w].fence, "pending")
    <2>1. request' = [request EXCEPT ![r] = q] /\ dispatch' = [dispatch EXCEPT ![r] = d]
        BY <1>1, <1>5 DEF BeginEffect
    <2>2. dispatch[r].number + 1 \in 0 .. MaxAttempts
        BY <1>1, <1>2, Amounts DEF DispatchRow
    <2>3. q \in RequestRow /\ d \in DispatchRow
        BY <1>2, <2>2 DEF Row, RequestRow, Sent, DispatchRow, RunState, States, Outcomes
    <2>4. PhaseIn(q, d) = "held" /\ q.hold + q.paid = request[r].hold + request[r].paid
        <3>1. q.state = "in_flight" /\ q.hold = request[r].hold /\ q.paid = request[r].paid
            BY DEF Row
        <3>2. Accounted(q, d, bill[r])
            BY <1>1, <1>2, <1>3, BegunAccounts
        <3> HIDE DEF q, d
        <3> QED BY <3>1, <3>2, PhaseTells
    <2> HIDE DEF q, d
    <2> QED BY <1>1, <1>2, <1>4, <2>1, <2>3, <2>4, SameShown
<1>6. CASE ~account.enabled
    <2> DEFINE q == Row("review_required", request[r].day, 0, request[r].paid)
    <2>1. /\ request' = [request EXCEPT ![r] = q]
          /\ dispatch' = [dispatch EXCEPT ![r] = dispatch[r]]
        BY <1>1, <1>2, <1>6 DEF BeginEffect
    <2>2. q \in RequestRow
        BY <1>2 DEF Row, RequestRow, States
    <2>3. q.state = "review_required" /\ q.hold = 0 /\ q.paid = request[r].paid
        BY DEF Row
    <2>4. PhaseIn(q, dispatch[r]) = "settled"
        <3>1. Accounted(q, dispatch[r], bill[r])
            BY <1>1, <1>2, <1>3, BegunAccounts
        <3>2. dispatch[r].outcome \notin Doubts
            BY <1>3 DEF Waiting, Doubts, Open
        <3> HIDE DEF q
        <3> QED BY <2>3, <3>1, <3>2, PhaseTells DEF Final
    <2>5. q.hold + q.paid = bill[r]
        <3>1. bill[r] = request[r].paid
            BY <1>3 DEF Waiting
        <3> HIDE DEF q
        <3> QED BY <1>2, <2>3, <3>1
    <2> HIDE DEF q
    <2> QED BY <1>1, <1>2, <1>4, <2>1, <2>2, <2>4, <2>5, SettlesShown
<1> QED BY <1>5, <1>6

(* What the provider bills stays within the amount set aside. *)
LEMMA PostShown ==
    ASSUME IInv, NEW w \in Workers, Post(w)
    PROVE  [Promise!Next]_Spending
<1> DEFINE r == run[w].request
<1>1. /\ run[w].pc = "post" /\ UNCHANGED <<request, dispatch>>
      /\ \E cost \in 0 .. Price : bill' = [bill EXCEPT ![r] = bill[r] + cost]
    BY DEF Post, ledger
<1>2. PICK cost \in 0 .. Price : bill' = [bill EXCEPT ![r] = bill[r] + cost]
    BY <1>1
<1>3. /\ TypeOK /\ r \in Requests /\ bill \in [Requests -> Nat]
      /\ request[r] \in RequestRow /\ dispatch[r] \in DispatchRow /\ bill[r] \in Nat
    BY <1>1, Types, AtWork DEF IInv
<1>4. /\ Sender(run[w], request[r], dispatch[r], bill[r])
      /\ Accounted(request[r], dispatch[r], bill[r])
    BY <1>1, <1>3 DEF IInv, Senders, Sends, Money
<1>5. Uncertain(request[r], dispatch[r], bill[r])
    BY <1>3, <1>4, BilledAccounts DEF Sender
<1>6. request[r].paid + Price <= Hold
    BY <1>3, <1>5, WithinHold
<1>7. /\ request[r].paid \in Nat /\ request[r].hold \in Nat /\ cost \in Nat /\ cost <= Price
      /\ Hold \in Nat /\ Price \in Nat
    BY <1>3, Amounts DEF RequestRow
<1>8. bill[r] + cost <= request[r].hold + request[r].paid /\ cost <= Hold
    BY <1>4, <1>5, <1>6, <1>7 DEF Sender, Uncertain
<1>9. PhaseOf(r) \in {"held", "doubt"}
    BY <1>4 DEF Sender, Accounted, PhaseOf, Doubts
<1>10. /\ Phases' = Phases /\ Sets' = Sets
    BY <1>1 DEF Phases, Sets, PhaseOf
<1>11. CASE cost = 0
    <2>1. bill' = bill
        BY <1>2, <1>3, <1>11
    <2> QED BY <1>10, <2>1 DEF Spending
<1>12. CASE cost # 0
    <2>1. cost \in 1 .. Hold
        BY <1>7, <1>8, <1>12
    <2>2. Phases[r] \in {"held", "doubt"} /\ bill[r] + cost <= Sets[r]
        BY <1>3, <1>8, <1>9 DEF Phases, Sets
    <2>3. Promise!Bill(r)
        BY <1>2, <1>10, <2>1, <2>2 DEF Promise!Bill, Phases, Sets
    <2> QED BY <1>3, <2>3 DEF Promise!Next
<1> QED BY <1>11, <1>12

(* What a reconciliation makes of a request is a step of the promise. *)
LEMMA ReconcileShown ==
    ASSUME IInv, NEW r \in Requests, dispatch[r].outcome = "pending",
           NEW result \in Results, ReconcileEffect(r, result),
           result.class \notin Open => bill[r] = request[r].paid + result.cost,
           UNCHANGED bill
    PROVE  [Promise!Next]_Spending
<1>1. PICK q \in RequestRow, d \in DispatchRow :
         /\ request' = [request EXCEPT ![r] = q]
         /\ dispatch' = [dispatch EXCEPT ![r] = d]
         /\ Accounted(q, d, bill[r])
         /\ Resolved(dispatch[r], d)
         /\ d.outcome = result.class
    BY ReconcileEffects
<1>2. /\ TypeOK /\ request[r] \in RequestRow /\ dispatch[r] \in DispatchRow /\ bill[r] \in Nat
    BY Types DEF IInv
<1>3. /\ request[r].state = "in_flight" /\ Uncertain(request[r], dispatch[r], bill[r])
      /\ Accounted(request[r], dispatch[r], bill[r])
    BY DEF IInv, Money, Accounted
<1>4. PhaseIn(request[r], dispatch[r]) = "held"
    BY <1>3, PhaseTells
<1>5. d.outcome # "pending" /\ d.number # 0
    BY <1>1, <1>2, <1>3, ModelAssumption, ResultTypes DEF Resolved, Uncertain, DispatchRow
<1>6. q.state \in {"reserved"} \cup Final
    BY <1>1, <1>5 DEF Accounted, Untouched, RequestRow, States, Final
<1>7. CASE d.outcome \in Doubts
    <2>1. PhaseIn(q, d) = "doubt"
        BY <1>1, <1>7, PhaseTells
    <2>2. q.hold + q.paid = Hold /\ request[r].hold + request[r].paid = Hold
        BY <1>1, <1>3, <1>7 DEF Accounted, Uncertain
    <2> QED BY <1>1, <1>2, <1>4, <2>1, <2>2, DoubtShown
<1>8. CASE d.outcome \notin Doubts /\ q.state = "reserved"
    <2>1. PhaseIn(q, d) = "held"
        BY <1>1, <1>8, PhaseTells
    <2>2. q.hold + q.paid = Hold /\ request[r].hold + request[r].paid = Hold
        BY <1>1, <1>3, <1>8 DEF Accounted, Waiting, Uncertain
    <2> QED BY <1>1, <1>2, <1>4, <2>1, <2>2, SameShown
<1>9. CASE d.outcome \notin Doubts /\ q.state \in Final
    <2>1. PhaseIn(q, d) = "settled"
        BY <1>1, <1>9, PhaseTells
    <2>2. q.hold = 0 /\ q.paid = bill[r]
        BY <1>1, <1>9 DEF Accounted, Closed
    <2>3. q.hold + q.paid = bill[r]
        BY <1>2, <2>2
    <2> QED BY <1>1, <1>2, <1>4, <2>1, <2>3, SettlesShown
<1> QED BY <1>6, <1>7, <1>8, <1>9

(* A dispatch of an earlier lease is given up: the request is in doubt. *)
LEMMA RecoverShown ==
    ASSUME IInv, NEW w \in Workers, Recover(w)
    PROVE  [Promise!Next]_Spending
<1> DEFINE r == run[w].request
           q == Row("outcome_unknown", request[r].day, request[r].hold, request[r].paid)
           d == Sent(dispatch[r].number, dispatch[r].fence, "quarantined")
<1>1. /\ run[w].pc = "recover" /\ dispatch[r].outcome = "pending"
      /\ request' = [request EXCEPT ![r] = q] /\ dispatch' = [dispatch EXCEPT ![r] = d]
      /\ UNCHANGED bill
    BY DEF Recover, Quarantinable, Awaited, QuarantineEffect
<1>2. /\ TypeOK /\ r \in Requests /\ request[r] \in RequestRow /\ dispatch[r] \in DispatchRow
      /\ bill[r] \in Nat
    BY <1>1, Types, AtWork DEF IInv
<1>3. request[r].state = "in_flight" /\ Accounted(request[r], dispatch[r], bill[r])
    BY <1>1, <1>2 DEF IInv, Money, Accounted
<1>4. q \in RequestRow /\ d \in DispatchRow
    BY <1>2 DEF Row, RequestRow, Sent, DispatchRow, States, Outcomes
<1>5. /\ PhaseIn(request[r], dispatch[r]) = "held" /\ PhaseIn(q, d) = "doubt"
      /\ q.hold + q.paid = request[r].hold + request[r].paid
    <2>1. /\ d.outcome = "quarantined" /\ "quarantined" \in Doubts
          /\ q.hold = request[r].hold /\ q.paid = request[r].paid
        BY DEF Row, Sent, Doubts
    <2>2. Accounted(q, d, bill[r])
        BY <1>1, <1>2, <1>3, Types, DoubtAccounts DEF Doubts
    <2> HIDE DEF q, d
    <2> QED BY <1>3, <2>1, <2>2, PhaseTells
<1> HIDE DEF q, d
<1> QED BY <1>1, <1>2, <1>4, <1>5, DoubtShown

(* A reconciliation that a run makes, or one that is executed late. *)
LEMMA RunReconcileShown ==
    ASSUME IInv, NEW w \in Workers, Reconcile(w)
    PROVE  [Promise!Next]_Spending
<1> DEFINE r == run[w].request
           result == run[w].result
<1>1. run[w].pc \in {"reconcile", "reconcile_again"} /\ UNCHANGED bill
    BY DEF Reconcile
<1>2. /\ TypeOK /\ Runs /\ r \in Requests /\ run[w] \in RunState
    BY <1>1, Types, AtWork DEF IInv
<1>3. result # NoResult /\ result \in Results
    BY <1>1, <1>2 DEF Runs, Running, Reporting, RunState
<1>4. Known(run[w].number, result, request[r], dispatch[r], bill[r])
    BY <1>3 DEF IInv, Holders, Knows, Holder
<1>5. CASE Awaited(r, run[w].number) /\ ReconcileEffect(r, result)
    <2>1. dispatch[r].outcome = "pending" /\ dispatch[r].number = run[w].number
        BY <1>5 DEF Awaited
    <2>2. result.class \notin Open => bill[r] = request[r].paid + result.cost
        BY <1>4, <2>1 DEF Known
    <2> QED BY <1>1, <1>2, <1>3, <1>5, <2>1, <2>2, ReconcileShown
<1>6. CASE UNCHANGED ledger
    BY <1>1, <1>6, NothingShown DEF ledger
<1> QED BY <1>5, <1>6 DEF Reconcile

(* The same for one that is executed late. *)
LEMMA LateReconcileShown ==
    ASSUME IInv, LateReconcile
    PROVE  [Promise!Next]_Spending
<1>1. PICK call \in late :
         IF Awaited(call.request, call.number)
           THEN ReconcileEffect(call.request, call.result)
           ELSE UNCHANGED ledger
    BY DEF LateReconcile
<1>2. UNCHANGED bill
    BY DEF LateReconcile
<1> DEFINE r == call.request
<1>3. r \in Requests /\ call.result \in Results
    BY Types DEF IInv, Call
<1>4. Known(call.number, call.result, request[r], dispatch[r], bill[r])
    BY DEF IInv, Calls
<1>5. CASE Awaited(r, call.number)
    <2>1. dispatch[r].outcome = "pending" /\ dispatch[r].number = call.number
        BY <1>5 DEF Awaited
    <2>2. call.result.class \notin Open => bill[r] = request[r].paid + call.result.cost
        BY <1>4, <2>1 DEF Known
    <2> QED BY <1>1, <1>2, <1>3, <1>5, <2>1, <2>2, ReconcileShown
<1>6. CASE ~Awaited(r, call.number)
    BY <1>1, <1>2, <1>6, NothingShown DEF ledger
<1> QED BY <1>5, <1>6

(* A request that is only planned has neither hold nor bill. *)
LEMMA CreateShown ==
    ASSUME IInv, NEW w \in Workers, Create(w)
    PROVE  [Promise!Next]_Spending
<1> DEFINE r == run[w].request
           q == Row("planned", 0, 0, 0)
<1>1. /\ run[w].pc = "create" /\ request[r].state = "none"
      /\ request' = [request EXCEPT ![r] = q] /\ UNCHANGED <<dispatch, bill>>
    BY DEF Create
<1>2. /\ TypeOK /\ r \in Requests /\ request[r] \in RequestRow /\ dispatch[r] \in DispatchRow
      /\ dispatch \in [Requests -> DispatchRow]
    BY <1>1, Types, AtWork DEF IInv
<1>3. Untouched(request[r], dispatch[r], bill[r]) /\ Accounted(request[r], dispatch[r], bill[r])
    BY <1>1, <1>2 DEF IInv, Money, Accounted
<1>4. q \in RequestRow /\ q.state = "planned" /\ q.hold = 0 /\ q.paid = 0
    BY ModelAssumption, RowTypes DEF States, Row
<1> HIDE DEF q
<1>5. Accounted(q, dispatch[r], bill[r])
    BY <1>3, <1>4 DEF Accounted, Untouched, Doubts, Open, Final
<1>6. PhaseIn(q, dispatch[r]) = "open" /\ PhaseIn(request[r], dispatch[r]) = "open"
    BY <1>1, <1>3, <1>4, <1>5, PhaseTells
<1>7. dispatch' = [dispatch EXCEPT ![r] = dispatch[r]]
    BY <1>1, <1>2
<1>8. q.hold + q.paid = request[r].hold + request[r].paid
    BY <1>3, <1>4 DEF Untouched
<1>9. PhaseIn(q, dispatch[r]) = PhaseIn(request[r], dispatch[r]) /\ UNCHANGED bill
    BY <1>1, <1>6
<1> QED BY <1>1, <1>2, <1>4, <1>7, <1>8, <1>9, SameShown

(* Every step is a step of the promise or shows nothing of it. *)
LEMMA StepShows == IInv /\ [Next]_vars => [Promise!Next]_Spending
<1> SUFFICES ASSUME IInv, [Next]_vars PROVE [Promise!Next]_Spending
    OBVIOUS
<1>1. ASSUME NEW w \in Workers, Claim(w) \/ Lookup(w) \/ Reread(w) \/ Read(w) \/ SealResult(w)
                                \/ SealReview(w) \/ Complete(w) \/ CallFails(w) \/ Fail(w) \/ Stop(w)
      PROVE  UNCHANGED <<request, dispatch, bill>>
    BY <1>1 DEF Claim, Lookup, Reread, Read, SealResult, SealReview, Complete, CallFails, Fail, Stop,
                ledger
<1>2. ASSUME NEW w \in Workers, Claim(w) \/ Step(w)
      PROVE  [Promise!Next]_Spending
    BY <1>1, <1>2, NothingShown, CreateShown, ReserveShown, BeginShown, PostShown,
       RunReconcileShown, RecoverShown DEF Step
<1>3. CASE (\E r \in Requests : Expire(r)) \/ Configure \/ Midnight \/ UNCHANGED vars
    <2>1. UNCHANGED <<request, dispatch, bill>>
        BY <1>3 DEF Expire, Configure, Midnight, ledger, vars
    <2> QED BY <2>1, NothingShown
<1> QED BY <1>2, <1>3, LateReconcileShown DEF Next

(* The ledger keeps the promise of ModelSpending: whatever answers are     *)
(* lost, runs end and leases expire, no request is billed for more than    *)
(* was set aside for it, and it is settled to the cent or in doubt for     *)
(* good.                                                                   *)
THEOREM PromiseIsKept == Spec => KeepsPromise
<1>1. Init => Promise!Init
    BY DEF Init, Promise!Init, PhaseOf, Row, Sent, Open
<1>2. [Promise!Next]_Spending => [Promise!Next]_Promise!vars
    BY DEF Spending, Phases, Sets, Promise!vars
<1> QED BY <1>1, <1>2, StepShows, Invariance, PTL
        DEF Spec, KeepsPromise, Promise!Spec
=============================================================================
