---------------------------- MODULE LoadGenerator -----------------------------
(***************************************************************************)
(* The load generator (LoadGenerator::generate_tcp_load,                   *)
(* src/src/utils/network.rs:370-475): one task per connection sends        *)
(* requests, one after another and a pause apart, until its own clock says *)
(* that the duration is over; the caller joins the tasks in the order in   *)
(* which it spawned them and adds up what they return.                     *)
(*                                                                         *)
(* Time is a number of ticks.  A task may be late by MaxWait ticks at      *)
(* every await, and so may the answer of the system to a connect or to a   *)
(* write, except that a write waits for ever once the target has stopped   *)
(* reading: there are no timeouts in this code.                            *)
(***************************************************************************)
EXTENDS Integers, Sequences, FiniteSets

CONSTANTS
    concurrent_connections,
    request_rate,       \* requests per second
    Second,             \* in ticks
    duration,           \* in ticks
    MaxWait,            \* bound of the model: how late a task or an answer may be
    MaxTime             \* bound of the model: ticks

ASSUME LoadAssumption ==
    /\ concurrent_connections \in Nat \ {0} /\ request_rate \in Nat \ {0}
    /\ Second \in Nat \ {0} /\ duration \in Nat /\ MaxWait \in Nat
    /\ request_rate > concurrent_connections =>
          (Second * concurrent_connections) % request_rate = 0
    /\ MaxTime >= duration + Second + 4 * MaxWait

Workers == 1..concurrent_connections

\* At least one request per second and worker, whatever the rate.
delay_between_requests ==
    IF request_rate <= concurrent_connections THEN Second
    ELSE (Second * concurrent_connections) \div request_rate

VARIABLES
    now,              \* ticks since start_time
    pc,               \* worker -> "spawned", "connecting", "writing", "stuck", "sleeping",
                      \* "returned"
    since,            \* worker -> when it got there
    worker_start,
    request_start,
    worker_results,   \* worker -> its requests: [success, begun, ended]
    joined,           \* workers joined
    results,          \* what they have returned
    report            \* the LoadTestResult, as an option

workerVars == <<pc, since, worker_start, request_start, worker_results>>
callerVars == <<joined, results, report>>
vars == <<now, workerVars, callerVars>>

Init == /\ now = 0
        /\ pc = [w \in Workers |-> "spawned"] /\ since = [w \in Workers |-> 0]
        /\ worker_start = [w \in Workers |-> 0] /\ request_start = [w \in Workers |-> 0]
        /\ worker_results = [w \in Workers |-> << >>]
        /\ joined = 0 /\ results = << >> /\ report = {}

-----------------------------------------------------------------------------
(* A worker *)

Goto(w, place) == pc' = [pc EXCEPT ![w] = place] /\ since' = [since EXCEPT ![w] = now]

Start(w) ==
    /\ pc[w] = "spawned"
    /\ worker_start' = [worker_start EXCEPT ![w] = now]
    /\ request_start' = [request_start EXCEPT ![w] = now]
    /\ Goto(w, IF duration > 0 THEN "connecting" ELSE "returned")
    /\ UNCHANGED <<now, worker_results, callerVars>>

\* Fault: the duration is measured from the latest request.
AgainRestarting(w) ==
    /\ pc[w] = "sleeping" /\ now >= since[w] + delay_between_requests
    /\ request_start' = [request_start EXCEPT ![w] = now]
    /\ worker_start' = [worker_start EXCEPT ![w] = now]
    /\ Goto(w, IF now - worker_start[w] < duration THEN "connecting" ELSE "returned")
    /\ UNCHANGED <<now, worker_results, callerVars>>

\* The pause is over: the test of the loop, and the next request.
Again(w) ==
    /\ pc[w] = "sleeping" /\ now >= since[w] + delay_between_requests
    /\ IF now - worker_start[w] < duration
       THEN request_start' = [request_start EXCEPT ![w] = now] /\ Goto(w, "connecting")
       ELSE UNCHANGED request_start /\ Goto(w, "returned")
    /\ UNCHANGED <<now, worker_start, worker_results, callerVars>>

Connect(w) ==
    /\ pc[w] = "connecting"
    /\ Goto(w, "writing")
    /\ UNCHANGED <<now, worker_start, request_start, worker_results, callerVars>>

\* Fault: there is no pause after a failure.
FinishHurrying(w, success) ==
    /\ worker_results' = [worker_results EXCEPT ![w] =
          Append(@, [success |-> success, begun |-> request_start[w], ended |-> now])]
    /\ IF success THEN Goto(w, "sleeping")
       ELSE /\ pc' = [pc EXCEPT ![w] = "sleeping"]
            /\ since' = [since EXCEPT ![w] = worker_start[w]]
    /\ UNCHANGED <<now, worker_start, request_start, callerVars>>

Finish(w, success) ==
    /\ worker_results' = [worker_results EXCEPT ![w] =
          Append(@, [success |-> success, begun |-> request_start[w], ended |-> now])]
    /\ Goto(w, "sleeping")
    /\ UNCHANGED <<now, worker_start, request_start, callerVars>>

ConnectFails(w) == pc[w] = "connecting" /\ Finish(w, FALSE)

WriteReturns(w) == pc[w] = "writing" /\ \E success \in BOOLEAN : Finish(w, success)

Worker(w) == Start(w) \/ Again(w) \/ Connect(w) \/ ConnectFails(w) \/ WriteReturns(w)

\* write_all fills the buffers of a target that does not read.
Stall(w) ==
    /\ pc[w] = "writing"
    /\ Goto(w, "stuck")
    /\ UNCHANGED <<now, worker_start, request_start, worker_results, callerVars>>

-----------------------------------------------------------------------------
(* The caller *)

\* Fault: a worker is not waited for.
JoinEarly ==
    /\ joined < concurrent_connections
    /\ joined' = joined + 1
    /\ results' = results \o worker_results[joined']
    /\ UNCHANGED <<now, workerVars, report>>

\* The workers do not panic, so that handle.await is Ok.
Join ==
    /\ joined < concurrent_connections /\ pc[joined + 1] = "returned"
    /\ joined' = joined + 1
    /\ results' = results \o worker_results[joined']
    /\ UNCHANGED <<now, workerVars, report>>

Report ==
    /\ joined = concurrent_connections /\ report = {}
    /\ LET Count(success) == Cardinality({k \in DOMAIN results : results[k].success = success})
       IN  report' = {[total_requests      |-> Len(results),
                       successful_requests |-> Count(TRUE),
                       failed_requests     |-> Count(FALSE),
                       total_time          |-> now]}
    /\ UNCHANGED <<now, workerVars, joined, results>>

Caller == Join \/ Report

\* Whoever runs or waits for an answer is not late by more than MaxWait.
Patient(w) ==
    \/ pc[w] \in {"stuck", "returned"}
    \/ now < since[w] + MaxWait + (IF pc[w] = "sleeping" THEN delay_between_requests ELSE 0)

Tick == /\ now < MaxTime /\ report = {}
        /\ \A w \in Workers : Patient(w)
        /\ now' = now + 1
        /\ UNCHANGED <<workerVars, callerVars>>

Next == (\E w \in Workers : Worker(w) \/ Stall(w)) \/ Caller \/ Tick

Spec == Init /\ [][Next]_vars

\* The runtime polls every task that can go on, the system answers unless the target
\* does not read, and time passes.
FairSpec == /\ Spec /\ WF_vars(Caller) /\ WF_vars(Tick)
            /\ \A w \in Workers : WF_vars(Worker(w))

-----------------------------------------------------------------------------
\* The requests of some workers, as <<worker, which of its requests>>.
RequestsOf(workers) == UNION {{w} \X DOMAIN worker_results[w] : w \in workers}
Outcome(request)    == worker_results[request[1]][request[2]]

\* The report is complete, in whatever order the workers end: it counts every request
\* of every worker, and each of them falls into its total time, which is not shorter
\* than the duration asked for (network.rs:446-462).
ReportCovers ==
    LET all == RequestsOf(Workers)
    IN  \A r \in report :
          /\ r.total_requests = Cardinality(all)
          /\ r.successful_requests = Cardinality({q \in all : Outcome(q).success})
          /\ r.failed_requests = Cardinality({q \in all : ~Outcome(q).success})
          /\ r.successful_requests + r.failed_requests = r.total_requests
          /\ \A q \in all : Outcome(q).ended <= r.total_time
          /\ r.total_time >= duration

\* Apart from the first request of every connection, the load does not exceed the rate
\* asked for, or one request per second and connection where that is more: slow answers
\* and late wake-ups only ever lower it, and a worker that failed does not catch up
\* (network.rs:398-442).
RateKept ==
    LET rate == IF request_rate <= concurrent_connections THEN concurrent_connections
                ELSE request_rate
    IN  (Cardinality(RequestsOf(Workers)) - concurrent_connections) * Second <= rate * now

\* There is a report in the end, unless a write has stalled: then none of the results,
\* of whatever worker, ever gets out.
LoadEnds == <>(report # {} \/ \E w \in Workers : pc[w] = "stuck")
=============================================================================
