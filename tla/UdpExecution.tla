---------------------------- MODULE UdpExecution -----------------------------
(***************************************************************************)
(* One test case after another against a UDP target                        *)
(* (execute_udp_test_case, src/src/fuzzer/mod.rs:329-384): bind a socket   *)
(* to a port of the kernel's choice, send the input as one datagram, take  *)
(* the first datagram that arrives at the port within two seconds from     *)
(* whatever address, drop the socket.                                      *)
(*                                                                         *)
(* The network loses, delays, reorders and duplicates datagrams, the       *)
(* target takes its time to answer, and others may send to the port.  The  *)
(* target may be down from the start, be killed by an input, stop for      *)
(* reasons of its own, and be started again at any time.                   *)
(*                                                                         *)
(* A request carries the port it was sent from, an answer the port it goes *)
(* to; both carry, for the properties only, the execution they belong to.  *)
(***************************************************************************)
EXTENDS ExecutionResult, FiniteSets

CONSTANTS
    Inputs,          \* the test cases
    Fatal,           \* the test cases that kill the target
    Ports,           \* ephemeral ports
    MaxExecutions,   \* bound of the model: executions started
    MaxRestarts      \* bound of the model: starts of a target that is down

ASSUME UdpAssumption == /\ Fatal \subseteq Inputs
                        /\ MaxExecutions \in Nat /\ MaxRestarts \in Nat

VARIABLES
    pc,         \* where execute_udp_test_case is
    started,    \* history: the inputs executed so far, the current one last
    results,    \* history: the results returned
    port,       \* the port of the bound socket, as an option
    requests,   \* datagrams under way to the target: [execution, port]
    answers,    \* datagrams under way to the engine: [execution, port]
    server,     \* "up" or "down"
    pending,    \* the requests the target has read since it was last started
    bound,      \* history: the port each execution has had, as [execution, port]
    taken,      \* history: the executions whose input a target has read
    kills,      \* history: the executions whose input killed the target
    down_since, \* history: how many executions had been started when it last went down
    restarts

engineVars  == <<pc, started, results, port, bound>>
networkVars == <<requests, answers>>
serverVars  == <<server, pending, taken, kills, down_since, restarts>>
vars == <<engineVars, networkVars, serverVars>>

current == Len(started)

\* No test case: what another sender sends, or the target's answer to the datagram of
\* the connectivity test.
Foreign == 0

Init == /\ pc = "ready" /\ started = << >> /\ results = << >> /\ port = None /\ bound = {}
        /\ requests = {} /\ answers = {}
        /\ server \in {"up", "down"} /\ pending = {} /\ taken = {} /\ kills = {}
        /\ down_since = 0 /\ restarts = 0

-----------------------------------------------------------------------------
(* The engine *)

\* Fault: the socket outlives the execution.
ReturnKeepingSocket(result) ==
    /\ pc' = "ready"
    /\ results' = Append(results, result)
    /\ UNCHANGED <<started, port, bound, networkVars, serverVars>>

\* Every way out of execute_udp_test_case: the socket is dropped.
Return(result) ==
    /\ pc' = "ready"
    /\ results' = Append(results, result)
    /\ port' = None
    /\ UNCHANGED <<started, bound, networkVars, serverVars>>

Begin(i) ==
    /\ pc = "ready" /\ current < MaxExecutions
    /\ pc' = "binding"
    /\ started' = Append(started, i)
    /\ UNCHANGED <<results, port, bound, networkVars, serverVars>>

\* The kernel picks any port that no socket is bound to, one just released among them.
Bind(p) ==
    /\ pc = "binding"
    /\ pc' = "sending" /\ port' = Some(p)
    /\ bound' = bound \cup {[execution |-> current, port |-> p]}
    /\ UNCHANGED <<started, results, networkVars, serverVars>>

BindFails ==
    /\ pc = "binding"
    /\ Return(Failed(SocketError(Other)))

\* Fault: the datagram leaves through another socket than the one listened at.
SendElsewhere ==
    /\ pc = "sending"
    /\ pc' = "receiving"
    /\ \E p \in Ports : requests' = requests \cup {[execution |-> current, port |-> p]}
    /\ UNCHANGED <<started, results, port, bound, answers, serverVars>>

Send ==
    /\ pc = "sending"
    /\ pc' = "receiving"
    /\ requests' = requests \cup {[execution |-> current, port |-> p] : p \in port}
    /\ UNCHANGED <<started, results, port, bound, answers, serverVars>>

\* The datagram never leaves: no permission, no route, larger than a datagram.
SendFails ==
    /\ pc = "sending"
    /\ Return(Failed(Other))

\* The sender's address is ignored (_addr, mod.rs:346); the datagram is represented by
\* the execution it answers, if any.  The network may hold another copy of it.
Receive(a) ==
    /\ pc = "receiving" /\ a \in answers /\ a.port \in port
    /\ pc' = "ready" /\ port' = None
    /\ results' = Append(results, Answered(a.execution))
    /\ answers' \in {answers, answers \ {a}}
    /\ UNCHANGED <<started, bound, requests, serverVars>>

ReceiveFails ==
    /\ pc = "receiving"
    /\ Return(Failed(UdpError(Other)))

\* Fault: an expired wait is a failure.
ReceiveExpiryFails ==
    /\ pc = "receiving"
    /\ Return(Failed(UdpTimeout))

\* Fault: no timeout around the receive.
ReceiveNeverTimesOut == FALSE /\ UNCHANGED vars

\* timeout polls the socket before the clock, but the answer may still be under way.
ReceiveTimesOut ==
    /\ pc = "receiving"
    /\ Return(TimedOut(UdpTimeout))

Engine == \/ \E p \in Ports : Bind(p)
          \/ Send
          \/ \E a \in answers : Receive(a)
          \/ ReceiveTimesOut

EngineFails == BindFails \/ SendFails \/ ReceiveFails

-----------------------------------------------------------------------------
(* The network, the target and other senders *)

\* The target reads a request, of which the network may hold another copy.
TargetTakes(r) ==
    /\ server = "up" /\ r \in requests
    /\ taken' = taken \cup {r.execution}
    /\ pending' = pending \cup {r}
    /\ requests' \in {requests, requests \ {r}}
    /\ UNCHANGED <<engineVars, answers, server, kills, down_since, restarts>>

\* However long after it read the request, and as often as it likes.
TargetAnswers(r) ==
    /\ server = "up" /\ r \in pending
    /\ answers' = answers \cup {r}
    /\ UNCHANGED <<engineVars, requests, serverVars>>

ForeignSends(p) ==
    /\ answers' = answers \cup {[execution |-> Foreign, port |-> p]}
    /\ UNCHANGED <<engineVars, requests, serverVars>>

\* A datagram to a port that is not bound is lost if it arrives now.
Lose == /\ \/ \E r \in requests : requests' = requests \ {r} /\ UNCHANGED answers
           \/ \E a \in answers : answers' = answers \ {a} /\ UNCHANGED requests
        /\ UNCHANGED <<engineVars, serverVars>>

GoesDown ==
    /\ server = "up" /\ server' = "down" /\ pending' = {}
    /\ down_since' = current
    /\ UNCHANGED <<engineVars, networkVars, taken, restarts>>

\* Of a fatal input it has read, however long ago.
TargetDies(r) ==
    /\ r \in pending /\ started[r.execution] \in Fatal
    /\ GoesDown
    /\ kills' = kills \cup {r.execution}

\* No input is to blame.
TargetStops == GoesDown /\ UNCHANGED kills

TargetRestarts ==
    /\ server = "down" /\ restarts < MaxRestarts
    /\ server' = "up" /\ restarts' = restarts + 1
    /\ UNCHANGED <<engineVars, networkVars, pending, taken, kills, down_since>>

Environment == \/ \E r \in requests : TargetTakes(r)
               \/ \E r \in pending : TargetAnswers(r) \/ TargetDies(r)
               \/ \E p \in Ports : ForeignSends(p)
               \/ Lose \/ TargetStops \/ TargetRestarts

Next == (\E i \in Inputs : Begin(i)) \/ Engine \/ EngineFails \/ Environment

Spec == Init /\ [][Next]_vars

\* The runtime polls a task that can go on, and its timers fire; nothing makes
\* the network deliver, the target answer or a call fail.
FairSpec == Spec /\ WF_vars(Engine)

-----------------------------------------------------------------------------
Datagrams(first) == [execution: first..current, port: Ports]
UdpResults == {Answered(n) : n \in 0..current}
              \cup {TimedOut(UdpTimeout), Failed(SocketError(Other)), Failed(Other),
                    Failed(UdpError(Other))}

\* Type invariant: a socket is bound only while an execution uses it.
TypeOK == /\ pc \in {"ready", "binding", "sending", "receiving"}
          /\ started \in Seq(Inputs)
          /\ Len(results) = IF pc = "ready" THEN current ELSE current - 1
          /\ results \in Seq(UdpResults)
          /\ IF pc \in {"sending", "receiving"} THEN \E p \in Ports : port = Some(p)
                                               ELSE port = None
          /\ requests \cup pending \cup bound \subseteq Datagrams(1)
          /\ answers \subseteq Datagrams(Foreign)
          /\ server \in {"up", "down"} /\ restarts \in 0..MaxRestarts
          /\ kills \subseteq taken /\ taken \subseteq 1..current /\ down_since \in 0..current

SamePort(n, m) ==
    \E p \in Ports : {[execution |-> n, port |-> p], [execution |-> m, port |-> p]} \subseteq bound

\* The engine looks neither at the sender of an answer nor at its contents (mod.rs:346).
\* What keeps the answer to another test case, however late, from being credited to this
\* one is that each listens at a port of its own (mod.rs:330): an answer credited to an
\* execution is its own, or comes from elsewhere, or is that of an earlier execution to
\* which the kernel had given the same port.
StrayAnswersSharePort ==
    \A n \in DOMAIN results : \A m \in results[n].response_data : m = Foreign \/ SamePort(n, m)

\* The target never reads an input whose execution failed, not even late, unless it was
\* the receive that failed (mod.rs:355-382): every other input recorded as a crash is
\* one the target has not seen.
FailedInputNotTaken ==
    \A n \in DOMAIN results :
        ~results[n].success /\ results[n] # Failed(UdpError(Other)) => n \notin taken

\* An execution ends, whatever the network and the target do (mod.rs:338-341).
ExecutionEnds == (pc # "ready") ~> (pc = "ready")

-----------------------------------------------------------------------------
\* What README.md:23 promises, "Crash Detection: Automatic vulnerability discovery": once
\* an input has killed the target, an execution that begins and ends while it is down does
\* not succeed.
DeadTargetDetected ==
    server = "down" /\ kills # {} =>
        \A n \in DOMAIN results : n > down_since => ~results[n].success
=============================================================================
