---------------------------- MODULE TcpExecution -----------------------------
(***************************************************************************)
(* One test case after another against a TCP target                        *)
(* (execute_tcp_test_case, src/src/fuzzer/mod.rs:263-327): connect under a *)
(* five second timeout, write the whole input without a timeout, read one  *)
(* answer under a two second timeout, drop the connection.                 *)
(*                                                                         *)
(* The target and the two kernels are the environment.  A target that      *)
(* closes or goes down leaves a FIN behind, or a reset if it had unread    *)
(* data.  It may be down from the start, be killed by an input, stop for   *)
(* reasons of its own, and be started again at any time.  Bytes handed to  *)
(* the kernel may be read by the target after the engine has moved on, so  *)
(* a target may die of an earlier input.                                   *)
(***************************************************************************)
EXTENDS ExecutionResult, FiniteSets

CONSTANTS
    Inputs,          \* the test cases
    Size,            \* [Inputs -> Nat], in chunks of a kernel buffer
    Fatal,           \* the test cases that kill the target
    SocketBuffer,    \* chunks the two kernels hold for a target that does not read
    MaxExecutions,   \* bound of the model: executions started
    MaxRestarts      \* bound of the model: starts of a target that is down

ASSUME TcpAssumption == /\ Size \in [Inputs -> Nat] /\ Fatal \subseteq Inputs
                        /\ SocketBuffer \in Nat \ {0}
                        /\ MaxExecutions \in Nat /\ MaxRestarts \in Nat

VARIABLES
    pc,         \* where execute_tcp_test_case is
    started,    \* history: the inputs executed so far, the current one last
    unsent,     \* chunks write_all has still to hand over
    conn,       \* the connection, as the engine's kernel sees it
    buffered,   \* chunks the target has not read
    reply,      \* an answer waits in the engine's kernel
    results,    \* history: the results returned
    server,     \* "up" or "down"
    deadly,     \* the executions whose fatal bytes the target has or may still read
    kills,      \* history: the executions whose input killed the target
    down_since, \* history: how many executions had been started when it last went down
    restarts

engineVars == <<pc, started, unsent, results>>
streamVars == <<conn, buffered, reply>>
serverVars == <<server, deadly, kills, down_since, restarts>>
vars == <<engineVars, streamVars, serverVars>>

current == Len(started)
input   == started[current]

Init == /\ pc = "ready" /\ started = << >> /\ unsent = 0 /\ results = << >>
        /\ conn = "none" /\ buffered = 0 /\ reply = FALSE
        /\ server \in {"up", "down"} /\ deadly = {} /\ kills = {} /\ down_since = 0 /\ restarts = 0

-----------------------------------------------------------------------------
(* The engine *)

\* Fault: the result is recorded twice.
ReturnTwice(result) ==
    /\ pc' = "ready"
    /\ results' = results \o <<result, result>>
    /\ conn' = "none" /\ buffered' = 0 /\ reply' = FALSE /\ unsent' = 0
    /\ deadly' = deadly \cup {n \in {current} : conn = "open" /\ input \in Fatal /\ buffered > 0}
    /\ UNCHANGED <<started, server, kills, down_since, restarts>>

\* Every way out of execute_tcp_test_case: the stream is dropped.  What the
\* kernels have accepted of it the target can still read.
Return(result) ==
    /\ pc' = "ready"
    /\ results' = Append(results, result)
    /\ conn' = "none" /\ buffered' = 0 /\ reply' = FALSE /\ unsent' = 0
    /\ deadly' = deadly \cup {n \in {current} : conn = "open" /\ input \in Fatal /\ buffered > 0}
    /\ UNCHANGED <<started, server, kills, down_since, restarts>>

Begin(i) ==
    /\ pc = "ready" /\ current < MaxExecutions
    /\ pc' = "connecting"
    /\ started' = Append(started, i)
    /\ UNCHANGED <<unsent, results, streamVars, serverVars>>

Connect ==
    /\ pc = "connecting" /\ server = "up"
    /\ pc' = "writing" /\ conn' = "open" /\ unsent' = Size[input]
    /\ UNCHANGED <<started, results, buffered, reply, serverVars>>

\* Whatever the state of the target: refused by it, by its kernel or by a filter,
\* no route, no name, no permission, no free port.
ConnectFails ==
    /\ pc = "connecting"
    /\ \E e \in {Refused, Other} : Return(Failed(ConnectionError(e)))

\* Faults: the five seconds are those of connecting and writing together; or an
\* expired connection is a success, as an expired read is.
ConnectExpiryCoversWrite ==
    /\ pc \in {"connecting", "writing"}
    /\ Return(Failed(ConnectionTimeout))

ConnectExpirySucceeds ==
    /\ pc = "connecting"
    /\ Return(TimedOut(ConnectionTimeout))

\* The five seconds pass, whatever the target does: packets may be lost.
ConnectTimesOut ==
    /\ pc = "connecting"
    /\ Return(Failed(ConnectionTimeout))

\* write_all hands one more chunk to the kernel; a target that has closed answers
\* it with a reset.
WriteChunk ==
    /\ pc = "writing" /\ unsent > 0
    /\ \/ conn = "open" /\ buffered < SocketBuffer /\ buffered' = buffered + 1 /\ UNCHANGED conn
       \/ conn = "fin" /\ conn' = "closed" /\ UNCHANGED buffered
    /\ unsent' = unsent - 1
    /\ UNCHANGED <<pc, started, results, reply, serverVars>>

WriteFails ==
    /\ pc = "writing" /\ unsent > 0 /\ conn \in {"reset", "closed"}
    /\ \E e \in {Reset, Other} : Return(Failed(e))

WriteEnds ==
    /\ pc = "writing" /\ unsent = 0
    /\ pc' = "reading"
    /\ UNCHANGED <<started, unsent, results, streamVars, serverVars>>

ReadAnswer ==
    /\ pc = "reading" /\ reply
    /\ Return(Answered("answer"))

\* read returns 0 bytes: Ok, with an empty buffer
ReadEnd ==
    /\ pc = "reading" /\ ~reply /\ conn \in {"fin", "closed"}
    /\ Return(Answered("empty"))

ReadFails ==
    /\ pc = "reading" /\ ~reply /\ conn \in {"reset", "closed"}
    /\ Return(Failed(Reset))

\* Fault: no timeout around the read.
ReadNeverTimesOut == FALSE /\ UNCHANGED vars

\* timeout polls the read before the clock, so nothing was there to read.
ReadTimesOut ==
    /\ pc = "reading" /\ ~reply /\ conn = "open"
    /\ Return(TimedOut(ReadTimeout))

Engine == \/ Connect \/ ConnectFails \/ ConnectTimesOut
          \/ WriteChunk \/ WriteFails \/ WriteEnds
          \/ ReadAnswer \/ ReadEnd \/ ReadFails \/ ReadTimesOut

-----------------------------------------------------------------------------
(* The target *)

Left == IF conn = "open" THEN IF buffered > 0 THEN "reset" ELSE "fin" ELSE conn

TargetReads ==
    /\ server = "up" /\ conn = "open" /\ buffered > 0
    /\ buffered' = buffered - 1
    /\ deadly' = deadly \cup {n \in {current} : input \in Fatal}
    /\ UNCHANGED <<engineVars, conn, reply, server, kills, down_since, restarts>>

TargetAnswers ==
    /\ server = "up" /\ conn = "open" /\ ~reply
    /\ unsent = 0 /\ buffered = 0
    /\ reply' = TRUE
    /\ UNCHANGED <<engineVars, conn, buffered, serverVars>>

TargetCloses ==
    /\ server = "up" /\ conn = "open"
    /\ conn' = Left
    /\ UNCHANGED <<engineVars, buffered, reply, serverVars>>

GoesDown ==
    /\ server = "up" /\ server' = "down" /\ deadly' = {}
    /\ down_since' = current
    /\ conn' = Left
    /\ UNCHANGED <<engineVars, buffered, reply, restarts>>

TargetDies(e) == e \in deadly /\ GoesDown /\ kills' = kills \cup {e}

\* No input is to blame.
TargetStops == GoesDown /\ UNCHANGED kills

TargetRestarts ==
    /\ server = "down" /\ restarts < MaxRestarts
    /\ server' = "up" /\ restarts' = restarts + 1
    /\ UNCHANGED <<engineVars, streamVars, deadly, kills, down_since>>

Target == \/ TargetReads \/ TargetAnswers \/ TargetCloses \/ TargetStops \/ TargetRestarts
          \/ \E e \in deadly : TargetDies(e)

Next == (\E i \in Inputs : Begin(i)) \/ Engine \/ Target

Spec == Init /\ [][Next]_vars

\* The runtime polls a task that can go on, and its timers fire; nothing makes
\* the target do anything.
FairSpec == Spec /\ WF_vars(Engine)

-----------------------------------------------------------------------------
\* What an execution returns that got no connection.
ConnectErrors == {Failed(ConnectionError(Refused)), Failed(ConnectionError(Other)),
                  Failed(ConnectionTimeout)}

TcpResults == ConnectErrors \cup {Answered("answer"), Answered("empty"), TimedOut(ReadTimeout),
                                  Failed(Reset), Failed(Other)}

\* Type invariant of the executor and its environment.
TypeOK == /\ pc \in {"ready", "connecting", "writing", "reading"}
          /\ started \in Seq(Inputs) /\ results \in Seq(TcpResults)
          /\ Len(results) = IF pc = "ready" THEN current ELSE current - 1
          /\ unsent \in Nat /\ buffered \in 0..SocketBuffer /\ reply \in BOOLEAN
          /\ conn \in {"none", "open", "fin", "reset", "closed"}
          /\ server \in {"up", "down"} /\ restarts \in 0..MaxRestarts
          /\ deadly \subseteq 1..current
          /\ kills \subseteq 1..current /\ down_since \in 0..current

\* The input recorded as a crash for want of a connection (mod.rs:314-325 and :97-104) is
\* not what brought the target down, nor will be: of that execution nothing reached the
\* target, which may be dying of an earlier one just then, be down for another reason,
\* or be up.
ConnectErrorsInnocent ==
    \A n \in DOMAIN results :
        results[n] \in ConnectErrors => n \notin deadly /\ n \notin kills

\* An execution ends, whatever the target does (the timeouts of mod.rs:264-278).
ExecutionEnds == (pc # "ready") ~> (pc = "ready")
=============================================================================
