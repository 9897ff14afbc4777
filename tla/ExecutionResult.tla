--------------------------- MODULE ExecutionResult ---------------------------
(***************************************************************************)
(* What one execution of a test case returns (src/src/coverage/mod.rs:71)  *)
(* and the values the engine's two executors build it from                 *)
(* (src/src/fuzzer/mod.rs:263-384).  Options are sets of at most one       *)
(* element, messages are sets of phrases: see CrashClassification.  The    *)
(* duration is left out: only the coverage collectors read it.            *)
(***************************************************************************)
EXTENDS CrashClassification

Result(success, response, error) ==
    [success |-> success, response_data |-> response, error_message |-> error]

Answered(response) == Result(TRUE, Some(response), None)
TimedOut(message)  == Result(TRUE, None, Some(message))
Failed(message)    == Result(FALSE, None, Some(message))

ReadTimeout       == {"timeout", "read timeout"}
UdpTimeout        == {"timeout", "udp timeout"}
ConnectionTimeout == {"connection", "connection timeout", "timeout"}

Refused == {"connection", "connection refused"}
Reset   == {"connection", "connection reset"}
Other   == {}     \* EPIPE, EPERM, EMSGSIZE, ...

\* The engine's own prefix comes before the text of the system's error.
ConnectionError(e) == e \cup {"connection"}
SocketError(e)     == e \cup {"socket"}
UdpError(e)        == e \cup {"udp error"}
=============================================================================
