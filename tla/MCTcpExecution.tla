---------------------------- MODULE MCTcpExecution ----------------------------
(* An innocent packet and one that kills the target; the latter either just    *)
(* fits the socket buffers or does not.                                        *)
EXTENDS TcpExecution

CONSTANTS ping, bad

MCInputs  == {ping, bad}
MCFatal   == {bad}
Fitting   == [i \in MCInputs |-> IF i = bad THEN 2 ELSE 1]
Oversized == [i \in MCInputs |-> IF i = bad THEN 3 ELSE 1]
=============================================================================
