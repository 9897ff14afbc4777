---------------------------- MODULE MCUdpExecution ----------------------------
(* An innocent packet and one that kills the target; two executions may have   *)
(* ports of their own, or the same.                                            *)
EXTENDS UdpExecution

CONSTANTS query, bad, p1, p2

MCInputs == {query, bad}
MCFatal  == {bad}
MCPorts  == {p1, p2}
=============================================================================
