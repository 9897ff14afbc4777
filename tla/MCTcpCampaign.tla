---------------------------- MODULE MCTcpCampaign -----------------------------
(* A harmless packet, one that kills the target, and one on which the coverage   *)
(* collector panics; each fits the socket buffers.                               *)
EXTENDS TcpCampaign

CONSTANTS ping, bad, short

MCInputs   == {ping, bad, short}
MCFatal    == {bad}
MCFragile  == {short}
MCHashes   == {"hp", "hb", "hs"}
MCHash     == [i \in MCInputs |-> CASE i = ping -> "hp" [] i = bad -> "hb" [] i = short -> "hs"]
MCBytes    == [i \in MCInputs |-> CASE i = ping -> 40 [] i = bad -> 400 [] i = short -> 4]
Fitting    == [i \in MCInputs |-> IF i = bad THEN 2 ELSE 1]
=============================================================================
