------------------------------ MODULE MCCampaign ------------------------------
(* Small campaigns over UDP with coverage and over TCP without: an ordinary      *)
(* packet, one on which the coverage collector panics, and an empty one on which *)
(* the MQTT mutator may panic.                                                   *)
EXTENDS Campaign

CONSTANTS a, short, empty, DNS, MQTT

MCInputs     == {a, short, empty}
MCHashes     == {"ha", "hs", "he"}
MCHash       == [i \in MCInputs |-> CASE i = a -> "ha" [] i = short -> "hs" [] i = empty -> "he"]
MCSize       == [i \in MCInputs |-> CASE i = a -> 40 [] i = short -> 4 [] i = empty -> 0]
MCProtocols  == {DNS, MQTT}
MCOptions    == {<<DNS, TRUE>>, <<MQTT, FALSE>>}

UdpOutcomes  == {Answered("answer"), TimedOut(UdpTimeout), Failed(SocketError(Other))}
TcpOutcomes  == {Answered("answer"), TimedOut(ReadTimeout), Failed(ConnectionError(Refused))}
MCOutcomes   == [p \in MCProtocols |-> IF p = DNS THEN UdpOutcomes ELSE TcpOutcomes]
MCErrors     == {Some(SocketError(Other)), Some(ConnectionError(Refused))}

OneSeed      == [p \in MCProtocols |-> <<a>>]
EmptyCases   == [p \in MCProtocols |-> IF p = MQTT THEN {empty} ELSE {}]
ShortCases   == {short}
AllFaults    == {"kill", "write"}
NoFaults     == {}
=============================================================================
