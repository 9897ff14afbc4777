------------------------------ MODULE MCCoverage ------------------------------
(* A few packets of each protocol, as bytes, and results of every kind the       *)
(* executors return.                                                             *)
EXTENDS Coverage, ExecutionResult

Empty     == << >>
Pingreq   == <<192, 0>>
Connect   == <<16, 13, 0, 4, 77, 81, 84, 84, 4, 2, 0, 60, 0, 1, 97>>
Publish   == <<61, 255, 255, 65, 65, 65, 65, 65, 65, 65, 65, 65>>
Short     == <<16, 13, 0, 4>>         \* a truncated CONNECT, without a repeated pair
Query     == <<0, 7, 1, 0, 0, 1, 0, 0, 0, 0, 0, 0, 1, 97, 0, 0, 1, 0, 1>>
ShortDns  == <<0, 7, 1, 0, 0>>

Timed(result, ms) == result @@ [execution_time_ms |-> ms]

MCExecutions ==
    [MQTT |-> {<<Connect, Timed(Answered(<<32, 2, 0, 0>>), 7)>>,
               <<Empty,   Timed(Answered(<< >>), 40)>>,
               <<Pingreq, Timed(TimedOut(ReadTimeout), 2001)>>,
               <<Publish, Timed(Failed(ConnectionTimeout), 5001)>>,
               <<Publish, Timed(Failed(ConnectionError(Refused)), 1)>>,
               <<Pingreq, Timed(Failed({"invalid"}), 1)>>,
               <<Short,   Timed(Failed(ConnectionError(Refused)), 1)>>},
     DNS  |-> {<<Query,    Timed(Answered(<<0, 7, 129, 128, 0, 1, 0, 1, 0, 0, 0, 0>>), 7)>>,
               <<Query,    Timed(TimedOut(UdpTimeout), 2001)>>,
               <<ShortDns, Timed(Answered(<< >>), 40)>>,
               <<ShortDns, Timed(TimedOut(UdpTimeout), 2001)>>,
               <<Empty,    Timed(Failed(SocketError(Other)), 1)>>}]

\* A hash that takes the empty input, and every first byte, for one and the same edge.
Colliding(type, value) == IF type \in {"empty_input", "first_byte", "response_first_byte"}
                          THEN <<"first_byte", "any">> ELSE <<type, value>>

\* Exact enough for these packets.
Entropy(data) == IF Len(data) < 4 THEN "very_low_entropy" ELSE "medium_entropy"

OneQuestion(data) == IF data = Query THEN <<1, 1>> ELSE << >>
=============================================================================
