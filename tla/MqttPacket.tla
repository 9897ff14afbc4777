------------------------------ MODULE MqttPacket ------------------------------
(***************************************************************************)
(* What the MQTT fuzzer reads in a packet (src/src/protocols/mqtt.rs): its *)
(* type and flags, the remaining length in groups of seven bits behind the *)
(* first byte, and the features handed to the coverage collector.          *)
(***************************************************************************)
EXTENDS SequencesExt

packet_type(p) == p[1] \div 16
flags(p) == p[1] % 16

Continues(byte) == byte >= 128

\* The value of the first n bytes of the remaining length.
LengthValue(p, n) ==
    LET value[k \in 0..n] ==
            IF k = 0 THEN 0 ELSE value[k - 1] + (p[k + 1] % 128) * 128^(k - 1)
    IN  value[n]

\* How many bytes a reader takes for the remaining length: up to the first one that
\* does not continue, to the fourth, or to the end of the packet.
LengthBytes(p) ==
    Min({n \in 1..4 : n < Len(p) /\ (~Continues(p[n + 1]) \/ n = 4 \/ n + 1 = Len(p))})

\* The tests on the count of bytes (mqtt.rs:523 and :528) allow four.
validate_packet(p) ==
    /\ Len(p) >= 2
    /\ packet_type(p) \notin {0, 15}
    /\ LET n == LengthBytes(p)
       IN  ~Continues(p[n + 1]) /\ n + 1 + LengthValue(p, n) = Len(p)

\* The features as a sequence of numbers; the eleventh and twelfth byte of a
\* CONNECT are taken for the length of the protocol name.
extract_features(p) ==
    IF p = << >> THEN <<0>>
    ELSE <<packet_type(p), flags(p), Len(p)>>
         \o (IF Len(p) > 1 THEN <<LengthValue(p, LengthBytes(p))>> ELSE << >>)
         \o CASE packet_type(p) = 1 /\ Len(p) >= 12 -> <<p[11] * 256 + p[12]>>
              [] packet_type(p) = 3 -> <<(flags(p) \div 2) % 4, flags(p) % 2, flags(p) \div 8>>
              [] OTHER -> << >>
=============================================================================
