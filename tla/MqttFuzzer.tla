----------------------------- MODULE MqttFuzzer ------------------------------
(***************************************************************************)
(* The packets of the MQTT fuzzer (MQTTFuzzer, src/src/protocols/mqtt.rs): *)
(* valid ones, the patterns that make them malformed, and mutations.       *)
(* Topics, client identifiers and payloads are constants; where the code   *)
(* draws anew for each of several fields, one draw serves them all.        *)
(***************************************************************************)
EXTENDS MqttPacket, PacketMutations, PacketAnalyzer

CONSTANTS
    Topics, ClientIds, Payloads,   \* sequences of bytes, fewer than 10000 in the code
    Words,                         \* the packet identifiers and keep alives drawn
    RandomTopic,                   \* a topic of inject_excessive_subscriptions
    MaxFilters,                    \* bound of the model: filters of a SUBSCRIBE, 10 in the code
    PatternBound,                  \* bound of the model: patterns of a packet, 3 in the code
    MutationBound                  \* bound of the model: patterns and mutations together

ASSUME MqttAssumption ==
    /\ \A s \in Topics \cup ClientIds \cup Payloads \cup {RandomTopic} :
          s \in Seq(Byte) /\ Len(s) \in Word
    /\ Words \subseteq Word /\ MaxFilters \in 1..10
    /\ PatternBound \in 0..3 /\ MutationBound \in Nat

VARIABLES packet, base, left, applied, mutations

-----------------------------------------------------------------------------
(* Valid packets *)

\* Fault: the groups of seven bits are not chained.
encode_remaining_length_unchained(n) ==
    LET count == Min({k \in 1..4 : n < 128^k})
    IN  [i \in 1..count |-> (n \div 128^(i - 1)) % 128]

encode_remaining_length(n) ==
    LET count == Min({k \in 1..4 : n < 128^k})
    IN  [i \in 1..count |-> ((n \div 128^(i - 1)) % 128) + (IF i < count THEN 128 ELSE 0)]

MQTT == <<77, 81, 84, 84>>

connect(id, keep_alive, connect_flags) ==
    <<16>> \o encode_remaining_length(12 + Len(id)) \o be(4) \o MQTT \o <<4, connect_flags>>
        \o be(keep_alive) \o be(Len(id)) \o id

generate_connect_packet ==
    {connect(id, keep_alive, connect_flags) :
        id \in ClientIds, keep_alive \in Words, connect_flags \in {0, 2}}

publish(topic, packet_id, payload, publish_flags) ==
    <<48 + publish_flags>>
        \o encode_remaining_length(2 + Len(topic) + Len(payload) + Len(packet_id))
        \o be(Len(topic)) \o topic \o packet_id \o payload

generate_publish_packet ==
    {publish(topic, IF qos = 0 THEN << >> ELSE be(id), payload, 8 * dup + 2 * qos + retain) :
        topic \in Topics, payload \in Payloads, id \in Words,
        qos \in 0..2, dup \in {0, 1}, retain \in {0, 1}}

subscription(topic, qos) == be(Len(topic)) \o topic \o <<qos>>

subscribe(filters, id) ==
    <<130>> \o encode_remaining_length(2 + Len(filters)) \o be(id) \o filters

generate_subscribe_packet ==
    {subscribe(FlattenSeq([i \in DOMAIN topics |-> subscription(topics[i], qos)]), id) :
        topics \in UNION {[1..n -> Topics] : n \in 1..MaxFilters}, qos \in 0..2, id \in Words}

generate_valid_packet ==
    generate_connect_packet \cup generate_publish_packet \cup generate_subscribe_packet
        \cup {<<192, 0>>}

-----------------------------------------------------------------------------
(* Malformed patterns *)

\* ProtocolViolation is one pattern in the code, and draws one of the last four.
MalformedPatterns ==
    {"InvalidFixedHeader", "OversizedRemainingLength", "InvalidPacketType", "TruncatedPayload",
     "OversizedPayload", "InvalidQoS", "MalformedUtf8", "InvalidTopicFilter",
     "ExcessiveSubscriptions",
     "InvalidProtocolName", "DuplicateConnect", "ReservedFlags", "StringLengths"}

\* The bitwise or of two bytes, from the lowest bit on.
Or(a, b) ==
    LET low[k \in 0..8] ==
            IF k = 0 THEN 0
            ELSE LET bit == 2^(k - 1)
                 IN  low[k - 1] + (IF 1 \in {(a \div bit) % 2, (b \div bit) % 2} THEN bit ELSE 0)
    IN  low[8]

inject_invalid_utf8(p) ==
    IF Len(p) <= 10 THEN {p}
    ELSE {LET pos == 10 + (d % (Len(p) - 10))
          IN  IF pos + 1 < Len(p) THEN With(With(p, pos, 255), pos + 1, 254)
              ELSE With(p, pos, 255) : d \in Draws}

\* The topics found by a reader that expects the first filter at start, each as its
\* offset and its length.
TopicsFrom(p, start) ==
    LET from[pos \in Nat] ==
            IF pos + 2 >= Len(p) THEN {}
            ELSE LET length == p[pos + 1] * 256 + p[pos + 2]
                 IN  IF pos + 2 + length >= Len(p) THEN {}
                     ELSE {<<pos + 2, length>>} \cup from[pos + 3 + length]
    IN  from[start]

inject_invalid_topic_filter(p) ==
    IF Len(p) <= 4 \/ packet_type(p) # 8 THEN {p}
    ELSE {LET nulls == {t[1] + (d % Max({t[2], 1})) : t \in TopicsFrom(p, 4)}
          IN  [i \in DOMAIN p |-> IF i - 1 \in nulls THEN 0 ELSE p[i]] : d \in Draws}

\* The same filter, so many times.
subscriptions(count, qos) == FlattenSeq([i \in 1..count |-> subscription(RandomTopic, qos)])

inject_excessive_subscriptions(p) ==
    {p \o subscriptions((d % 1000) + 100, qos) : d \in Draws, qos \in 0..2}

\* Fault: the name is looked for where it is.
inject_protocol_name_found(p) ==
    IF Len(p) > 10 /\ p[1] = 16 /\ SubSeq(p, 5, 6) = SubSeq(MQTT, 1, 2)
    THEN {With(With(p, 4, 88), 5, 88)} ELSE {p}

\* packet[9] and packet[10], as the code has it
inject_protocol_name(p) ==
    IF Len(p) > 10 /\ p[1] = 16 /\ SubSeq(p, 10, 11) = SubSeq(MQTT, 1, 2)
    THEN {With(With(p, 9, 88), 10, 88)} ELSE {p}

inject_string_lengths(p) ==
    IF Len(p) <= 4 THEN {p}
    ELSE {[i \in DOMAIN p |-> IF i - 1 \in 2..(Len(p) - 3) /\ (i - 1) % 7 = 0 THEN b ELSE p[i]] :
             b \in Bytes}

\* Fault: the length is only set to the largest that one byte can hold.
oversized_remaining_length_single(p) == IF Len(p) > 1 THEN With(p, 1, 127) ELSE p

oversized_remaining_length(p) ==
    IF Len(p) > 1
    THEN With(SubSeq(p, 1, 2) \o <<255, 255, 255, 127>> \o SubSeq(p, 3, Len(p)), 1, 255) ELSE p

\* Fault: packets of any length are halved.
truncated_payload_unguarded(p) == SubSeq(p, 1, Len(p) \div 2)

truncated_payload(p) == IF Len(p) > 5 THEN SubSeq(p, 1, Len(p) \div 2) ELSE p

invalid_packet_type(p) == IF p = << >> THEN p ELSE With(p, 0, 240 + flags(p))

PayloadLimit == 100000

oversized_payload(p) == {p \o [i \in 1..(d % PayloadLimit) |-> 65] : d \in Draws}

\* Every pattern leaves the empty packet alone, except ExcessiveSubscriptions, which
\* looks at its first byte.
mqtt_apply_pattern(p, pattern) ==
    CASE pattern = "InvalidFixedHeader" -> IF p = << >> THEN {p} ELSE {With(p, 0, b) : b \in Bytes}
      [] pattern = "OversizedRemainingLength" -> {oversized_remaining_length(p)}
      [] pattern = "InvalidPacketType" -> {invalid_packet_type(p)}
      [] pattern = "TruncatedPayload" -> {truncated_payload(p)}
      [] pattern = "OversizedPayload" -> oversized_payload(p)
      [] pattern = "InvalidQoS" ->
            IF p # << >> /\ packet_type(p) = 3
            THEN {With(p, 0, p[1] - 2 * ((p[1] \div 2) % 4) + 6)} ELSE {p}
      [] pattern = "MalformedUtf8" -> inject_invalid_utf8(p)
      [] pattern = "InvalidTopicFilter" -> inject_invalid_topic_filter(p)
      [] pattern = "ExcessiveSubscriptions" ->
            IF p = << >> THEN {Panic}
            ELSE IF packet_type(p) = 8 THEN inject_excessive_subscriptions(p) ELSE {p}
      [] pattern = "InvalidProtocolName" -> inject_protocol_name(p)
      [] pattern = "DuplicateConnect" -> {p}
      [] pattern = "ReservedFlags" ->
            IF p = << >> THEN {p} ELSE {With(p, 0, Or(p[1], b % 16)) : b \in Bytes}
      [] pattern = "StringLengths" -> inject_string_lengths(p)

mqtt_mutate_packet(p) ==
    common_mutations(p) \cup UNION {mqtt_apply_pattern(p, pattern) : pattern \in MalformedPatterns}

INSTANCE PacketFuzzing WITH
    valid_packets <- generate_valid_packet, Patterns <- MalformedPatterns,
    apply_malformed_pattern <- mqtt_apply_pattern, mutate_packet <- mqtt_mutate_packet

-----------------------------------------------------------------------------
(* Properties *)

\* A case is a sequence of bytes, or the mutation that made it panicked.
TypeOK == /\ packet = Panic \/ (\A i \in 1..Len(packet) : packet[i] \in 0..255)
          /\ left \in 0..PatternBound /\ applied \in Seq(MalformedPatterns)
          /\ mutations \in 0..MutationBound

\* What the generator builds the validator accepts: the type, the encoding of the
\* remaining length and the lengths of the fields it was computed from agree, for
\* every kind of packet, also where the remaining length takes two bytes.
GeneratedValid == applied = << >> /\ mutations = 0 => validate_packet(packet)

\* Once OversizedRemainingLength was applied, no pattern applied after it, a truncation
\* or an overwrite of any byte, makes the packet acceptable again by chance.
OversizedStaysInvalid ==
    mutations = 0 /\ "OversizedRemainingLength" \in ToSet(applied) => ~validate_packet(packet)

\* Generation never panics, whatever patterns it combines, and a panic of the mutator
\* takes three mutations of the same line of descent at least: patterns never empty a
\* packet, and two deletions empty the shortest.
PanicTakesThreeMutations == packet = Panic => mutations >= 3

\* Two readers of the remaining length, written apart (mqtt.rs:488-536 and
\* utils/network.rs:213-254), agree where it counts: whatever was done to a packet, the
\* analyzer does not turn away as foreign what the validator accepts; at most it takes
\* it for DNS, which it tries first.
ValidLooksMqtt ==
    packet # Panic /\ validate_packet(packet) =>
        looks_like_mqtt(packet) /\ detect_protocol(packet) \in {"MQTT", "DNS"}

\* No generated packet is ever changed by the pattern for the protocol name, whatever
\* other patterns came before that leave its first eleven bytes alone: it looks for the
\* name five bytes behind the place where generate_connect_packet put it, although the
\* comment (mqtt.rs:403) announces a "CONNECT with invalid protocol name".
HeadKeeping == {"InvalidProtocolName", "DuplicateConnect", "OversizedPayload", "TruncatedPayload",
                "InvalidQoS", "ExcessiveSubscriptions", "InvalidPacketType"}
ProtocolNameNeverHit ==
    [][ mutations = 0 /\ ToSet(applied') \subseteq HeadKeeping
            /\ applied' = Append(applied, "InvalidProtocolName") => packet' = packet ]_vars
=============================================================================
