--------------------------- MODULE FeatureCoverage ----------------------------
(***************************************************************************)
(* The feature collector (src/src/coverage/feature_coverage.rs): one       *)
(* extractor for every protocol, one for DNS or for MQTT, and the features *)
(* of the protocol's own fuzzer.  A feature string is a tuple of its parts.*)
(***************************************************************************)
EXTENDS EdgeCoverage

CONSTANT
    parse_questions(_)     \* external, dns_parser: type and class of each question of a
                           \* packet of at least twelve bytes, << >> if it does not parse

Mqtt == INSTANCE MqttPacket

\* Bytes k and k + 1 of a packet, counted from 0.
u16(data, k) == data[k + 1] * 256 + data[k + 2]

Bit(n, k) == (n \div 2^k) % 2 = 1

categorize_count(n) ==
    IF n = 0 THEN "zero"
    ELSE Category(n, <<1, 5, 20, 100>>, <<"one", "few", "some", "many", "too_many">>)

\* Defined unless has_repeated_bytes panics.
generic_input_features(data) ==
    IF data = << >> THEN << <<"empty_input">> >>
    ELSE << <<"input_size", categorize_size(Len(data))>>, <<"first_byte", data[1]>> >>
         \o (IF Len(data) >= 2 THEN << <<"first_two_bytes", u16(data, 0)>> >> ELSE << >>)
         \o When(0 \in ToSet(data), <<"contains_null_bytes">>)
         \o << <<IF IsAscii(data) THEN "ascii_content" ELSE "binary_content">> >>
         \o When(has_repeated_bytes(data) = "yes", <<"has_repeated_patterns">>)

response_features(data) ==
    << <<"response_size", categorize_size(Len(data))>> >>
    \o (IF data # << >> THEN << <<"response_first_byte", data[1]>> >> ELSE << >>)

generic_execution_features(result) ==
    << <<IF result.success THEN "execution_success" ELSE "execution_failure">>,
       <<"timing", categorize_timing(result.execution_time_ms)>> >>
    \o (IF result.response_data = None THEN << <<"no_response">> >>
        ELSE response_features(TheResponse(result)))
    \o When(result.error_message # None, <<"error", categorize_error(result.error_message)>>)

dns_input_features(data) ==
    IF Len(data) < 12 THEN << <<"dns_too_short">> >>
    ELSE LET word == u16(data, 2)
         IN  << <<IF Bit(word, 15) THEN "dns_response" ELSE "dns_query">>,
                <<"dns_opcode", (word \div 2048) % 16>> >>
             \o When(Bit(word, 10), <<"dns_authoritative">>)
             \o When(Bit(word, 9), <<"dns_truncated">>)
             \o When(Bit(word, 8), <<"dns_recursion_desired">>)
             \o When(Bit(word, 7), <<"dns_recursion_available">>)
             \o << <<"dns_rcode", word % 16>>,
                   <<"dns_questions", categorize_count(u16(data, 4))>>,
                   <<"dns_answers", categorize_count(u16(data, 6))>> >>

dns_response_features(data) ==
    IF Len(data) < 12 THEN << >>
    ELSE << <<"dns_response_rcode", u16(data, 2) % 16>>,
            <<IF Bit(u16(data, 2), 15) THEN "valid_dns_response" ELSE "invalid_dns_response">> >>

mqtt_publish_features(word) ==
    << <<"mqtt_qos", (word \div 2) % 4>> >>
    \o When(Bit(word, 0), <<"mqtt_retain">>) \o When(Bit(word, 3), <<"mqtt_dup">>)

mqtt_input_features(data) ==
    IF data = << >> THEN << <<"mqtt_empty">> >>
    ELSE << <<"mqtt_packet_type", Mqtt!packet_type(data)>>, <<"mqtt_flags", Mqtt!flags(data)>> >>
         \o (IF Mqtt!packet_type(data) # 3 THEN << >> ELSE mqtt_publish_features(Mqtt!flags(data)))
         \o (IF Len(data) > 1
             THEN << <<"mqtt_remaining_length_bytes", Mqtt!LengthBytes(data)>> >> ELSE << >>)

mqtt_response_name(type) ==
    CASE type = 2 -> "mqtt_connack_received" [] type = 4 -> "mqtt_puback_received"
      [] type = 9 -> "mqtt_suback_received" [] type = 13 -> "mqtt_pingresp_received"
      [] OTHER -> "mqtt_unknown_response"

mqtt_response_features(data) ==
    IF data = << >> THEN << >>
    ELSE << <<"mqtt_response_type", Mqtt!packet_type(data)>>,
            <<mqtt_response_name(Mqtt!packet_type(data))>> >>

dns_extract_features(data) ==
    IF Len(data) < 12 THEN <<0>>
    ELSE [k \in 1..4 |-> u16(data, 2 * (k - 1))] \o <<Len(data)>>
         \o parse_questions(data)

protocol_features(protocol, data) ==
    LET numbers == IF protocol = "DNS" THEN dns_extract_features(data)
                   ELSE Mqtt!extract_features(data)
    IN  [k \in DOMAIN numbers |-> <<"protocol_feature", k - 1, numbers[k]>>]

extract_all_features(protocol, data, result) ==
    LET input(d)    == IF protocol = "DNS" THEN dns_input_features(d)
                       ELSE mqtt_input_features(d)
        response(d) == IF protocol = "DNS" THEN dns_response_features(d)
                       ELSE mqtt_response_features(d)
    IN  generic_input_features(data) \o generic_execution_features(result)
        \o input(data)
        \o (IF result.response_data = None THEN << >> ELSE response(TheResponse(result)))
        \o protocol_features(protocol, data)

-----------------------------------------------------------------------------
NewFeatureCollector ==
    [feature_map |-> EmptyBag, total_executions |-> 0,
     new_features_found |-> FALSE, last_feature_count |-> 0]

feature_record(c, features) ==
    [feature_map        |-> c.feature_map (+) ToBag(features),
     total_executions   |-> c.total_executions + 1,
     new_features_found |-> c.new_features_found \/ ~(ToSet(features) \subseteq DOMAIN c.feature_map),
     last_feature_count |-> c.last_feature_count]

\* Extraction panicked: the execution is counted, its features are not.
feature_record_panicking(c) == [c EXCEPT !.total_executions = @ + 1]
=============================================================================
