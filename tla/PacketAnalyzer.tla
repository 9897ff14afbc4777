---------------------------- MODULE PacketAnalyzer ----------------------------
(***************************************************************************)
(* What the packet analyzer makes of a packet (PacketAnalyzer,             *)
(* src/src/utils/network.rs:133-359): the protocol it takes it for, and    *)
(* whether it finds its bytes too repetitive.  It reads the packets of the *)
(* fuzzers with code of its own, written apart from theirs.                *)
(***************************************************************************)
EXTENDS Integers, SequencesExt

\* Byte i and the one after it, counted from 0.
be_word(data, i) == data[i + 1] * 256 + data[i + 2]

\* Fault: the counts are read in the other byte order.
looks_like_dns_little_endian(data) ==
    /\ Len(data) >= 12
    /\ (be_word(data, 2) \div 2048) % 16 <= 5 /\ be_word(data, 2) % 16 <= 9
    /\ \A i \in {4, 6, 8, 10} : data[i + 2] * 256 + data[i + 1] <= 100

looks_like_dns(data) ==
    /\ Len(data) >= 12
    /\ (be_word(data, 2) \div 2048) % 16 <= 5      \* the opcode
    /\ be_word(data, 2) % 16 <= 9                  \* the rcode
    /\ \A i \in {4, 6, 8, 10} : be_word(data, i) <= 100

\* Fault: a remaining length of more than one byte is taken for an invalid one.
remaining_length_ends_at_once(data) == Len(data) = 1 \/ data[2] < 128

\* The loop over the remaining length, from its first byte on, with the multiplier
\* that bounds it.
remaining_length_ends(data) ==
    LET from[pos \in 1..5] ==
            /\ pos < Len(data)
            /\ \/ data[pos + 1] < 128
               \/ 128^pos <= 128^3 /\ pos + 1 <= 4 /\ from[pos + 1]
    IN  Len(data) = 1 \/ from[1]

looks_like_mqtt(data) ==
    data # << >> /\ data[1] \div 16 \notin {0, 15} /\ remaining_length_ends(data)

\* "GET ", "POST " and "HTTP/"
HttpStarts == {<<71, 69, 84, 32>>, <<80, 79, 83, 84, 32>>, <<72, 84, 84, 80, 47>>}

\* The first protocol that the packet passes for.
detect_protocol(data) ==
    IF looks_like_dns(data) THEN "DNS"
    ELSE IF Len(data) >= 2 /\ looks_like_mqtt(data) THEN "MQTT"
    ELSE IF \E start \in HttpStarts : IsPrefix(start, data) THEN "HTTP"
    ELSE IF Len(data) >= 6 /\ IsPrefix(<<22, 3>>, data) THEN "TLS"
    ELSE "none"

\* How many bytes stand in runs of two or more.
count_repeated_bytes(data) ==
    Cardinality({k \in DOMAIN data : \E n \in {k - 1, k + 1} \cap DOMAIN data : data[n] = data[k]})

\* The anomaly "High repeated byte count".
highly_repetitive(data) == Len(data) > 100 /\ count_repeated_bytes(data) > Len(data) \div 2
=============================================================================
