------------------------------ MODULE DnsFuzzer ------------------------------
(***************************************************************************)
(* The packets of the DNS fuzzer (DNSFuzzer, src/src/protocols/dns.rs):    *)
(* valid queries, which dns_parser::Builder lays out, the patterns that    *)
(* make them malformed, and mutations.                                     *)
(***************************************************************************)
EXTENDS PacketMutations, PacketAnalyzer

CONSTANTS
    Ids,             \* the transaction identifiers drawn
    Names,           \* domain names: sequences of labels, which are sequences of bytes
    QueryTypes,      \* numbers of query types
    PatternBound,    \* bound of the model: patterns of a packet, 3 in the code
    MutationBound    \* bound of the model: patterns and mutations together

ASSUME DnsAssumption ==
    /\ Ids \cup QueryTypes \subseteq Word
    /\ Names \subseteq Seq(Seq(1..255))
    /\ \A name \in Names :
          Len(name) \in 1..5 /\ \A i \in 1..Len(name) : Len(name[i]) \in 1..63
    /\ PatternBound \in 0..3 /\ MutationBound \in Nat

VARIABLES packet, base, left, applied, mutations

-----------------------------------------------------------------------------
(* Valid packets *)

\* A header with one question, the labels of the name and the root, type and class.
build(id, name, type) ==
    be(id) \o <<0, 0>> \o be(1) \o be(0) \o be(0) \o be(0)
        \o FlattenSeq([i \in DOMAIN name |-> <<Len(name[i])>> \o name[i]]) \o <<0>>
        \o be(type) \o be(1)

generate_valid_dns_packet ==
    {build(id, name, type) : id \in Ids, name \in Names, type \in QueryTypes}

-----------------------------------------------------------------------------
(* Malformed patterns *)

MalformedPatterns ==
    {"InvalidHeader", "TruncatedQuery", "OversizedQuery", "InvalidQType", "InvalidQClass",
     "PointerLoop", "OversizedLabels", "InvalidCompression"}

\* vec![b; n]
Repeated(b, n) == [i \in 1..n |-> b]

\* Fault: the search goes to the last byte of the packet.
corrupt_after_name_unbounded(p, end, offset) ==
    LET zeros == {i \in 12..(Len(p) - 1) : p[i + 1] = 0}
    IN  IF zeros = {} THEN {p}
        ELSE {With(With(p, Min(zeros) + offset, b), Min(zeros) + offset + 1, c) :
                 b \in Bytes, c \in Bytes}

\* Two drawn bytes, offset bytes behind the first zero among p[12..end].
corrupt_after_name(p, end, offset) ==
    LET zeros == {i \in 12..(end - 1) : p[i + 1] = 0}
    IN  IF zeros = {} THEN {p}
        ELSE {With(With(p, Min(zeros) + offset, b), Min(zeros) + offset + 1, c) :
                 b \in Bytes, c \in Bytes}

\* A compression pointer at a position of the packet, which the code casts to a byte.
inject_pointer_loop(p) ==
    IF Len(p) <= 12 THEN {p}
    ELSE {LET pos == 12 + (d % (Len(p) - 12))
          IN  IF pos + 1 < Len(p) THEN With(With(p, pos, 192), pos + 1, pos % 256) ELSE p :
             d \in Draws}

\* Fault: the header is not kept.
inject_oversized_labels_headless(p) ==
    IF Len(p) <= 12 THEN {p}
    ELSE {<<Max({b, 64})>> \o Repeated(65, Max({b, 64})) \o <<0>> \o be(1) \o be(1) : b \in Bytes}

inject_oversized_labels(p) ==
    IF Len(p) <= 12 THEN {p}
    ELSE {SubSeq(p, 1, 12) \o <<Max({b, 64})>> \o Repeated(65, Max({b, 64}))
              \o <<0>> \o be(1) \o be(1) : b \in Bytes}

inject_invalid_compression(p) ==
    IF Len(p) <= 14 THEN {p}
    ELSE {LET pos == 12 + (d % (Len(p) - 14))
          IN  IF pos + 1 < Len(p) THEN With(With(p, pos, 192), pos + 1, b) ELSE p :
             d \in Draws, b \in Bytes}

corrupt_flags(p) ==
    IF Len(p) < 12 THEN {p} ELSE {With(With(p, 2, b), 3, c) : b \in Bytes, c \in Bytes}

truncate(p) ==
    IF Len(p) <= 12 THEN {p} ELSE {SubSeq(p, 1, 12 + (d % (Len(p) - 12))) : d \in Draws}

pad(p) == {p \o Repeated(0, (d % 10000) + 1000) : d \in Draws}

dns_apply_pattern(p, pattern) ==
    CASE pattern = "InvalidHeader" -> corrupt_flags(p)
      [] pattern = "TruncatedQuery" -> truncate(p)
      [] pattern = "OversizedQuery" -> pad(p)
      [] pattern = "InvalidQType" ->
            IF Len(p) < 16 THEN {p} ELSE corrupt_after_name(p, Len(p) - 4, 1)
      [] pattern = "InvalidQClass" ->
            IF Len(p) < 18 THEN {p} ELSE corrupt_after_name(p, Len(p) - 6, 3)
      [] pattern = "PointerLoop" -> inject_pointer_loop(p)
      [] pattern = "OversizedLabels" -> inject_oversized_labels(p)
      [] pattern = "InvalidCompression" -> inject_invalid_compression(p)

dns_mutate_packet(p) ==
    common_mutations(p) \cup UNION {dns_apply_pattern(p, pattern) : pattern \in MalformedPatterns}

INSTANCE PacketFuzzing WITH
    valid_packets <- generate_valid_dns_packet, Patterns <- MalformedPatterns,
    apply_malformed_pattern <- dns_apply_pattern, mutate_packet <- dns_mutate_packet

-----------------------------------------------------------------------------
(* Properties *)

\* No pattern and no mutation, of a packet that others have shortened or filled with
\* zeros, looks or writes beyond its end.
IndicesInBounds == packet # Panic

\* A malformed query is still a query of the fuzzer: whatever patterns were applied, it
\* has a header, and all of it but the two bytes of flags, with the transaction
\* identifier and the counts, is that of the valid packet.
HeaderSurvives ==
    mutations = 0 =>
        /\ Len(packet) >= 12
        /\ \A i \in (1..12) \ {3, 4} : packet[i] = base[i]

\* The analyzer sees through the patterns: as long as the flags were left alone, a
\* malformed query, cut or grown as it may be, is still taken for DNS, and one that was
\* filled up last is reported as repetitive (utils/network.rs:169-211 and :290-296).
AnalyzerSeesThrough ==
    mutations = 0 =>
        /\ "InvalidHeader" \notin ToSet(applied) => detect_protocol(packet) = "DNS"
        /\ applied # << >> /\ Last(applied) = "OversizedQuery" => highly_repetitive(packet)

\* The pattern for the class never reaches it in a query whose name is intact: the
\* name ends five bytes before the end, and the search for its end gives up one byte
\* earlier (dns.rs:155), although the comment announces to "Find and corrupt QCLASS
\* field" (dns.rs:153).
ClassNeverHit ==
    [][ mutations = 0
            /\ ToSet(applied') \subseteq {"InvalidHeader", "InvalidQType", "InvalidQClass"}
            /\ applied' = Append(applied, "InvalidQClass") => packet' = packet ]_vars
=============================================================================
