---------------------------- MODULE PacketFuzzing ----------------------------
(***************************************************************************)
(* The life of one test case, the same for every protocol: it is generated *)
(* valid, or generated malformed by one to three patterns applied in turn  *)
(* to a valid packet; in the corpus it is mutated, and what the mutation   *)
(* makes of it, when it is kept, mutated again.  The packet of this module *)
(* is the latest case of such a line of descent.                           *)
(***************************************************************************)
EXTENDS Naturals, Sequences

CONSTANTS
    valid_packets,                   \* what generate_valid_packet may return
    Patterns,                        \* the malformed patterns
    apply_malformed_pattern(_, _),   \* (packet, pattern) -> set of results
    mutate_packet(_),                \* packet -> set of results
    Panic,
    PatternBound,                    \* bound of the model: patterns of a packet, 3 in the code
    MutationBound                    \* bound of the model: patterns and mutations together

VARIABLES
    packet,
    base,         \* history: the valid packet it was made from
    left,         \* patterns generate_malformed_packet has still to apply
    applied,      \* history: the patterns it has applied
    mutations     \* history: how often the case was mutated

vars == <<packet, base, left, applied, mutations>>

Init == /\ packet \in valid_packets /\ base = packet
        /\ left \in 0..PatternBound /\ applied = << >> /\ mutations = 0

\* One turn of the loop of generate_malformed_packet.
ApplyPattern(pattern) ==
    /\ packet # Panic /\ left > 0
    /\ packet' \in apply_malformed_pattern(packet, pattern)
    /\ left' = left - 1
    /\ applied' = Append(applied, pattern)
    /\ UNCHANGED <<base, mutations>>

\* mutate_test_case, of a case of the corpus
MutatePacket ==
    /\ packet # Panic /\ left = 0 /\ mutations + Len(applied) < MutationBound
    /\ packet' \in mutate_packet(packet)
    /\ mutations' = mutations + 1
    /\ UNCHANGED <<base, left, applied>>

Next == (\E pattern \in Patterns : ApplyPattern(pattern)) \/ MutatePacket

Spec == Init /\ [][Next]_vars
=============================================================================
