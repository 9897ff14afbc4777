--------------------------- MODULE PacketMutations ---------------------------
(***************************************************************************)
(* The mutations every protocol fuzzer shares (mod common of               *)
(* src/src/protocols/mod.rs).  What a mutation draws from its source of    *)
(* entropy is any member of a small set, so that a mutation is the set of  *)
(* its results.  A packet is a sequence of bytes; an index out of bounds   *)
(* makes it Panic.                                                         *)
(***************************************************************************)
EXTENDS Integers, SequencesExt

CONSTANTS
    Bytes,       \* bound of the model: the bytes drawn
    Draws,       \* bound of the model: the usize values drawn
    Deltas,      \* bound of the model: the i16 values drawn, as u16
    MaxFlips,    \* bound of the model: bits flipped at once, 8 in the code
    Panic        \* the result of a panic, not a packet

Byte == 0..255
Word == 0..65535

ASSUME DrawsAssumption ==
    /\ Bytes \subseteq Byte /\ Draws \subseteq Nat /\ Deltas \subseteq Word
    /\ MaxFlips \in 1..8
    /\ Panic \notin Seq(Byte)

\* packet[i] = b
With(p, i, b) == IF p # Panic /\ i < Len(p) THEN [p EXCEPT ![i + 1] = b] ELSE Panic

be(n) == <<(n \div 256) % 256, n % 256>>

Flipped(b, bit) == IF (b \div 2^bit) % 2 = 1 THEN b - 2^bit ELSE b + 2^bit

\* Fault: the byte behind the last one may be drawn.
bit_flip_mutation_beyond(p) ==
    IF p = << >> THEN {p}
    ELSE {With(p, d % (Len(p) + 1), Flipped(p[(d % (Len(p) + 1)) + 1], bit)) :
             d \in Draws, bit \in 0..7}

\* One bit, in any of some packets.
flip_one(packets) ==
    {With(p, d % Len(p), Flipped(p[(d % Len(p)) + 1], bit)) :
        p \in packets, d \in Draws, bit \in 0..7}

bit_flip_mutation(p) ==
    IF p = << >> THEN {p}
    ELSE LET flips[n \in 0..MaxFlips] == IF n = 0 THEN {p} ELSE flip_one(flips[n - 1])
         IN  UNION {flips[n] : n \in 1..MaxFlips}

byte_insert_mutation(p) ==
    {InsertAt(p, (d % (Len(p) + 1)) + 1, b) : d \in Draws, b \in Bytes}

byte_delete_mutation(p) ==
    IF p = << >> THEN {p} ELSE {RemoveAt(p, (d % Len(p)) + 1) : d \in Draws}

\* Fault: the sum does not wrap at two bytes.
arithmetic_mutation_wide(p) ==
    IF Len(p) < 2 THEN {p}
    ELSE {LET pos == d % (Len(p) - 1)
              sum == p[pos + 1] * 256 + p[pos + 2] + delta
          IN  With(With(p, pos, sum \div 256), pos + 1, sum % 256) : d \in Draws, delta \in Deltas}

arithmetic_mutation(p) ==
    IF Len(p) < 2 THEN {p}
    ELSE {LET pos == d % (Len(p) - 1)
              sum == (p[pos + 1] * 256 + p[pos + 2] + delta) % 65536
          IN  With(With(p, pos, sum \div 256), pos + 1, sum % 256) : d \in Draws, delta \in Deltas}

common_mutations(p) ==
    bit_flip_mutation(p) \cup byte_insert_mutation(p)
        \cup byte_delete_mutation(p) \cup arithmetic_mutation(p)
=============================================================================
