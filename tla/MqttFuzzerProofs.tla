--------------------------- MODULE MqttFuzzerProofs ---------------------------
(***************************************************************************)
(* Theorems about the packets of the MQTT fuzzer, for any topics,          *)
(* identifiers, payloads, numbers of filters and draws.                    *)
(*                                                                         *)
(* The remaining length of a packet takes one to four bytes. The first     *)
(* part spells out what a reader makes of them, a later one what           *)
(* encode_remaining_length writes. The invariant (PacketInv) says of a     *)
(* generated packet that the validator accepts it, if no pattern was       *)
(* applied; that the head of a CONNECT is where the pattern for its name   *)
(* does not look; and that once its remaining length was overwritten, what *)
(* the remaining patterns need to make it valid again is not there         *)
(* (Settled). A packet loses one byte per mutation at most, so that an     *)
(* index can be beyond it at the third.                                    *)
(***************************************************************************)
EXTENDS MqttFuzzer, PacketProofs

\* Where a reader of the remaining length stops: at byte n of it.
StopsAt(p, n) == n < Len(p) /\ (~(p[n + 1] >= 128) \/ n = 4 \/ n + 1 = Len(p))

Digit(p, k) == p[k + 1] % 128

\* The second to the fifth byte, those of the remaining length: as they were, or all 255.
SameStart(p, q) == \A i \in 2..5 : i <= Len(p) /\ i <= Len(q) => q[i] = p[i]
Lead(p) == \A i \in 2..5 : i <= Len(p) => p[i] = 255

\* What most patterns do, and those that make a packet longer.
Overwrites(p, q) == q \in Packet /\ Len(q) = Len(p) /\ SameStart(p, q)
Lengthens(p, q) == /\ q \in Packet /\ Len(q) >= Len(p)
                   /\ \A i \in 1..Len(p) : q[i] = p[i]

\* No CONNECT has the M of MQTT where the pattern for the name looks for it.
NoName(p) == Len(p) >= 10 /\ p[1] = 16 => p[10] # 77

\* What matters of a valid packet: that it is one, that a SUBSCRIBE is not too short, and
\* where its name is not.
GoodStart(p) == /\ p \in Packet /\ Len(p) >= 2 /\ validate_packet(p)
                /\ p[1] \div 16 = 8 => Len(p) >= 7
                /\ NoName(p)

\* The patterns that leave the length of a packet as it is.
Overwriting == MalformedPatterns \ {"OversizedRemainingLength", "TruncatedPayload",
                                    "OversizedPayload", "ExcessiveSubscriptions"}

\* The c bytes e encode n.
IsEncoding(e, n, c) ==
    /\ e \in Packet /\ Len(e) = c
    /\ \A i \in 1..c : e[i] \in 0..255 /\ (e[i] >= 128 <=> i < c)
    /\ c = 1 => e[1] = n
    /\ c = 2 => e[1] % 128 = n % 128 /\ e[2] = n \div 128
    /\ c = 3 => /\ e[1] % 128 = n % 128 /\ e[2] % 128 = (n \div 128) % 128
                /\ e[3] = n \div 16384

\* Packet p begins with byte b and the c bytes of the remaining length e, and has k more.
Opened(p, b, e, c, k) ==
    p \in Packet /\ Len(p) = 1 + c + k /\ p[1] = b /\ \A i \in 1..c : p[i + 1] = e[i]

\* Packet p, made by k patterns of which OversizedRemainingLength was one, is invalid,
\* and so is what the other patterns make of it.  It takes less and less for that: a
\* SUBSCRIBE of less than five bytes could be made longer and valid, as far as this goes.
Settled(p, k) ==
    /\ k = 1 => Lead(p) /\ Len(p) >= 6 /\ (p[1] \div 16 = 8 => Len(p) >= 11)
    /\ k = 2 => Lead(p) /\ Len(p) >= 3 /\ (p[1] \div 16 = 8 => Len(p) >= 5)
    /\ k = 3 => ~validate_packet(p)

-----------------------------------------------------------------------------
(* The remaining length, read *)

\* The multipliers of the digits.
LEMMA Powers == 128^0 = 1 /\ 128^1 = 128 /\ 128^2 = 16384 /\ 128^3 = 2097152
  BY SMT

\* The bytes that a reader takes for the remaining length.
LEMMA LengthBytesIs ==
    ASSUME NEW p \in Packet, Len(p) >= 2
    PROVE  /\ LengthBytes(p) \in 1..4 /\ LengthBytes(p) < Len(p)
           /\ StopsAt(p, LengthBytes(p))
           /\ \A m \in 1..4 : m < LengthBytes(p) => ~StopsAt(p, m)
<1> DEFINE S == {n \in 1..4 : n < Len(p) /\ (~Continues(p[n + 1]) \/ n = 4 \/ n + 1 = Len(p))}
<1>0. Len(p) \in Nat
  BY DEF Packet
<1>1. S \in SUBSET Nat
  OBVIOUS
<1>2. S = {n \in 1..4 : StopsAt(p, n)}
  BY DEF StopsAt, Continues
<1>3. S # {}
  <2>1. CASE Len(p) >= 5
    <3>1. StopsAt(p, 4)
      BY <1>0, <2>1 DEF StopsAt
    <3> QED BY <1>2, <3>1
  <2>2. CASE Len(p) < 5
    <3>1. PICK n \in 1..4 : n + 1 = Len(p)
      <4>1. PICK L \in Nat : L = Len(p)
        BY <1>0
      <4>2. L >= 2 /\ L < 5
        BY <2>2, <4>1
      <4>3. L - 1 \in 1..4 /\ (L - 1) + 1 = L
        BY <4>2
      <4> QED BY <4>1, <4>3
    <3>2. StopsAt(p, n)
      BY <3>1 DEF StopsAt
    <3> QED BY <1>2, <3>2
  <2> QED BY <1>0, <2>1, <2>2
<1>4. LengthBytes(p) = Min(S)
  BY DEF LengthBytes
<1> HIDE DEF S
<1>5. LengthBytes(p) \in S /\ \A m \in S : LengthBytes(p) <= m
  BY <1>1, <1>3, <1>4, MinOf
<1>6. \A m \in 1..4 : m < LengthBytes(p) => m \notin S
  <2>1. LengthBytes(p) \in Nat
    BY <1>1, <1>5
  <2> QED BY <1>5, <2>1
<1> QED BY <1>2, <1>5, <1>6 DEF StopsAt

\* There is only one place to stop first.
LEMMA LengthBytesAre ==
    ASSUME NEW p \in Packet, NEW n \in 1..4, StopsAt(p, n),
           \A m \in 1..4 : m < n => ~StopsAt(p, m)
    PROVE  LengthBytes(p) = n
<1>1. n < Len(p) /\ Len(p) \in Nat
  BY DEF StopsAt, Packet
<1>2. Len(p) >= 2
  BY <1>1
<1>3. /\ LengthBytes(p) \in 1..4 /\ StopsAt(p, LengthBytes(p))
      /\ \A m \in 1..4 : m < LengthBytes(p) => ~StopsAt(p, m)
  BY <1>2, LengthBytesIs
<1> QED BY <1>3

\* The value of up to four bytes, spelt out.
LEMMA LengthValueIs ==
    ASSUME NEW p \in Packet, NEW n \in 1..4, n < Len(p)
    PROVE  /\ n = 1 => LengthValue(p, n) = Digit(p, 1)
           /\ n = 2 => LengthValue(p, n) = Digit(p, 1) + Digit(p, 2) * 128
           /\ n = 3 => LengthValue(p, n) = Digit(p, 1) + Digit(p, 2) * 128 + Digit(p, 3) * 16384
           /\ n = 4 => LengthValue(p, n) = Digit(p, 1) + Digit(p, 2) * 128 + Digit(p, 3) * 16384
                                              + Digit(p, 4) * 2097152
<1> DEFINE W(k) == Digit(p, k) * 128^(k - 1)
           value == CHOOSE f : f = [k \in 0..n |-> IF k = 0 THEN 0 ELSE f[k - 1] + W(k)]
           g == [k \in 0..n |-> IF k = 0 THEN 0
                                ELSE IF k = 1 THEN 0 + W(1)
                                ELSE IF k = 2 THEN 0 + W(1) + W(2)
                                ELSE IF k = 3 THEN 0 + W(1) + W(2) + W(3)
                                ELSE 0 + W(1) + W(2) + W(3) + W(4)]
<1>1. LengthValue(p, n) = value[n]
  BY DEF LengthValue, Digit
<1>0. \A k \in 1..n : Digit(p, k) \in Nat
  <2> SUFFICES ASSUME NEW k \in 1..n PROVE p[k + 1] % 128 \in Nat
    BY DEF Digit
  <2>1. Len(p) \in Nat
    BY DEF Packet
  <2>2. p[k + 1] \in Byte
    BY <2>1 DEF Packet
  <2>3. \A x \in Byte : x % 128 \in Nat
    BY DEF Byte
  <2> QED BY <2>2, <2>3, Zenon
<1> HIDE DEF W
<1>2. g = [k \in 0..n |-> IF k = 0 THEN 0 ELSE g[k - 1] + W(k)]
  <2>1. \A k \in 0..n : g[k] = IF k = 0 THEN 0 ELSE g[k - 1] + W(k)
    <3> TAKE k \in 0..n
    <3>1. k = 0 \/ k = 1 \/ k = 2 \/ k = 3 \/ k = 4
      OBVIOUS
    <3>2. k # 0 => k - 1 \in 0..n
      OBVIOUS
    <3> QED BY <3>1, <3>2
  <2> QED BY <2>1
<1>3. value = [k \in 0..n |-> IF k = 0 THEN 0 ELSE value[k - 1] + W(k)]
  BY <1>2
<1> HIDE DEF value, g
<1>4. /\ 1 \in 1..n => value[1] = W(1)
      /\ 2 \in 1..n => value[2] = value[1] + W(2)
      /\ 3 \in 1..n => value[3] = value[2] + W(3)
      /\ 4 \in 1..n => value[4] = value[3] + W(4)
  <2>1. value[0] = 0 /\ \A k \in 1..n : value[k] = value[k - 1] + W(k)
    BY <1>3
  <2>2. 0 + W(1) = W(1)
    BY <1>0, Powers, SMT DEF W
  <2> QED BY <2>1, <2>2, SMT
<1>6. /\ 1 \in 1..n => W(1) = Digit(p, 1)
      /\ 2 \in 1..n => W(2) = Digit(p, 2) * 128
      /\ 3 \in 1..n => W(3) = Digit(p, 3) * 16384
      /\ 4 \in 1..n => W(4) = Digit(p, 4) * 2097152
  BY <1>0, Powers, SMT DEF W
<1>7. n = 1 => value[n] = Digit(p, 1)
  BY <1>0, <1>4, <1>6, SMT
<1>8. n = 2 => value[n] = Digit(p, 1) + Digit(p, 2) * 128
  BY <1>0, <1>4, <1>6, SMT
<1>9. n = 3 => value[n] = Digit(p, 1) + Digit(p, 2) * 128 + Digit(p, 3) * 16384
  BY <1>0, <1>4, <1>6, SMT
<1>10. n = 4 => value[n] = Digit(p, 1) + Digit(p, 2) * 128 + Digit(p, 3) * 16384
                              + Digit(p, 4) * 2097152
  BY <1>0, <1>4, <1>6, SMT
<1> QED BY <1>1, <1>7, <1>8, <1>9, <1>10, SMT

\* A reader that goes on while the bytes continue comes to the end of the remaining
\* length, if it ends within four bytes.
LEMMA RemainingLengthEnds ==
    ASSUME NEW p \in Packet, NEW n \in 1..4, n < Len(p), p[n + 1] < 128
    PROVE  remaining_length_ends(p)
<1> DEFINE Ends(pos, rest) == /\ pos < Len(p)
                              /\ \/ p[pos + 1] < 128
                                 \/ 128^pos <= 128^3 /\ pos + 1 <= 4 /\ rest
           from == CHOOSE f : f = [pos \in 1..5 |-> Ends(pos, f[pos + 1])]
           G(pos) == CASE pos = 1 -> Ends(1, Ends(2, Ends(3, Ends(4, FALSE))))
                       [] pos = 2 -> Ends(2, Ends(3, Ends(4, FALSE)))
                       [] pos = 3 -> Ends(3, Ends(4, FALSE))
                       [] pos = 4 -> Ends(4, FALSE)
                       [] pos = 5 -> Ends(5, FALSE)
           g == [pos \in 1..5 |-> G(pos)]
<1>1. Len(p) \in Nat
  BY DEF Packet
<1>2. from[1] => remaining_length_ends(p)
  BY DEF remaining_length_ends
<1>3. \A pos \in {4, 5} : \A rest : Ends(pos, rest) <=> Ends(pos, FALSE)
  BY SMT
<1>4. \A pos, rest : Ends(pos, rest) \in BOOLEAN
  OBVIOUS
<1> HIDE DEF Ends
<1>5. /\ G(1) = Ends(1, G(2)) /\ G(2) = Ends(2, G(3)) /\ G(3) = Ends(3, G(4))
      /\ G(4) = Ends(4, FALSE) /\ G(5) = Ends(5, FALSE)
  OBVIOUS
<1> HIDE DEF G
<1>6. \A pos \in 1..5 : G(pos) = Ends(pos, g[pos + 1])
  <2>1. g[2] = G(2) /\ g[3] = G(3) /\ g[4] = G(4)
    OBVIOUS
  <2> HIDE DEF g
  <2>2. Ends(4, FALSE) = Ends(4, g[5]) /\ Ends(5, FALSE) = Ends(5, g[6])
    <3>1. (Ends(4, g[5]) <=> Ends(4, FALSE)) /\ (Ends(5, g[6]) <=> Ends(5, FALSE))
      BY <1>3
    <3> QED BY <1>4, <3>1, Zenon
  <2>3. /\ G(1) = Ends(1, g[2]) /\ G(2) = Ends(2, g[3]) /\ G(3) = Ends(3, g[4])
        /\ G(4) = Ends(4, g[5]) /\ G(5) = Ends(5, g[6])
    BY <1>5, <2>1, <2>2, Zenon
  <2> TAKE pos \in 1..5
  <2>4. pos = 1 \/ pos = 2 \/ pos = 3 \/ pos = 4 \/ pos = 5
    OBVIOUS
  <2>5. 1 + 1 = 2 /\ 2 + 1 = 3 /\ 3 + 1 = 4 /\ 4 + 1 = 5 /\ 5 + 1 = 6
    OBVIOUS
  <2> QED BY <2>3, <2>4, <2>5, Zenon
<1>7. g = [pos \in 1..5 |-> Ends(pos, g[pos + 1])]
  <2>1. g = [pos \in 1..5 |-> G(pos)]
    OBVIOUS
  <2> HIDE DEF g
  <2> QED BY <1>6, <2>1, Zenon
<1>8. from = [pos \in 1..5 |-> Ends(pos, from[pos + 1])]
  <2> HIDE DEF g
  <2> QED BY <1>7, Zenon
<1> HIDE DEF from, g
<1>9. \A pos \in 1..5 : from[pos] = Ends(pos, from[pos + 1])
  BY <1>8
<1>10. from[n]
  <2>1. Ends(n, from[n + 1])
    BY DEF Ends
  <2> QED BY <1>9, <2>1
<1>11. \A pos \in 1..3 : from[pos + 1] /\ pos < Len(p) => from[pos]
  <2> SUFFICES ASSUME NEW pos \in 1..3, from[pos + 1], pos < Len(p) PROVE from[pos]
    OBVIOUS
  <2>1. 128^pos <= 128^3
    <3>1. pos = 1 \/ pos = 2 \/ pos = 3
      OBVIOUS
    <3>2. 128^1 <= 128^3 /\ 128^2 <= 128^3 /\ 128^3 <= 128^3
      BY Powers, SMT
    <3> QED BY <3>1, <3>2, Zenon
  <2>2. Ends(pos, from[pos + 1])
    BY <2>1 DEF Ends
  <2>3. pos \in 1..5
    OBVIOUS
  <2> QED BY <1>9, <2>2, <2>3, Zenon
<1>12. from[1]
  <2>1. n = 1 \/ n = 2 \/ n = 3 \/ n = 4
    OBVIOUS
  <2> QED BY <1>1, <1>10, <1>11, <2>1
<1> QED BY <1>2, <1>12

\* The analyzer takes for MQTT, or before that for DNS, what the validator accepts.
LEMMA ValidIsMqtt ==
    ASSUME NEW p \in Packet, validate_packet(p)
    PROVE  looks_like_mqtt(p) /\ detect_protocol(p) \in {"MQTT", "DNS"}
<1>1. Len(p) >= 2 /\ packet_type(p) \notin {0, 15} /\ ~Continues(p[LengthBytes(p) + 1])
  BY DEF validate_packet
<1>2. PICK n \in 1..4 : n = LengthBytes(p) /\ n < Len(p)
  BY <1>1, LengthBytesIs
<1>3. p[n + 1] < 128
  <2>1. p[n + 1] \in Byte
    BY <1>2 DEF Packet
  <2>2. ~(p[n + 1] >= 128)
    BY <1>1, <1>2, Zenon DEF Continues
  <2>3. \A x \in Byte : ~(x >= 128) => x < 128
    BY DEF Byte
  <2> QED BY <2>1, <2>2, <2>3, Zenon
<1>4. remaining_length_ends(p)
  BY <1>2, <1>3, RemainingLengthEnds
<1>5. looks_like_mqtt(p)
  BY <1>1, <1>4 DEF looks_like_mqtt, packet_type
<1> QED BY <1>1, <1>5 DEF detect_protocol

-----------------------------------------------------------------------------
(* Patterns *)

\* What is drawn from the constants.
LEMMA Strings ==
    /\ \A s \in Topics \cup ClientIds \cup Payloads \cup {RandomTopic} :
          s \in Packet /\ Len(s) \in Word
    /\ RandomTopic \in Packet
<1>1. \A s \in Topics \cup ClientIds \cup Payloads \cup {RandomTopic} :
         s \in Packet /\ Len(s) \in Word
  BY MqttAssumption, Zenon DEF Packet
<1>2. RandomTopic \in Topics \cup ClientIds \cup Payloads \cup {RandomTopic}
  OBVIOUS
<1> QED BY <1>1, <1>2, Zenon

\* The bitwise or of two bytes is a byte.
LEMMA OrIsByte == ASSUME NEW a \in Byte, NEW b \in Byte PROVE Or(a, b) \in Byte
<1> DEFINE Bit(k) == IF 1 \in {(a \div 2^(k - 1)) % 2, (b \div 2^(k - 1)) % 2}
                     THEN 2^(k - 1) ELSE 0
           low == CHOOSE f : f = [k \in 0..8 |-> IF k = 0 THEN 0 ELSE f[k - 1] + Bit(k)]
           s1 == 0 + Bit(1)
           s2 == s1 + Bit(2)
           s3 == s2 + Bit(3)
           s4 == s3 + Bit(4)
           s5 == s4 + Bit(5)
           s6 == s5 + Bit(6)
           s7 == s6 + Bit(7)
           s8 == s7 + Bit(8)
           g == [k \in 0..8 |-> CASE k = 0 -> 0 [] k = 1 -> s1 [] k = 2 -> s2 [] k = 3 -> s3
                                  [] k = 4 -> s4 [] k = 5 -> s5 [] k = 6 -> s6 [] k = 7 -> s7
                                  [] k = 8 -> s8]
<1>1. Or(a, b) = low[8]
  BY DEF Or
<1>2. /\ Bit(1) \in {0, 1} /\ Bit(2) \in {0, 2} /\ Bit(3) \in {0, 4} /\ Bit(4) \in {0, 8}
      /\ Bit(5) \in {0, 16} /\ Bit(6) \in {0, 32} /\ Bit(7) \in {0, 64} /\ Bit(8) \in {0, 128}
  <2>1. /\ 2^(1 - 1) = 1 /\ 2^(2 - 1) = 2 /\ 2^(3 - 1) = 4 /\ 2^(4 - 1) = 8
        /\ 2^(5 - 1) = 16 /\ 2^(6 - 1) = 32 /\ 2^(7 - 1) = 64 /\ 2^(8 - 1) = 128
    BY SMT
  <2> QED BY <2>1
<1> HIDE DEF Bit
<1>3. g = [k \in 0..8 |-> IF k = 0 THEN 0 ELSE g[k - 1] + Bit(k)]
  <2> HIDE DEF s1, s2, s3, s4, s5, s6, s7, s8
  <2>1. /\ g[0] = 0 /\ g[1] = s1 /\ g[2] = s2 /\ g[3] = s3 /\ g[4] = s4 /\ g[5] = s5
        /\ g[6] = s6 /\ g[7] = s7 /\ g[8] = s8
    OBVIOUS
  <2> HIDE DEF g
  <2>2. /\ g[1] = g[0] + Bit(1) /\ g[2] = g[1] + Bit(2) /\ g[3] = g[2] + Bit(3)
        /\ g[4] = g[3] + Bit(4) /\ g[5] = g[4] + Bit(5) /\ g[6] = g[5] + Bit(6)
        /\ g[7] = g[6] + Bit(7) /\ g[8] = g[7] + Bit(8)
    BY <2>1 DEF s1, s2, s3, s4, s5, s6, s7, s8
  <2>3. \A k \in 0..8 : g[k] = IF k = 0 THEN 0 ELSE g[k - 1] + Bit(k)
    <3> TAKE k \in 0..8
    <3>1. \/ k = 0 \/ k = 1 \/ k = 2 \/ k = 3 \/ k = 4 \/ k = 5 \/ k = 6 \/ k = 7 \/ k = 8
      OBVIOUS
    <3> QED BY <2>1, <2>2, <3>1
  <2> QED BY <2>3 DEF g
<1>4. low = [k \in 0..8 |-> IF k = 0 THEN 0 ELSE low[k - 1] + Bit(k)]
  BY <1>3
<1> HIDE DEF low, g
<1>5. low[0] = 0 /\ \A k \in 1..8 : low[k] = low[k - 1] + Bit(k)
  BY <1>4
<1>6. /\ low[1] = low[0] + Bit(1) /\ low[2] = low[1] + Bit(2) /\ low[3] = low[2] + Bit(3)
      /\ low[4] = low[3] + Bit(4) /\ low[5] = low[4] + Bit(5) /\ low[6] = low[5] + Bit(6)
      /\ low[7] = low[6] + Bit(7) /\ low[8] = low[7] + Bit(8)
  BY <1>5
<1>7. low[1] \in 0..1 /\ low[2] \in 0..3 /\ low[3] \in 0..7 /\ low[4] \in 0..15
  BY <1>2, <1>5, <1>6
<1>8. low[5] \in 0..31 /\ low[6] \in 0..63 /\ low[7] \in 0..127 /\ low[8] \in 0..255
  BY <1>2, <1>6, <1>7
<1> QED BY <1>1, <1>8 DEF Byte

\* An overwritten first byte.
LEMMA FirstByteKeeps ==
    ASSUME NEW p \in Packet, p # << >>, NEW b \in Byte
    PROVE  Overwrites(p, With(p, 0, b)) /\ With(p, 0, b)[1] = b
<1>1. Len(p) \in Nat /\ 0 < Len(p)
  BY EmptySeq DEF Packet
<1>2. /\ With(p, 0, b) \in Packet /\ Len(With(p, 0, b)) = Len(p)
      /\ \A j \in 1..Len(p) : With(p, 0, b)[j] = IF j = 0 + 1 THEN b ELSE p[j]
  BY <1>1, WithByte
<1> QED BY <1>1, <1>2 DEF Overwrites, SameStart

\* The first byte that a pattern computes from the old one.
LEMMA FirstBytes ==
    ASSUME NEW x \in Byte
    PROVE  /\ 240 + (x % 16) \in Byte /\ x \div 16 \in 0..15
           /\ x \div 16 = 3 => /\ x - 2 * ((x \div 2) % 4) + 6 \in Byte
                               /\ x - 2 * ((x \div 2) % 4) + 6 # 16
  BY DEF Byte

\* Two bytes that are no UTF-8, behind the tenth.
LEMMA Utf8Keeps ==
    ASSUME NEW p \in Packet, NEW q \in inject_invalid_utf8(p)
    PROVE  Overwrites(p, q)
<1>1. Len(p) \in Nat /\ 255 \in Byte /\ 254 \in Byte
  BY DEF Packet, Byte
<1>2. CASE Len(p) <= 10
  BY <1>2 DEF inject_invalid_utf8, Overwrites, SameStart
<1>3. CASE Len(p) > 10
  <2>1. PICK d \in Draws, pos \in Nat :
            /\ pos = 10 + (d % (Len(p) - 10))
            /\ q = IF pos + 1 < Len(p) THEN With(With(p, pos, 255), pos + 1, 254)
                   ELSE With(p, pos, 255)
    <3>1. PICK d \in Draws :
              q = LET pos == 10 + (d % (Len(p) - 10))
                  IN  IF pos + 1 < Len(p) THEN With(With(p, pos, 255), pos + 1, 254)
                      ELSE With(p, pos, 255)
      BY <1>1, <1>3 DEF inject_invalid_utf8
    <3>2. 10 + (d % (Len(p) - 10)) \in Nat
      BY <1>1, <1>3, Drawn
    <3> QED BY <3>1, <3>2
  <2>2. pos < Len(p) /\ pos >= 10
    <3>1. PICK m \in Nat \ {0} : m = Len(p) - 10
      BY <1>1, <1>3
    <3>2. d % m \in 0..(m - 1)
      BY Drawn, Remainder
    <3>3. PICK k \in 0..(m - 1) : k = d % m
      BY <3>2
    <3>4. pos = 10 + k
      BY <2>1, <3>1, <3>3
    <3> QED BY <1>1, <3>1, <3>4
  <2>3. CASE pos + 1 < Len(p)
    <3>1. q = With(With(p, pos, 255), pos + 1, 254)
      BY <2>1, <2>3
    <3>2. /\ q \in Packet /\ Len(q) = Len(p)
          /\ \A j \in 1..Len(p) :
                q[j] = IF j = pos + 1 THEN 255 ELSE IF j = pos + 2 THEN 254 ELSE p[j]
      BY <1>1, <2>3, <3>1, WithWord
    <3> QED BY <1>1, <2>2, <3>2 DEF Overwrites, SameStart
  <2>4. CASE ~(pos + 1 < Len(p))
    <3>1. q = With(p, pos, 255)
      BY <2>1, <2>4
    <3>2. /\ q \in Packet /\ Len(q) = Len(p)
          /\ \A j \in 1..Len(p) : q[j] = IF j = pos + 1 THEN 255 ELSE p[j]
      BY <1>1, <2>2, <3>1, WithByte
    <3> QED BY <1>1, <2>2, <3>2 DEF Overwrites, SameStart
  <2> QED BY <2>3, <2>4
<1> QED BY <1>1, <1>2, <1>3

\* Bytes replaced at positions from the sixth on.
LEMMA LaterBytesKeep ==
    ASSUME NEW p \in Packet, NEW N, NEW b \in Byte, \A n \in N : n \in Int /\ n >= 5,
           NEW q, q = [i \in DOMAIN p |-> IF i - 1 \in N THEN b ELSE p[i]]
    PROVE  Overwrites(p, q)
<1>1. Len(p) \in Nat /\ DOMAIN p = 1..Len(p) /\ \A i \in 1..Len(p) : p[i] \in Byte
  BY DEF Packet
<1>2. q \in Packet /\ Len(q) = Len(p)
  BY <1>1 DEF Packet
<1>3. SameStart(p, q)
  <2> SUFFICES ASSUME NEW i \in 2..5, i <= Len(p) PROVE q[i] = p[i]
    BY DEF SameStart
  <2>1. i \in DOMAIN p /\ ~(i - 1 \in N)
    <3>1. i - 1 < 5 /\ i \in 1..Len(p)
      BY <1>1
    <3> QED BY <1>1, <3>1
  <2> QED BY <2>1
<1> QED BY <1>2, <1>3 DEF Overwrites

\* The greater of two numbers, one of them positive.
LEMMA MaxWithOne == ASSUME NEW a \in Nat PROVE Max({a, 1}) \in Nat \ {0}
<1>1. \E x \in {a, 1} : \A y \in {a, 1} : x >= y
  <2>1. CASE a >= 1
    BY <2>1
  <2>2. CASE ~(a >= 1)
    BY <2>2
  <2> QED BY <2>1, <2>2
<1>2. Max({a, 1}) \in {a, 1} /\ \A y \in {a, 1} : Max({a, 1}) >= y
  BY <1>1 DEF Max
<1> QED BY <1>2

\* The reader of topics takes offsets behind the place where it starts.  It is a function
\* that calls itself with greater positions, so that it is defined: the topics from a
\* position on are those at all positions that its steps lead to.
LEMMA TopicsBehind ==
    ASSUME NEW p \in Packet
    PROVE  \A t \in TopicsFrom(p, 4) : t[1] \in Nat /\ t[1] >= 6 /\ t[2] \in Nat
<1> DEFINE length(pos) == p[pos + 1] * 256 + p[pos + 2]
           next(pos) == pos + 3 + length(pos)
           Fits(pos) == ~(pos + 2 >= Len(p)) /\ ~(pos + 2 + length(pos) >= Len(p))
           Closed(S) == \A y \in S : Fits(y) => next(y) \in S
           Reached(pos) == {x \in Nat : \A S \in SUBSET Nat : pos \in S /\ Closed(S) => x \in S}
           Topics_(pos) == {<<x + 2, length(x)>> : x \in {y \in Reached(pos) : Fits(y)}}
           Step(f, pos) == IF pos + 2 >= Len(p) THEN {}
                           ELSE IF pos + 2 + length(pos) >= Len(p) THEN {}
                           ELSE {<<pos + 2, length(pos)>>} \cup f[pos + 3 + length(pos)]
           from == CHOOSE f : f = [pos \in Nat |-> Step(f, pos)]
           g == [pos \in Nat |-> Topics_(pos)]
<1>1. TopicsFrom(p, 4) = from[4]
  BY DEF TopicsFrom
<1>2. Len(p) \in Nat /\ \A i \in 1..Len(p) : p[i] \in Nat
  BY PacketBytes
<1>3. \A pos \in Nat : Fits(pos) => length(pos) \in Nat /\ next(pos) \in Nat
  <2> SUFFICES ASSUME NEW pos \in Nat, Fits(pos) PROVE length(pos) \in Nat
    OBVIOUS
  <2>1. pos + 1 \in 1..Len(p) /\ pos + 2 \in 1..Len(p)
    BY <1>2
  <2>2. p[pos + 1] \in Nat /\ p[pos + 2] \in Nat
    BY <1>2, <2>1
  <2> QED BY <2>2
<1>4. \A f, pos : Step(f, pos) = IF Fits(pos) THEN {<<pos + 2, length(pos)>>} \cup f[next(pos)]
                                 ELSE {}
  OBVIOUS
<1> HIDE DEF length, next, Fits, Step
<1>5. \A pos \in Nat : pos \in Reached(pos)
  OBVIOUS
<1>6. \A pos \in Nat : ~Fits(pos) => Reached(pos) = {pos}
  <2> SUFFICES ASSUME NEW pos \in Nat, ~Fits(pos) PROVE Reached(pos) \subseteq {pos}
    BY <1>5
  <2>1. {pos} \in SUBSET Nat /\ Closed({pos})
    OBVIOUS
  <2> QED BY <2>1
<1>7. \A pos \in Nat : Fits(pos) => Reached(pos) = {pos} \cup Reached(next(pos))
  <2> SUFFICES ASSUME NEW pos \in Nat, Fits(pos)
               PROVE  Reached(pos) = {pos} \cup Reached(next(pos))
    OBVIOUS
  <2>1. next(pos) \in Nat
    BY <1>3
  <2>2. Reached(next(pos)) \subseteq Reached(pos)
    <3> SUFFICES ASSUME NEW x \in Reached(next(pos)), NEW S \in SUBSET Nat,
                        pos \in S, Closed(S)
                 PROVE  x \in S
      OBVIOUS
    <3>1. next(pos) \in S
      OBVIOUS
    <3> QED BY <3>1
  <2>3. Reached(pos) \subseteq {pos} \cup Reached(next(pos))
    <3> DEFINE T == {pos} \cup Reached(next(pos))
    <3>1. T \in SUBSET Nat /\ pos \in T
      OBVIOUS
    <3>2. ASSUME NEW y \in T, Fits(y) PROVE next(y) \in T
      <4>1. CASE y = pos
        BY <1>5, <2>1, <4>1
      <4>2. CASE y \in Reached(next(pos))
        <5>1. next(y) \in Nat
          BY <1>3, <3>2, <4>2
        <5>2. ASSUME NEW S \in SUBSET Nat, next(pos) \in S, Closed(S) PROVE next(y) \in S
          <6>1. y \in S
            BY <4>2, <5>2
          <6> QED BY <3>2, <5>2, <6>1
        <5>3. next(y) \in Reached(next(pos))
          BY <5>1, <5>2
        <5> QED BY <5>3
      <4> QED BY <3>2, <4>1, <4>2
    <3>3. Closed(T)
      BY <3>2
    <3> QED BY <3>1, <3>3
  <2> QED BY <1>5, <2>2, <2>3
<1> HIDE DEF Reached
<1>8. \A pos \in Nat : g[pos] = Step(g, pos)
  <2> TAKE pos \in Nat
  <2>1. CASE Fits(pos)
    <3>1. next(pos) \in Nat
      BY <1>3, <2>1
    <3>2. Topics_(pos) = {<<pos + 2, length(pos)>>} \cup Topics_(next(pos))
      BY <1>7, <2>1
    <3> QED BY <1>4, <2>1, <3>1, <3>2
  <2>2. CASE ~Fits(pos)
    <3>1. Topics_(pos) = {}
      BY <1>6, <2>2
    <3> QED BY <1>4, <2>2, <3>1
  <2> QED BY <2>1, <2>2
<1>9. g = [pos \in Nat |-> Step(g, pos)]
  BY <1>8
<1>10. from = [pos \in Nat |-> Step(from, pos)]
  BY <1>9
<1> HIDE DEF from, g
<1>11. \A pos \in Nat : from[pos] = IF Fits(pos)
                                    THEN {<<pos + 2, length(pos)>>} \cup from[next(pos)] ELSE {}
  BY <1>4, <1>10
<1> DEFINE Good(pos) == \A t \in from[pos] : t[1] \in Nat /\ t[1] >= 6 /\ t[2] \in Nat
           U == {n \in Nat : \A pos \in Nat : pos >= 4 /\ pos + n >= Len(p) => Good(pos)}
<1> HIDE DEF Good
<1>12. 0 \in U
  <2> SUFFICES ASSUME NEW pos \in Nat, pos + 0 >= Len(p) PROVE Good(pos)
    OBVIOUS
  <2>1. ~Fits(pos)
    BY <1>2 DEF Fits
  <2> QED BY <1>11, <2>1 DEF Good
<1>13. \A n \in U : n + 1 \in U
  <2> SUFFICES ASSUME NEW n \in U PROVE n + 1 \in U
    OBVIOUS
  <2>1. n \in Nat /\ \A pos \in Nat : pos >= 4 /\ pos + n >= Len(p) => Good(pos)
    OBVIOUS
  <2>2. ASSUME NEW pos \in Nat, pos >= 4, pos + (n + 1) >= Len(p) PROVE Good(pos)
    <3>1. CASE Fits(pos)
      <4>1. length(pos) \in Nat /\ next(pos) \in Nat
        BY <1>3, <3>1
      <4>2. next(pos) >= 4 /\ next(pos) + n >= Len(p)
        <5>1. PICK k \in Nat, L \in Nat : k = length(pos) /\ L = Len(p)
          BY <1>2, <4>1
        <5>2. next(pos) = pos + 3 + k
          BY <5>1 DEF next
        <5>3. pos + (n + 1) >= L
          BY <2>2, <5>1
        <5> QED BY <2>1, <2>2, <5>1, <5>2, <5>3
      <4>3. Good(next(pos))
        BY <2>1, <4>1, <4>2
      <4>4. pos + 2 \in Nat /\ pos + 2 >= 6
        BY <2>2
      <4>5. ASSUME NEW t \in from[pos] PROVE t[1] \in Nat /\ t[1] >= 6 /\ t[2] \in Nat
        <5>1. t = <<pos + 2, length(pos)>> \/ t \in from[next(pos)]
          BY <1>11, <3>1, <4>5
        <5>2. CASE t = <<pos + 2, length(pos)>>
          BY <4>1, <4>4, <5>2
        <5>3. CASE t \in from[next(pos)]
          BY <4>3, <5>3 DEF Good
        <5> QED BY <5>1, <5>2, <5>3
      <4> QED BY <4>5 DEF Good
    <3>2. CASE ~Fits(pos)
      BY <1>11, <3>2 DEF Good
    <3> QED BY <3>1, <3>2
  <2>3. n + 1 \in Nat
    BY <2>1
  <2> QED BY <2>2, <2>3
<1>14. U = Nat
  <2>1. U \in SUBSET Nat
    OBVIOUS
  <2> HIDE DEF U
  <2> QED BY <1>12, <1>13, <2>1, Induction
<1>15. Good(4)
  <2>1. Len(p) \in U /\ 4 + Len(p) >= Len(p)
    BY <1>2, <1>14
  <2> QED BY <2>1
<1> QED BY <1>1, <1>15 DEF Good

\* A null in each topic found, at most.
LEMMA TopicFilterKeeps ==
    ASSUME NEW p \in Packet, NEW q \in inject_invalid_topic_filter(p)
    PROVE  Overwrites(p, q)
<1>1. CASE q = p
  BY <1>1 DEF Overwrites, SameStart
<1>2. CASE q # p
  <2>1. PICK d \in Draws :
            q = LET nulls == {t[1] + (d % Max({t[2], 1})) : t \in TopicsFrom(p, 4)}
                IN  [i \in DOMAIN p |-> IF i - 1 \in nulls THEN 0 ELSE p[i]]
    BY <1>2 DEF inject_invalid_topic_filter
  <2> DEFINE nulls == {t[1] + (d % Max({t[2], 1})) : t \in TopicsFrom(p, 4)}
  <2>2. q = [i \in DOMAIN p |-> IF i - 1 \in nulls THEN 0 ELSE p[i]]
    BY <2>1
  <2>3. \A n \in nulls : n \in Int /\ n >= 5
    <3> SUFFICES ASSUME NEW t \in TopicsFrom(p, 4)
                 PROVE  /\ t[1] + (d % Max({t[2], 1})) \in Int
                        /\ t[1] + (d % Max({t[2], 1})) >= 5
      OBVIOUS
    <3>1. t[1] \in Nat /\ t[1] >= 6 /\ t[2] \in Nat
      BY TopicsBehind
    <3>2. PICK m \in Nat \ {0} : m = Max({t[2], 1})
      BY <3>1, MaxWithOne
    <3>3. d % m \in 0..(m - 1)
      BY Drawn, Remainder
    <3>4. PICK r \in Nat : r = d % m
      BY <3>3
    <3> QED BY <3>1, <3>2, <3>4
  <2>4. 0 \in Byte
    BY DEF Byte
  <2> HIDE DEF nulls
  <2> QED BY <2>2, <2>3, <2>4, LaterBytesKeep
<1> QED BY <1>1, <1>2

\* Bytes replaced from the eighth on, every seventh.
LEMMA StringLengthsKeep ==
    ASSUME NEW p \in Packet, NEW q \in inject_string_lengths(p)
    PROVE  Overwrites(p, q)
<1>1. CASE q = p
  BY <1>1 DEF Overwrites, SameStart
<1>2. CASE q # p
  <2>1. PICK b \in Bytes :
            q = [i \in DOMAIN p |-> IF i - 1 \in 2..(Len(p) - 3) /\ (i - 1) % 7 = 0
                                    THEN b ELSE p[i]]
    BY <1>2 DEF inject_string_lengths
  <2> DEFINE N == {n \in 2..(Len(p) - 3) : n % 7 = 0}
  <2>2. q = [i \in DOMAIN p |-> IF i - 1 \in N THEN b ELSE p[i]]
    BY <2>1
  <2>3. \A n \in N : n \in Int /\ n >= 5
    OBVIOUS
  <2>4. b \in Byte
    BY Drawn
  <2> HIDE DEF N
  <2> QED BY <2>2, <2>3, <2>4, LaterBytesKeep
<1> QED BY <1>1, <1>2

\* The protocol name where it is looked for, if it is there.
LEMMA ProtocolNameKeeps ==
    ASSUME NEW p \in Packet, NEW q \in inject_protocol_name(p)
    PROVE  Overwrites(p, q) /\ (NoName(p) => q = p)
<1>1. CASE q = p
  BY <1>1 DEF Overwrites, SameStart
<1>2. CASE q # p
  <2>1. /\ Len(p) > 10 /\ p[1] = 16 /\ SubSeq(p, 10, 11) = SubSeq(MQTT, 1, 2)
        /\ q = With(With(p, 9, 88), 10, 88)
    BY <1>2 DEF inject_protocol_name
  <2>2. Len(p) \in Nat /\ 88 \in Byte /\ 9 + 1 = 10 /\ 9 \in Nat
    BY DEF Packet, Byte
  <2>3. /\ q \in Packet /\ Len(q) = Len(p)
        /\ \A j \in 1..Len(p) : q[j] = IF j = 9 + 1 THEN 88 ELSE IF j = 9 + 2 THEN 88 ELSE p[j]
    <3>1. 9 + 1 < Len(p)
      BY <2>1, <2>2
    <3>2. PICK r : r = With(With(p, 9, 88), 9 + 1, 88)
      OBVIOUS
    <3>3. /\ r \in Packet /\ Len(r) = Len(p)
          /\ \A j \in 1..Len(p) : r[j] = IF j = 9 + 1 THEN 88 ELSE IF j = 9 + 2 THEN 88 ELSE p[j]
      BY <2>2, <3>1, <3>2, WithWord
    <3> QED BY <2>1, <2>2, <3>2, <3>3
  <2>4. Overwrites(p, q)
    BY <2>2, <2>3 DEF Overwrites, SameStart
  <2>5. p[10] = 77
    <3>1. SubSeq(p, 10, 11)[1] = p[10]
      BY <2>1, <2>2, SubSeqProperties DEF Packet
    <3>2. SubSeq(MQTT, 1, 2)[1] = 77
      BY DEF MQTT
    <3> QED BY <2>1, <3>1, <3>2
  <2> QED BY <2>1, <2>2, <2>4, <2>5 DEF NoName
<1> QED BY <1>1, <1>2

\* More filters, behind the others.
LEMMA SubscriptionsKeep ==
    ASSUME NEW p \in Packet, NEW q \in inject_excessive_subscriptions(p)
    PROVE  Lengthens(p, q)
<1>1. PICK d \in Draws, qos \in 0..2 : q = p \o subscriptions((d % 1000) + 100, qos)
  BY DEF inject_excessive_subscriptions
<1>2. PICK n \in Nat : n = (d % 1000) + 100
  BY Drawn, SMT
<1>3. subscription(RandomTopic, qos) \in Packet
  <2>1. RandomTopic \in Packet
    BY Strings
  <2>2. be(Len(RandomTopic)) \in Packet
    BY <2>1, BeBytes, PacketBytes
  <2>3. <<qos>> \in Packet
    BY DEF Packet, Byte
  <2>4. be(Len(RandomTopic)) \o RandomTopic \in Packet
    BY <2>1, <2>2, Joined
  <2> QED BY <2>3, <2>4, Joined DEF subscription
<1>4. PICK more : more = [i \in 1..n |-> subscription(RandomTopic, qos)]
  OBVIOUS
<1>5. more \in Seq(Packet)
  BY <1>3, <1>4
<1>6. FlattenSeq(more) \in Packet
  BY <1>5, FlattenIsSeq DEF Packet
<1>7. PICK s \in Packet : q = p \o s
  <2>1. q = p \o subscriptions(n, qos)
    BY <1>1, <1>2, SMT
  <2>2. subscriptions(n, qos) = FlattenSeq(more)
    BY <1>4, Zenon DEF subscriptions
  <2> QED BY <1>6, <2>1, <2>2, Zenon
<1>8. /\ p \o s \in Packet /\ Len(p \o s) = Len(p) + Len(s)
      /\ \A i \in 1..Len(p) : (p \o s)[i] = p[i]
  BY Joined
<1>9. Len(p) \in Nat /\ Len(s) \in Nat
  BY PacketBytes
<1> QED BY <1>7, <1>8, <1>9 DEF Lengthens

\* A payload of the letter A, fewer than PayloadLimit times.
LEMMA PayloadKeeps ==
    ASSUME NEW p \in Packet, NEW q \in oversized_payload(p)
    PROVE  /\ Lengthens(p, q) /\ Len(q) < Len(p) + PayloadLimit
           /\ \A i \in 1..Len(q) : i > Len(p) => q[i] = 65
<1> DEFINE count(d) == d % PayloadLimit
           letters(n) == [i \in 1..n |-> 65]
<1>0. PayloadLimit \in Nat \ {0}
  BY SMT DEF PayloadLimit
<1>1. q \in {p \o letters(count(d)) : d \in Draws}
  BY DEF oversized_payload
<1>2. \A d \in Draws : count(d) \in 0..(PayloadLimit - 1)
  BY <1>0, Drawn, Remainder
<1> HIDE DEF count, letters
<1>3. PICK d \in Draws : q = p \o letters(count(d))
  BY <1>1
<1>4. PICK n \in Nat : n = count(d) /\ n < PayloadLimit
  BY <1>0, <1>2
<1>5. PICK s : s = letters(n)
  OBVIOUS
<1>6. s \in Packet /\ Len(s) = n /\ \A i \in 1..n : s[i] = 65
  BY <1>5 DEF letters, Packet, Byte
<1>7. q = p \o s
  BY <1>3, <1>4, <1>5, Zenon
<1>8. PICK L \in Nat : L = Len(p)
  BY PacketBytes
<1>9. /\ q \in Packet /\ Len(q) = L + n
      /\ \A i \in 1..L : q[i] = p[i]
      /\ \A i \in 1..n : q[L + i] = 65
  <2>1. Sized(p, L) /\ Sized(s, n)
    BY <1>6, <1>8 DEF Sized
  <2>2. Sized(q, L + n) /\ Starts(q, p, L) /\ Follows(q, s, L, n)
    BY <1>7, <2>1, Prefixed, Zenon
  <2>3. \A i \in 1..n : q[L + i] = 65
    <3> TAKE i \in 1..n
    <3>1. q[L + i] = s[i]
      BY <2>2, Zenon DEF Follows
    <3>2. s[i] = 65
      BY <1>6
    <3> QED BY <3>1, <3>2
  <2> QED BY <2>2, <2>3 DEF Sized, Starts
<1>10. \A i \in 1..Len(q) : i > L => q[i] = 65
  <2> SUFFICES ASSUME NEW i \in 1..Len(q), i > L PROVE q[i] = 65
    OBVIOUS
  <2>1. PICK k \in 1..n : i = L + k
    <3>1. i - L \in 1..n /\ L + (i - L) = i
      BY <1>9
    <3> QED BY <3>1
  <2> QED BY <1>9, <2>1, Zenon
<1>11. Len(q) >= L /\ Len(q) < L + PayloadLimit
  BY <1>0, <1>4, <1>9
<1> QED BY <1>8, <1>9, <1>10, <1>11, Zenon DEF Lengthens

\* The first half.
LEMMA TruncatedKeeps ==
    ASSUME NEW p \in Packet
    PROVE  LET q == truncated_payload(p)
           IN  /\ q \in Packet /\ Len(q) <= Len(p)
               /\ Len(p) <= 5 => q = p
               /\ Len(p) > 5 => Len(q) = Len(p) \div 2
               /\ \A i \in 1..Len(q) : q[i] = p[i]
<1>1. Len(p) \in Nat
  BY DEF Packet
<1>2. CASE Len(p) <= 5
  BY <1>1, <1>2 DEF truncated_payload
<1>3. CASE Len(p) > 5
  <2>1. Len(p) \div 2 \in 0..Len(p)
    BY <1>1
  <2> QED BY <1>1, <1>3, <2>1, Cut DEF truncated_payload
<1> QED BY <1>1, <1>2, <1>3

\* Four bytes that continue, and one that does not.
LEMMA RemainingLengthWritten ==
    ASSUME NEW p \in Packet, Len(p) >= 2
    PROVE  LET q == oversized_remaining_length(p)
           IN  q \in Packet /\ Len(q) = Len(p) + 4 /\ q[1] = p[1] /\ Lead(q)
<1>1. Len(p) \in Nat
  BY DEF Packet
<1>2. PICK a : a = SubSeq(p, 1, 2)
  OBVIOUS
<1>3. a \in Packet /\ Len(a) = 2 /\ a[1] = p[1]
  <2>1. 2 \in 0..Len(p)
    BY <1>1
  <2> QED BY <1>2, <2>1, Cut
<1>4. PICK b : b = <<255, 255, 255, 127>>
  OBVIOUS
<1>5. b \in Packet /\ Len(b) = 4 /\ b[1] = 255 /\ b[2] = 255 /\ b[3] = 255
  BY <1>4 DEF Packet, Byte
<1>6. PICK c : c = SubSeq(p, 3, Len(p))
  OBVIOUS
<1>7. c \in Packet /\ Len(c) = Len(p) - 2
  <2>1. PICK n \in Nat : n = Len(p)
    BY <1>1
  <2>2. 3 \in 1..(n + 1)
    BY <2>1
  <2>3. SubSeq(p, 3, n) \in Packet /\ Len(SubSeq(p, 3, n)) = (n + 1) - 3
    BY <2>1, <2>2, Piece
  <2> QED BY <1>6, <2>1, <2>3
<1>8. PICK e : e = a \o b
  OBVIOUS
<1>9. e \in Packet /\ Len(e) = 6 /\ e[1] = p[1] /\ e[3] = 255 /\ e[4] = 255 /\ e[5] = 255
  <2>1. 2 \in Nat /\ 4 \in Nat /\ Sized(a, 2) /\ Sized(b, 4)
    BY <1>3, <1>5 DEF Sized
  <2>2. Sized(e, 2 + 4) /\ Starts(e, a, 2) /\ Follows(e, b, 2, 4)
    BY <1>8, <2>1, Prefixed, Zenon
  <2>3. e[2 + 1] = 255 /\ e[2 + 2] = 255 /\ e[2 + 3] = 255 /\ e[1] = a[1]
    BY <1>5, <2>2 DEF Starts, Follows
  <2> QED BY <1>3, <2>2, <2>3 DEF Sized
<1>10. PICK f : f = e \o c
  OBVIOUS
<1>11. /\ f \in Packet /\ Len(f) = Len(p) + 4
       /\ f[1] = p[1] /\ f[3] = 255 /\ f[4] = 255 /\ f[5] = 255
  <2>1. PICK k \in Nat : k = Len(p) - 2
    BY <1>1
  <2>2. 6 \in Nat /\ Sized(e, 6) /\ Sized(c, k)
    BY <1>7, <1>9, <2>1 DEF Sized
  <2>3. Sized(f, 6 + k) /\ Starts(f, e, 6)
    BY <1>10, <2>2, Prefixed, Zenon
  <2>4. f[1] = e[1] /\ f[3] = e[3] /\ f[4] = e[4] /\ f[5] = e[5]
    BY <2>3 DEF Starts
  <2>5. 6 + k = Len(p) + 4
    BY <1>1, <2>1
  <2> QED BY <1>9, <2>3, <2>4, <2>5, Zenon DEF Sized
<1>12. oversized_remaining_length(p) = With(f, 1, 255)
  BY <1>1, <1>2, <1>4, <1>6, <1>8, <1>10 DEF oversized_remaining_length
<1>13. /\ With(f, 1, 255) \in Packet /\ Len(With(f, 1, 255)) = Len(f)
       /\ \A j \in 1..Len(f) : With(f, 1, 255)[j] = IF j = 1 + 1 THEN 255 ELSE f[j]
  <2>1. 255 \in Byte /\ 1 < Len(f) /\ 1 \in Nat
    BY <1>1, <1>11 DEF Byte
  <2> QED BY <1>11, <2>1, WithByte
<1>14. Lead(With(f, 1, 255))
  <2> SUFFICES ASSUME NEW i \in 2..5 PROVE With(f, 1, 255)[i] = 255
    BY DEF Lead
  <2>1. i \in 1..Len(f) /\ (i = 2 \/ i = 3 \/ i = 4 \/ i = 5)
    BY <1>1, <1>11
  <2> QED BY <1>11, <1>13, <2>1
<1>15. With(f, 1, 255)[1] = p[1]
  <2>1. 1 \in 1..Len(f)
    BY <1>1, <1>11
  <2> QED BY <1>11, <1>13, <2>1
<1> QED BY <1>11, <1>12, <1>13, <1>14, <1>15

-----------------------------------------------------------------------------
(* All patterns together *)

\* The patterns that change bytes in place.
LEMMA OverwritingKeeps ==
    ASSUME NEW p \in Packet, NEW pattern \in Overwriting, NEW q \in mqtt_apply_pattern(p, pattern)
    PROVE  /\ Overwrites(p, q)
           /\ pattern \in HeadKeeping /\ NoName(p) => NoName(q)
<1>1. Overwrites(p, p)
  BY DEF Overwrites, SameStart
<1>2. ASSUME p # << >> PROVE Len(p) \in Nat /\ p[1] \in Byte
  <2>1. Len(p) \in Nat /\ 1 \in 1..Len(p)
    BY <1>2, EmptySeq, PacketBytes DEF Packet
  <2> QED BY <2>1, PacketBytes
<1>3. CASE pattern = "InvalidFixedHeader"
  <2>1. q = p \/ (p # << >> /\ \E b \in Byte : q = With(p, 0, b))
    BY <1>3, Drawn DEF mqtt_apply_pattern
  <2>2. Overwrites(p, q)
    BY <1>1, <2>1, FirstByteKeeps
  <2> QED BY <1>3, <2>2 DEF HeadKeeping
<1>4. CASE pattern = "InvalidPacketType"
  <2>1. q = p \/ (p # << >> /\ q = With(p, 0, 240 + (p[1] % 16)))
    <3>1. q = invalid_packet_type(p)
      BY <1>4 DEF mqtt_apply_pattern
    <3> QED BY <3>1 DEF invalid_packet_type, flags
  <2>2. CASE q = p
    BY <1>1, <2>2
  <2>3. CASE p # << >> /\ q = With(p, 0, 240 + (p[1] % 16))
    <3>1. 240 + (p[1] % 16) \in Byte /\ 240 + (p[1] % 16) # 16
      <4>1. \A x \in Byte : 240 + (x % 16) \in Byte /\ 240 + (x % 16) # 16
        BY DEF Byte
      <4> QED BY <1>2, <2>3, <4>1
    <3>2. Overwrites(p, q) /\ q[1] = 240 + (p[1] % 16)
      BY <2>3, <3>1, FirstByteKeeps
    <3> QED BY <3>1, <3>2 DEF NoName
  <2> QED BY <2>1, <2>2, <2>3
<1>5. CASE pattern = "InvalidQoS"
  <2>1. \/ q = p
        \/ /\ p # << >> /\ p[1] \div 16 = 3
           /\ q = With(p, 0, p[1] - 2 * ((p[1] \div 2) % 4) + 6)
    BY <1>5 DEF mqtt_apply_pattern, packet_type
  <2>2. CASE q = p
    BY <1>1, <2>2
  <2>3. CASE /\ p # << >> /\ p[1] \div 16 = 3
             /\ q = With(p, 0, p[1] - 2 * ((p[1] \div 2) % 4) + 6)
    <3>1. PICK b \in Byte : b = p[1] - 2 * ((p[1] \div 2) % 4) + 6 /\ b # 16
      BY <1>2, <2>3, FirstBytes
    <3>2. Overwrites(p, q) /\ q[1] = b
      BY <2>3, <3>1, FirstByteKeeps
    <3> QED BY <3>1, <3>2 DEF NoName
  <2> QED BY <2>1, <2>2, <2>3
<1>6. CASE pattern = "MalformedUtf8"
  <2>1. q \in inject_invalid_utf8(p)
    BY <1>6 DEF mqtt_apply_pattern
  <2> QED BY <1>6, <2>1, Utf8Keeps DEF HeadKeeping
<1>7. CASE pattern = "InvalidTopicFilter"
  <2>1. q \in inject_invalid_topic_filter(p)
    BY <1>7 DEF mqtt_apply_pattern
  <2> QED BY <1>7, <2>1, TopicFilterKeeps DEF HeadKeeping
<1>8. CASE pattern = "InvalidProtocolName"
  <2>1. q \in inject_protocol_name(p)
    BY <1>8 DEF mqtt_apply_pattern
  <2> QED BY <2>1, ProtocolNameKeeps
<1>9. CASE pattern = "DuplicateConnect"
  <2>1. q = p
    BY <1>9 DEF mqtt_apply_pattern
  <2> QED BY <1>1, <2>1
<1>10. CASE pattern = "ReservedFlags"
  <2>1. q = p \/ (p # << >> /\ \E b \in Bytes : q = With(p, 0, Or(p[1], b % 16)))
    BY <1>10 DEF mqtt_apply_pattern
  <2>2. CASE q = p
    BY <1>1, <1>10, <2>2 DEF HeadKeeping
  <2>3. CASE p # << >> /\ \E b \in Bytes : q = With(p, 0, Or(p[1], b % 16))
    <3>1. PICK b \in Byte : q = With(p, 0, Or(p[1], b % 16))
      BY <2>3, Drawn
    <3>2. b % 16 \in Byte
      BY DEF Byte
    <3>3. Or(p[1], b % 16) \in Byte
      BY <1>2, <2>3, <3>2, OrIsByte
    <3>4. Overwrites(p, q)
      BY <2>3, <3>1, <3>3, FirstByteKeeps
    <3> QED BY <1>10, <3>4 DEF HeadKeeping
  <2> QED BY <2>1, <2>2, <2>3
<1>11. CASE pattern = "StringLengths"
  <2>1. q \in inject_string_lengths(p)
    BY <1>11 DEF mqtt_apply_pattern
  <2> QED BY <1>11, <2>1, StringLengthsKeep DEF HeadKeeping
<1> QED BY <1>3, <1>4, <1>5, <1>6, <1>7, <1>8, <1>9, <1>10, <1>11
        DEF Overwriting, MalformedPatterns

\* The patterns that do not: what each makes of a packet.
LEMMA OtherPatterns ==
    ASSUME NEW p \in Packet, NEW pattern \in MalformedPatterns \ Overwriting,
           NEW q \in mqtt_apply_pattern(p, pattern)
    PROVE  \/ pattern = "OversizedRemainingLength" /\ q = oversized_remaining_length(p)
           \/ pattern = "TruncatedPayload" /\ q = truncated_payload(p)
           \/ /\ pattern = "OversizedPayload"
              /\ q \in oversized_payload(p)
           \/ pattern = "ExcessiveSubscriptions" /\ p = << >> /\ q = Panic
           \/ pattern = "ExcessiveSubscriptions" /\ p # << >> /\ packet_type(p) # 8 /\ q = p
           \/ /\ pattern = "ExcessiveSubscriptions" /\ p # << >> /\ packet_type(p) = 8
              /\ q \in inject_excessive_subscriptions(p)
<1>1. pattern \in {"OversizedRemainingLength", "TruncatedPayload", "OversizedPayload",
                   "ExcessiveSubscriptions"}
  BY DEF Overwriting
<1>2. CASE pattern = "OversizedRemainingLength"
  BY <1>2 DEF mqtt_apply_pattern
<1>3. CASE pattern = "TruncatedPayload"
  BY <1>3 DEF mqtt_apply_pattern
<1>4. CASE pattern = "OversizedPayload"
  BY <1>4 DEF mqtt_apply_pattern
<1>5. CASE pattern = "ExcessiveSubscriptions"
  BY <1>5 DEF mqtt_apply_pattern
<1> QED BY <1>1, <1>2, <1>3, <1>4, <1>5

\* Of every pattern: only one panics, and only on the empty packet, and none empties one.
LEMMA PatternKeeps ==
    ASSUME NEW p \in Packet, NEW pattern \in MalformedPatterns,
           NEW q \in mqtt_apply_pattern(p, pattern)
    PROVE  \/ p = << >> /\ q = Panic
           \/ /\ q \in Packet /\ (Len(q) >= Len(p) \/ Len(q) >= 3)
              /\ pattern \in HeadKeeping /\ NoName(p) => NoName(q)
<1>1. Len(p) \in Nat
  BY PacketBytes
<1>2. CASE pattern \in Overwriting
  <2>1. Overwrites(p, q) /\ (pattern \in HeadKeeping /\ NoName(p) => NoName(q))
    BY <1>2, OverwritingKeeps
  <2> QED BY <1>1, <2>1 DEF Overwrites
<1>3. CASE pattern = "OversizedRemainingLength" /\ q = oversized_remaining_length(p)
  <2>1. CASE Len(p) >= 2
    <3>1. q \in Packet /\ Len(q) = Len(p) + 4
      BY <1>3, <2>1, RemainingLengthWritten
    <3> QED BY <1>1, <1>3, <3>1 DEF HeadKeeping
  <2>2. CASE ~(Len(p) >= 2)
    BY <1>1, <1>3, <2>2 DEF oversized_remaining_length
  <2> QED BY <2>1, <2>2
<1>4. CASE pattern = "TruncatedPayload" /\ q = truncated_payload(p)
  <2>1. /\ q \in Packet /\ Len(q) <= Len(p)
        /\ Len(p) <= 5 => q = p
        /\ Len(p) > 5 => Len(q) = Len(p) \div 2
        /\ \A i \in 1..Len(q) : q[i] = p[i]
    BY <1>4, TruncatedKeeps
  <2>2. Len(q) \in Nat
    BY <2>1, PacketBytes
  <2>3. Len(q) >= Len(p) \/ Len(q) >= 3
    BY <1>1, <2>1
  <2>4. NoName(p) => NoName(q)
    <3> SUFFICES ASSUME NoName(p), Len(q) >= 10, q[1] = 16 PROVE q[10] # 77
      BY DEF NoName
    <3>1. q[1] = p[1] /\ q[10] = p[10] /\ Len(p) >= 10
      BY <1>1, <2>1, <2>2
    <3> QED BY <3>1 DEF NoName
  <2> QED BY <2>1, <2>3, <2>4
<1>5. CASE q \in oversized_payload(p)
  <2>1. /\ Lengthens(p, q) /\ \A i \in 1..Len(q) : i > Len(p) => q[i] = 65
    BY <1>5, PayloadKeeps
  <2>2. q \in Packet /\ Len(q) >= Len(p) /\ Len(q) \in Nat /\ \A i \in 1..Len(p) : q[i] = p[i]
    BY <2>1, PacketBytes DEF Lengthens
  <2>3. NoName(p) => NoName(q)
    <3> SUFFICES ASSUME NoName(p), Len(q) >= 10, q[1] = 16 PROVE q[10] # 77
      BY DEF NoName
    <3>1. CASE Len(p) >= 10
      <4>1. q[1] = p[1] /\ q[10] = p[10]
        BY <1>1, <2>2, <3>1
      <4> QED BY <3>1, <4>1 DEF NoName
    <3>2. CASE ~(Len(p) >= 10)
      <4>1. q[10] = 65
        BY <1>1, <2>1, <2>2, <3>2
      <4> QED BY <4>1
    <3> QED BY <3>1, <3>2
  <2> QED BY <2>2, <2>3
<1>6. CASE q = p
  BY <1>1, <1>6
<1>7. CASE p # << >> /\ packet_type(p) = 8 /\ q \in inject_excessive_subscriptions(p)
  <2>1. q \in Packet /\ Len(q) >= Len(p) /\ \A i \in 1..Len(p) : q[i] = p[i]
    BY <1>7, SubscriptionsKeep DEF Lengthens
  <2>2. q[1] # 16
    <3>1. 1 \in 1..Len(p) /\ p[1] \div 16 = 8
      BY <1>1, <1>7, EmptySeq DEF packet_type, Packet
    <3>2. q[1] = p[1] /\ 16 \div 16 # 8
      BY <2>1, <3>1
    <3> QED BY <3>1, <3>2
  <2> QED BY <2>1, <2>2 DEF NoName
<1> QED BY <1>2, <1>3, <1>4, <1>5, <1>6, <1>7, OtherPatterns

-----------------------------------------------------------------------------
(* An oversized remaining length *)

\* What the validator requires of the remaining length it reads.
LEMMA ValidLength ==
    ASSUME NEW p \in Packet, Len(p) >= 2
    PROVE  \E n \in 1..4 :
              /\ n = LengthBytes(p) /\ n < Len(p)
              /\ validate_packet(p) => p[n + 1] < 128 /\ n + 1 + LengthValue(p, n) = Len(p)
<1>1. PICK n \in 1..4 : n = LengthBytes(p) /\ n < Len(p)
  BY LengthBytesIs
<1>2. ASSUME validate_packet(p) PROVE p[n + 1] < 128 /\ n + 1 + LengthValue(p, n) = Len(p)
  <2>1. ~Continues(p[n + 1]) /\ n + 1 + LengthValue(p, n) = Len(p)
    BY <1>1, <1>2, Zenon DEF validate_packet
  <2>2. p[n + 1] \in Byte
    <3>1. n + 1 \in 1..Len(p)
      BY <1>1, PacketBytes
    <3> QED BY <3>1, PacketBytes
  <2>3. \A x \in Byte : ~Continues(x) => x < 128
    BY DEF Byte, Continues
  <2> QED BY <2>1, <2>2, <2>3, Zenon
<1> QED BY <1>1, <1>2, Zenon

\* A packet of which all bytes continue that may hold the remaining length is invalid.
LEMMA LeadIsInvalid ==
    ASSUME NEW p \in Packet, Len(p) >= 2, Lead(p)
    PROVE  ~validate_packet(p)
<1>1. PICK n \in 1..4 :
          /\ n < Len(p)
          /\ validate_packet(p) => p[n + 1] < 128 /\ n + 1 + LengthValue(p, n) = Len(p)
  BY ValidLength
<1>2. p[n + 1] = 255
  <2>1. n + 1 \in 2..5 /\ n + 1 <= Len(p)
    BY <1>1, PacketBytes
  <2> QED BY <2>1 DEF Lead
<1> QED BY <1>1, <1>2

\* So is one of three or four bytes that is continued with letters: the value read is
\* far greater than what may be appended.
LEMMA LettersAreInvalid ==
    ASSUME NEW p \in Packet, Lead(p), Len(p) \in {3, 4},
           NEW q \in Packet, \A i \in 1..Len(p) : q[i] = p[i],
           Len(q) > Len(p), Len(q) < Len(p) + PayloadLimit,
           \A i \in 1..Len(q) : i > Len(p) => q[i] = 65
    PROVE  ~validate_packet(q)
<1>1. PICK l \in Nat, m \in {3, 4} : l = Len(q) /\ m = Len(p) /\ l > m /\ l < m + PayloadLimit
  <2>1. Len(q) \in Nat
    BY PacketBytes
  <2> QED BY <2>1
<1>2. l >= 4 /\ l < 4 + PayloadLimit /\ PayloadLimit \in Nat
  BY <1>1, SMT DEF PayloadLimit
<1>3. q[2] = 255 /\ q[3] = 255 /\ (m = 4 => q[4] = 255)
  <2>1. /\ p[2] = 255 /\ p[3] = 255 /\ (m = 4 => p[4] = 255)
        /\ q[2] = p[2] /\ q[3] = p[3] /\ (m = 4 => q[4] = p[4])
    BY <1>1 DEF Lead
  <2> QED BY <2>1
<1>4. (m = 3 => q[4] = 65) /\ (m = 4 => q[5] = 65)
  <2>1. m + 1 \in 1..Len(q) /\ m + 1 > Len(p)
    BY <1>1
  <2>2. q[m + 1] = 65
    BY <2>1
  <2> QED BY <1>1, <2>2
<1>5. LengthBytes(q) = m
  <2>1. StopsAt(q, m)
    BY <1>1, <1>4 DEF StopsAt
  <2>2. \A k \in 1..4 : k < m => ~StopsAt(q, k)
    <3> SUFFICES ASSUME NEW k \in 1..4, k < m PROVE ~StopsAt(q, k)
      OBVIOUS
    <3>1. k = 1 \/ k = 2 \/ (m = 4 /\ k = 3)
      BY <1>1
    <3>2. q[k + 1] = 255 /\ k + 1 # Len(q) /\ k # 4
      BY <1>1, <1>3, <3>1
    <3> QED BY <3>2 DEF StopsAt
  <2> QED BY <1>1, <2>1, <2>2, LengthBytesAre
<1>6. m \in 1..4 /\ m < Len(q) /\ Len(q) >= 2
  BY <1>1
<1>7. PICK v \in Nat : v = LengthValue(q, m) /\ v >= 5 + PayloadLimit
  <2>1. /\ m = 3 => LengthValue(q, m) = Digit(q, 1) + Digit(q, 2) * 128 + Digit(q, 3) * 16384
        /\ m = 4 => LengthValue(q, m) = Digit(q, 1) + Digit(q, 2) * 128 + Digit(q, 3) * 16384
                                           + Digit(q, 4) * 2097152
    BY <1>6, LengthValueIs
  <2>2. /\ Digit(q, 1) = 127 /\ Digit(q, 2) = 127
        /\ m = 3 => Digit(q, 3) = 65
        /\ m = 4 => Digit(q, 3) = 127 /\ Digit(q, 4) = 65
    BY <1>3, <1>4 DEF Digit
  <2>3. CASE m = 3
    <3>1. LengthValue(q, m) = 127 + 127 * 128 + 65 * 16384
      BY <2>1, <2>2, <2>3, SMT
    <3> QED BY <3>1, SMT DEF PayloadLimit
  <2>4. CASE m = 4
    <3>1. LengthValue(q, m) = 127 + 127 * 128 + 127 * 16384 + 65 * 2097152
      BY <2>1, <2>2, <2>4, SMT
    <3> QED BY <3>1, SMT DEF PayloadLimit
  <2> QED BY <1>1, <2>3, <2>4
<1>8. PICK n \in 1..4 :
          /\ n = LengthBytes(q)
          /\ validate_packet(q) => n + 1 + LengthValue(q, n) = Len(q)
  BY <1>6, ValidLength
<1>9. validate_packet(q) => m + 1 + LengthValue(q, m) = l
  BY <1>1, <1>5, <1>8
<1> QED BY <1>1, <1>2, <1>7, <1>9

\* The first byte of a packet whose rest is as it was, or longer, or shorter.
LEMMA SettledStays ==
    ASSUME NEW p \in Packet, NEW k \in 1..2, Settled(p, k),
           NEW pattern \in MalformedPatterns, NEW q \in mqtt_apply_pattern(p, pattern)
    PROVE  Settled(q, k + 1)
<1>1. Len(p) \in Nat /\ Len(p) >= 3 /\ Lead(p) /\ (k = 1 => Len(p) >= 6)
  BY PacketBytes DEF Settled
<1>2. p # << >> /\ packet_type(p) = p[1] \div 16
  BY <1>1 DEF packet_type
<1>3. (k = 1 => k + 1 = 2) /\ (k = 2 => k + 1 = 3) /\ (k = 1 \/ k = 2)
  OBVIOUS
<1>4. ASSUME Overwrites(p, q) PROVE Settled(q, k + 1)
  <2>1. q \in Packet /\ Len(q) = Len(p) /\ Lead(q)
    BY <1>1, <1>4 DEF Overwrites, SameStart, Lead
  <2>2. ~validate_packet(q)
    BY <1>1, <2>1, LeadIsInvalid
  <2> QED BY <1>1, <1>3, <2>1, <2>2 DEF Settled
<1>5. CASE pattern \in Overwriting
  BY <1>4, <1>5, OverwritingKeeps
<1>6. CASE q = p
  BY <1>4, <1>6 DEF Overwrites, SameStart
<1>7. CASE q = oversized_remaining_length(p)
  <2>1. q \in Packet /\ Len(q) = Len(p) + 4 /\ Lead(q)
    BY <1>1, <1>7, RemainingLengthWritten
  <2>2. Len(q) >= 7
    BY <1>1, <2>1
  <2>3. ~validate_packet(q)
    BY <2>1, <2>2, LeadIsInvalid
  <2> QED BY <1>3, <2>1, <2>2, <2>3 DEF Settled
<1>8. CASE q = truncated_payload(p)
  <2>1. /\ q \in Packet /\ Len(q) <= Len(p)
        /\ Len(p) <= 5 => q = p
        /\ Len(p) > 5 => Len(q) = Len(p) \div 2
        /\ \A i \in 1..Len(q) : q[i] = p[i]
    BY <1>8, TruncatedKeeps
  <2>2. Len(q) \in Nat /\ Len(q) >= 3 /\ q[1] = p[1]
    <3>1. Len(q) \in Nat /\ Len(q) >= 3
      BY <1>1, <2>1
    <3> QED BY <2>1, <3>1
  <2>3. Lead(q)
    BY <1>1, <2>1, <2>2 DEF Lead
  <2>4. ~validate_packet(q)
    BY <2>1, <2>2, <2>3, LeadIsInvalid
  <2>5. k = 1 => (q[1] \div 16 = 8 => Len(q) >= 5)
    <3> SUFFICES ASSUME k = 1, q[1] \div 16 = 8 PROVE Len(q) >= 5
      OBVIOUS
    <3>1. Len(p) >= 11
      BY <2>2 DEF Settled
    <3> QED BY <1>1, <2>1, <3>1
  <2> QED BY <1>3, <2>2, <2>3, <2>4, <2>5 DEF Settled
<1>9. CASE q \in oversized_payload(p)
  <2>1. /\ q \in Packet /\ Len(q) >= Len(p) /\ Len(q) < Len(p) + PayloadLimit
        /\ \A i \in 1..Len(p) : q[i] = p[i]
        /\ \A i \in 1..Len(q) : i > Len(p) => q[i] = 65
    BY <1>9, PayloadKeeps DEF Lengthens
  <2>2. Len(q) \in Nat
    BY <2>1, PacketBytes
  <2>3. CASE Len(p) >= 5 \/ Len(q) = Len(p)
    <3>1. Lead(q)
      <4> SUFFICES ASSUME NEW i \in 2..5, i <= Len(q) PROVE q[i] = 255
        BY DEF Lead
      <4>1. i \in 1..Len(p) /\ i <= Len(p)
        BY <1>1, <2>3
      <4>2. q[i] = p[i] /\ p[i] = 255
        BY <1>1, <2>1, <4>1 DEF Lead
      <4> QED BY <4>2
    <3>2. ~validate_packet(q)
      BY <1>1, <2>1, <2>2, <3>1, LeadIsInvalid
    <3>3. k = 1 => Len(q) >= 6
      BY <1>1, <2>1, <2>2
    <3> QED BY <1>3, <3>1, <3>2, <3>3, <2>2 DEF Settled
  <2>4. CASE ~(Len(p) >= 5) /\ Len(q) # Len(p)
    <3>1. Len(p) \in {3, 4} /\ Len(q) > Len(p) /\ k = 2
      <4>1. PICK l \in Nat, m \in Nat : l = Len(p) /\ m = Len(q)
        BY <1>1, <2>2
      <4>2. l >= 3 /\ (k = 1 => l >= 6) /\ ~(l >= 5) /\ m # l /\ m >= l
        BY <1>1, <2>1, <2>4, <4>1, Zenon
      <4>3. l \in {3, 4} /\ m > l /\ k = 2
        BY <1>3, <4>2
      <4> QED BY <4>1, <4>3
    <3>2. ~validate_packet(q)
      BY <1>1, <2>1, <3>1, LettersAreInvalid
    <3> QED BY <3>1, <3>2 DEF Settled
  <2> QED BY <2>3, <2>4
<1>10. CASE packet_type(p) = 8 /\ q \in inject_excessive_subscriptions(p)
  <2>1. q \in Packet /\ Len(q) >= Len(p) /\ \A i \in 1..Len(p) : q[i] = p[i]
    BY <1>10, SubscriptionsKeep DEF Lengthens
  <2>2. Len(q) \in Nat /\ Len(p) >= 5 /\ (k = 1 => Len(p) >= 11)
    <3>1. Len(q) \in Nat
      BY <2>1, PacketBytes
    <3>2. (k = 1 => Len(p) >= 11) /\ (k = 2 => Len(p) >= 5)
      BY <1>2, <1>10 DEF Settled
    <3> QED BY <1>1, <1>3, <3>1, <3>2
  <2>3. Lead(q)
    <3> SUFFICES ASSUME NEW i \in 2..5 PROVE q[i] = 255
      BY DEF Lead
    <3>1. i \in 1..Len(p) /\ i <= Len(p)
      BY <1>1, <2>2
    <3>2. q[i] = p[i] /\ p[i] = 255
      BY <1>1, <2>1, <3>1 DEF Lead
    <3> QED BY <3>2
  <2>4. ~validate_packet(q)
    BY <1>1, <2>1, <2>2, <2>3, LeadIsInvalid
  <2>5. Len(q) >= 5
    BY <1>1, <2>1, <2>2
  <2> QED BY <1>3, <2>3, <2>4, <2>5 DEF Settled
<1> QED BY <1>2, <1>5, <1>6, <1>7, <1>8, <1>9, <1>10, OtherPatterns

\* The pattern itself settles it, whatever was applied before.
LEMMA OversizedSettles ==
    ASSUME NEW p \in Packet, Len(p) >= 2, NEW k \in 1..3,
           k = 1 => (p[1] \div 16 = 8 => Len(p) >= 7)
    PROVE  Settled(oversized_remaining_length(p), k)
<1>1. PICK q : q = oversized_remaining_length(p)
  OBVIOUS
<1>2. q \in Packet /\ Len(q) = Len(p) + 4 /\ q[1] = p[1] /\ Lead(q)
  BY <1>1, RemainingLengthWritten
<1>3. Len(p) \in Nat
  BY PacketBytes
<1>4. Len(q) >= 6 /\ (k = 1 => (q[1] \div 16 = 8 => Len(q) >= 11))
  BY <1>2, <1>3
<1>5. ~validate_packet(q)
  BY <1>2, <1>4, LeadIsInvalid
<1> QED BY <1>1, <1>2, <1>4, <1>5 DEF Settled

-----------------------------------------------------------------------------
(* Valid packets *)

\* The remaining length, written: as many bytes as it takes, all but the last continued.
LEMMA Encoded ==
    ASSUME NEW n \in Nat, n < 128^3
    PROVE  \E c \in 1..3 : IsEncoding(encode_remaining_length(n), n, c)
<1> DEFINE T == {k \in 1..4 : n < 128^k}
           enc == encode_remaining_length(n)
           byte(i, c) == ((n \div 128^(i - 1)) % 128) + (IF i < c THEN 128 ELSE 0)
<1>1. T \in SUBSET Nat /\ T # {} /\ 3 \in T
  <2>1. 3 \in 1..4 /\ 1..4 \in SUBSET Nat
    OBVIOUS
  <2>2. 3 \in T
    BY <2>1, Zenon
  <2> QED BY <2>1, <2>2, Zenon
<1>2. PICK c \in T : c = Min(T) /\ \A m \in T : c <= m
  <2> HIDE DEF T
  <2> QED BY <1>1, MinOf
<1>3. c \in 1..3 /\ n < 128^c /\ \A m \in 1..3 : m < c => ~(n < 128^m)
  <2>1. c \in 1..4 /\ c <= 3 /\ n < 128^c
    BY <1>1, <1>2
  <2>2. \A m \in 1..3 : m < c => m \notin T
    <3> HIDE DEF T
    <3> QED BY <1>2, <2>1
  <2> QED BY <2>1, <2>2
<1>4. enc = [i \in 1..c |-> byte(i, c)]
  BY <1>2, Zenon DEF encode_remaining_length
<1> HIDE DEF T, enc
<1>5. /\ c = 1 => n < 128
      /\ c = 2 => n < 16384 /\ n >= 128
      /\ c = 3 => n < 2097152 /\ n >= 16384
  <2>1. /\ c = 1 => n < 128^1
        /\ c = 2 => n < 128^2 /\ ~(n < 128^1)
        /\ c = 3 => n < 128^3 /\ ~(n < 128^2)
    <3>1. 1 \in 1..3 /\ 2 \in 1..3 /\ 1 < 2 /\ 2 < 3
      OBVIOUS
    <3> QED BY <1>3, <3>1, Zenon
  <2> QED BY <2>1, Powers, SMT
<1>6. /\ 1 - 1 = 0 /\ 2 - 1 = 1 /\ 3 - 1 = 2
      /\ n \div 1 = n
  BY SMT
<1>7. /\ byte(1, c) = (n % 128) + (IF 1 < c THEN 128 ELSE 0)
      /\ byte(2, c) = ((n \div 128) % 128) + (IF 2 < c THEN 128 ELSE 0)
      /\ byte(3, c) = ((n \div 16384) % 128) + (IF 3 < c THEN 128 ELSE 0)
  BY <1>6, Powers, SMT
<1> HIDE DEF byte
<1>8. \A i \in 1..c : enc[i] = byte(i, c)
  BY <1>4
<1>9. \A i \in 1..c : enc[i] \in 0..255 /\ (enc[i] >= 128 <=> i < c)
  <2> TAKE i \in 1..c
  <2>1. i = 1 \/ i = 2 \/ i = 3
    BY <1>3
  <2>2. \A x \in Nat : x % 128 \in 0..127
    BY SMT
  <2>3. n \div 128 \in Nat /\ n \div 16384 \in Nat
    BY SMT
  <2> QED BY <1>3, <1>7, <1>8, <2>1, <2>2, <2>3, SMT
<1>10. enc \in Packet /\ Len(enc) = c
  <2>1. \A i \in 1..c : byte(i, c) \in Byte
    BY <1>8, <1>9 DEF Byte
  <2> QED BY <1>3, <1>4, <2>1 DEF Packet
<1>11. /\ c = 1 => enc[1] = n
       /\ c = 2 => enc[1] % 128 = n % 128 /\ enc[2] = n \div 128
       /\ c = 3 => /\ enc[1] % 128 = n % 128 /\ enc[2] % 128 = (n \div 128) % 128
                   /\ enc[3] = n \div 16384
  <2>1. \A x \in Nat : (x % 128) % 128 = x % 128 /\ ((x % 128) + 128) % 128 = x % 128
    BY SMT
  <2>2. (1 \in 1..c) /\ (c >= 2 => 2 \in 1..c) /\ (c = 3 => 3 \in 1..c)
    BY <1>3
  <2>3. CASE c = 1
    BY <1>5, <1>7, <1>8, <2>2, <2>3, SMT
  <2>4. CASE c = 2
    <3>1. enc[1] = (n % 128) + 128 /\ enc[2] = (n \div 128) % 128
      BY <1>7, <1>8, <2>2, <2>4, SMT
    <3>2. (n \div 128) % 128 = n \div 128
      BY <1>5, <2>4, SMT
    <3> QED BY <2>1, <2>4, <3>1, <3>2, SMT
  <2>5. CASE c = 3
    <3>1. /\ enc[1] = (n % 128) + 128 /\ enc[2] = ((n \div 128) % 128) + 128
          /\ enc[3] = (n \div 16384) % 128
      BY <1>7, <1>8, <2>2, <2>5, SMT
    <3>2. (n \div 16384) % 128 = n \div 16384 /\ n \div 128 \in Nat
      BY <1>5, <2>5, SMT
    <3> QED BY <2>1, <2>5, <3>1, <3>2, SMT
  <2> QED BY <1>3, <2>3, <2>4, <2>5
<1> QED BY <1>3, <1>9, <1>10, <1>11 DEF IsEncoding, enc

\* A number is the sum of its digits to the base of 128.
LEMMA Digits ==
    ASSUME NEW n \in Nat
    PROVE  /\ n = (n % 128) + (n \div 128) * 128
           /\ n = (n % 128) + ((n \div 128) % 128) * 128 + (n \div 16384) * 16384
<1>1. PICK a \in Nat, r \in 0..127 : a = n \div 128 /\ r = n % 128 /\ n = 128 * a + r
  BY SMT
<1>2. PICK b \in Nat, s \in 0..127 : b = a \div 128 /\ s = a % 128 /\ a = 128 * b + s
  BY SMT
<1>3. n = 16384 * b + (128 * s + r)
  BY <1>1, <1>2, SMT
<1>4. n \div 16384 = b
  <2>1. 128 * s + r \in 0..16383
    BY SMT
  <2> QED BY <1>3, <2>1, SMT
<1>5. n = r + a * 128
  BY <1>1, SMT
<1>6. n = r + s * 128 + b * 16384
  BY <1>3, SMT
<1> QED BY <1>1, <1>2, <1>4, <1>5, <1>6, SMT

\* A packet of a valid type, with the remaining length that it has, is valid.
LEMMA OpenedIsValid ==
    ASSUME NEW n \in Nat, NEW c \in 1..3, NEW e, IsEncoding(e, n, c),
           NEW b \in Byte, b \div 16 \notin {0, 15}, NEW p, Opened(p, b, e, c, n)
    PROVE  validate_packet(p)
<1>1. p \in Packet /\ Len(p) = 1 + c + n /\ p[1] = b /\ \A i \in 1..c : p[i + 1] = e[i]
  BY DEF Opened
<1>2. \A i \in 1..c : p[i + 1] \in 0..255 /\ (p[i + 1] >= 128 <=> i < c)
  <2> TAKE i \in 1..c
  <2>1. p[i + 1] = e[i]
    BY <1>1
  <2>2. e[i] \in 0..255 /\ (e[i] >= 128 <=> i < c)
    BY DEF IsEncoding
  <2> QED BY <2>1, <2>2
<1>3. c < Len(p) /\ Len(p) >= 2 /\ c \in 1..4
  BY <1>1
<1>4. LengthBytes(p) = c
  <2>1. StopsAt(p, c)
    <3>1. c \in 1..c /\ ~(c < c)
      OBVIOUS
    <3>2. ~(p[c + 1] >= 128)
      BY <1>2, <3>1
    <3> QED BY <1>3, <3>2 DEF StopsAt
  <2>2. \A m \in 1..4 : m < c => ~StopsAt(p, m)
    <3> SUFFICES ASSUME NEW m \in 1..4, m < c PROVE ~StopsAt(p, m)
      OBVIOUS
    <3>1. p[m + 1] >= 128 /\ m # 4 /\ m + 1 # Len(p)
      BY <1>1, <1>2
    <3> QED BY <3>1 DEF StopsAt
  <2> QED BY <1>1, <1>3, <2>1, <2>2, LengthBytesAre
<1>5. LengthValue(p, c) = n
  <2>1. /\ c = 1 => LengthValue(p, c) = Digit(p, 1)
        /\ c = 2 => LengthValue(p, c) = Digit(p, 1) + Digit(p, 2) * 128
        /\ c = 3 => LengthValue(p, c) = Digit(p, 1) + Digit(p, 2) * 128 + Digit(p, 3) * 16384
    BY <1>1, <1>3, LengthValueIs
  <2>2. \A i \in 1..c : Digit(p, i) = e[i] % 128 /\ e[i] \in 0..255 /\ (i = c => e[i] < 128)
    <3> SUFFICES ASSUME NEW i \in 1..c
                 PROVE  Digit(p, i) = e[i] % 128 /\ e[i] \in 0..255 /\ (i = c => e[i] < 128)
      OBVIOUS
    <3>1. e[i] \in 0..255 /\ (e[i] >= 128 <=> i < c)
      BY DEF IsEncoding
    <3>2. i = c => ~(i < c)
      OBVIOUS
    <3>3. PICK x \in 0..255 : x = e[i] /\ (i = c => ~(x >= 128))
      BY <3>1, <3>2
    <3> QED BY <1>1, <3>3 DEF Digit
  <2>3. \A x \in 0..255 : x < 128 => x % 128 = x
    OBVIOUS
  <2>4. CASE c = 1
    <3>1. 1 \in 1..c
      BY <2>4
    <3>2. e[1] = n
      BY <2>4 DEF IsEncoding
    <3>3. Digit(p, 1) = n
      BY <2>2, <2>3, <2>4, <3>1, <3>2
    <3> QED BY <2>1, <2>4, <3>3
  <2>5. CASE c = 2
    <3>1. 1 \in 1..c /\ 2 \in 1..c
      BY <2>5
    <3>2. e[1] % 128 = n % 128 /\ e[2] = n \div 128
      BY <2>5 DEF IsEncoding
    <3>3. Digit(p, 1) = n % 128 /\ Digit(p, 2) = n \div 128
      BY <2>2, <2>3, <2>5, <3>1, <3>2
    <3> QED BY <2>1, <2>5, <3>3, Digits, SMT
  <2>6. CASE c = 3
    <3>1. 1 \in 1..c /\ 2 \in 1..c /\ 3 \in 1..c
      BY <2>6
    <3>2. /\ e[1] % 128 = n % 128 /\ e[2] % 128 = (n \div 128) % 128
          /\ e[3] = n \div 16384
      BY <2>6, SMT DEF IsEncoding
    <3>3. /\ Digit(p, 1) = n % 128 /\ Digit(p, 2) = (n \div 128) % 128
          /\ Digit(p, 3) = n \div 16384
      BY <2>2, <2>3, <2>6, <3>1, <3>2, SMT
    <3> QED BY <2>1, <2>6, <3>3, Digits, SMT
  <2> QED BY <2>4, <2>5, <2>6
<1>6. ~Continues(p[c + 1])
  BY <1>2 DEF Continues
<1>7. c + 1 + n = Len(p)
  BY <1>1
<1>8. packet_type(p) \notin {0, 15}
  BY <1>1 DEF packet_type
<1> QED BY <1>3, <1>4, <1>5, <1>6, <1>7, <1>8, Zenon DEF validate_packet

\* A packet begins with its type and remaining length.
LEMMA Opens ==
    ASSUME NEW n \in Nat, NEW c \in 1..3, NEW e, IsEncoding(e, n, c), NEW b \in Byte
    PROVE  Opened(<<b>> \o e, b, e, c, 0)
<1>1. Sized(<<b>>, 1) /\ Sized(e, c) /\ <<b>>[1] = b /\ c \in Nat /\ 1 \in Nat
  BY DEF Sized, Packet, IsEncoding
<1>2. PICK p : p = <<b>> \o e
  OBVIOUS
<1>3. Sized(p, 1 + c) /\ Starts(p, <<b>>, 1) /\ Follows(p, e, 1, c)
  BY <1>1, <1>2, Prefixed, Zenon
<1>4. p[1] = b
  BY <1>1, <1>3 DEF Starts
<1>5. \A i \in 1..c : p[i + 1] = e[i]
  BY <1>3 DEF Follows
<1>6. Len(p) = 1 + c + 0 /\ p \in Packet
  BY <1>3 DEF Sized
<1> QED BY <1>2, <1>4, <1>5, <1>6 DEF Opened

\* And goes on with anything.
LEMMA OpenedGrows ==
    ASSUME NEW c \in 1..3, NEW e, NEW b, NEW k \in Nat, NEW p, Opened(p, b, e, c, k),
           NEW m \in Nat, NEW s, Sized(s, m), NEW n \in Nat, n = k + m, NEW q, q = p \o s
    PROVE  Opened(q, b, e, c, n) /\ Starts(q, p, 1 + c + k) /\ Follows(q, s, 1 + c + k, m)
<1>1. PICK l \in Nat : l = 1 + c + k
  OBVIOUS
<1>2. Sized(p, l)
  BY <1>1 DEF Opened, Sized
<1>3. Sized(q, l + m) /\ Starts(q, p, l) /\ Follows(q, s, l, m)
  BY <1>2, Prefixed, Zenon
<1>4. q[1] = b /\ \A i \in 1..c : q[i + 1] = e[i]
  <2>1. p[1] = b /\ \A i \in 1..c : p[i + 1] = e[i]
    BY DEF Opened
  <2>2. 1 \in 1..l /\ \A i \in 1..c : i + 1 \in 1..l
    BY <1>1
  <2> QED BY <1>3, <2>1, <2>2, Zenon DEF Starts
<1>5. Len(q) = 1 + c + n /\ q \in Packet
  BY <1>1, <1>3 DEF Sized
<1>6. Opened(q, b, e, c, n)
  BY <1>4, <1>5 DEF Opened
<1> QED BY <1>1, <1>3, <1>6, Zenon

\* No string is so long that the remaining length would need four bytes.
LEMMA ThreeBytesDo ==
    /\ \A x \in Word : 12 + x < 128^3
    /\ \A x, y \in Word, k \in {0, 2} : 2 + x + y + k < 128^3
    /\ \A m \in 1..10, x \in Word : 2 + m * (x + 3) < 128^3
<1>1. \A x \in Word : x \in Nat /\ x <= 65535
  BY SMT DEF Word
<1>2. \A x \in Word : 12 + x < 2097152
  BY <1>1, SMT
<1>3. \A x, y \in Word, k \in {0, 2} : 2 + x + y + k < 2097152
  BY <1>1, SMT
<1>4. \A m \in 1..10, x \in Word : 2 + m * (x + 3) < 2097152
  <2> SUFFICES ASSUME NEW m \in 1..10, NEW x \in Nat, x <= 65535
               PROVE  2 + m * (x + 3) < 2097152
    BY <1>1, SMT
  <2>1. \/ m = 1 \/ m = 2 \/ m = 3 \/ m = 4 \/ m = 5
        \/ m = 6 \/ m = 7 \/ m = 8 \/ m = 9 \/ m = 10
    BY SMT
  <2> QED BY <2>1, SMT
<1> QED BY <1>2, <1>3, <1>4, Powers, SMT

\* The remaining length of a valid packet.
LEMMA EncodedShort ==
    ASSUME NEW n \in Nat, n < 128^3
    PROVE  \E c \in 1..3 : IsEncoding(encode_remaining_length(n), n, c)
  BY Encoded, Zenon

\* The numbers drawn for fields of two bytes fit them.
LEMMA WordsAreNumbers == Words \subseteq Word /\ \A x \in Word : x \in Nat
<1>1. Words \subseteq Word
  BY MqttAssumption, Zenon
<1>2. \A x \in Word : x \in Nat
  BY DEF Word
<1> QED BY <1>1, <1>2

\* A CONNECT is valid, and its name begins at the fifth, sixth or seventh byte.
LEMMA ConnectIsGood ==
    ASSUME NEW p \in generate_connect_packet
    PROVE  GoodStart(p)
<1>1. PICK id \in ClientIds, keep_alive \in Words, connect_flags \in {0, 2} :
          p = connect(id, keep_alive, connect_flags)
  BY DEF generate_connect_packet
<1>2. PICK l \in Nat : l = Len(id) /\ l \in Word /\ Sized(id, l)
  <2>1. id \in Packet /\ Len(id) \in Word
    BY Strings
  <2> QED BY <2>1, WordsAreNumbers DEF Sized
<1>3. PICK n \in Nat : n = 12 + l
  OBVIOUS
<1>4. n < 128^3
  BY <1>2, <1>3, ThreeBytesDo, Zenon
<1>5. PICK c \in 1..3 : IsEncoding(encode_remaining_length(n), n, c)
  BY <1>4, EncodedShort, Zenon
<1>6. PICK e, m, v, a, i, h :
          /\ e = encode_remaining_length(n) /\ m = MQTT /\ v = <<4, connect_flags>>
          /\ a = be(keep_alive) /\ i = be(Len(id)) /\ h = be(4)
  OBVIOUS
<1>7. Sized(h, 2) /\ Sized(m, 4) /\ Sized(v, 2) /\ Sized(a, 2) /\ Sized(i, 2)
  <2>1. keep_alive \in Nat /\ 4 \in Nat
    BY WordsAreNumbers
  <2>2. be(4) \in Packet /\ Len(be(4)) = 2 /\ be(keep_alive) \in Packet /\ Len(be(keep_alive)) = 2
    BY <2>1, BeBytes
  <2>3. be(Len(id)) \in Packet /\ Len(be(Len(id))) = 2
    BY <1>2, BeBytes
  <2>4. m \in Packet /\ Len(m) = 4 /\ v \in Packet /\ Len(v) = 2
    BY <1>6 DEF MQTT, Packet, Byte
  <2> QED BY <1>6, <2>2, <2>3, <2>4 DEF Sized
<1>8. PICK p1, p2, p3, p4, p5, p6 :
          /\ p1 = <<16>> \o e /\ p2 = p1 \o h /\ p3 = p2 \o m /\ p4 = p3 \o v
          /\ p5 = p4 \o a /\ p6 = p5 \o i
  OBVIOUS
<1>9. p = p6 \o id
  BY <1>1, <1>2, <1>3, <1>6, <1>8, Zenon DEF connect
<1>10. PICK b \in Byte : b = 16 /\ b \div 16 \notin {0, 15}
  BY DEF Byte
<1>11. IsEncoding(e, n, c)
  BY <1>5, <1>6, Zenon
<1>12. PICK six \in Nat, eight \in Nat, ten \in Nat, twelve \in Nat :
           /\ six = 6 /\ eight = 8 /\ ten = 10 /\ twelve = 12
           /\ six = 2 + 4 /\ eight = six + 2 /\ ten = eight + 2 /\ twelve = ten + 2
           /\ n = twelve + l /\ 0 \in Nat /\ 2 \in Nat /\ 2 = 0 + 2 /\ 4 \in Nat
  BY <1>3
<1>13. Opened(p1, b, e, c, 0)
  BY <1>8, <1>10, <1>11, Opens, Zenon
<1>14. Opened(p2, b, e, c, 2)
  BY <1>7, <1>8, <1>12, <1>13, OpenedGrows, Zenon
<1>15. Opened(p3, b, e, c, six) /\ Follows(p3, m, 1 + c + 2, 4)
  BY <1>7, <1>8, <1>12, <1>14, OpenedGrows, Zenon
<1>16. Opened(p4, b, e, c, eight) /\ Starts(p4, p3, 1 + c + six) /\ Follows(p4, v, 1 + c + six, 2)
  <2>1. eight = six + 2 /\ eight \in Nat /\ six \in Nat /\ 2 \in Nat
    BY <1>12
  <2>2. Opened(p3, b, e, c, six) /\ Sized(v, 2) /\ p4 = p3 \o v
    BY <1>7, <1>8, <1>15, Zenon
  <2> QED BY <2>1, <2>2, OpenedGrows, Zenon
<1>17. Opened(p5, b, e, c, ten) /\ Starts(p5, p4, 1 + c + eight)
  <2>1. ten = eight + 2 /\ ten \in Nat /\ eight \in Nat /\ 2 \in Nat
    BY <1>12
  <2>2. Opened(p4, b, e, c, eight) /\ Sized(a, 2) /\ p5 = p4 \o a
    BY <1>7, <1>8, <1>16, Zenon
  <2> QED BY <2>1, <2>2, OpenedGrows, Zenon
<1>18. Opened(p6, b, e, c, twelve) /\ Starts(p6, p5, 1 + c + ten)
  <2>1. twelve = ten + 2 /\ twelve \in Nat /\ ten \in Nat /\ 2 \in Nat
    BY <1>12
  <2>2. Opened(p5, b, e, c, ten) /\ Sized(i, 2) /\ p6 = p5 \o i
    BY <1>7, <1>8, <1>17, Zenon
  <2> QED BY <2>1, <2>2, OpenedGrows, Zenon
<1>19. Opened(p, b, e, c, n) /\ Starts(p, p6, 1 + c + twelve)
  <2>1. n = twelve + l /\ twelve \in Nat /\ n \in Nat /\ l \in Nat
    BY <1>12
  <2>2. Opened(p6, b, e, c, twelve) /\ Sized(id, l) /\ p = p6 \o id
    BY <1>2, <1>9, <1>18, Zenon
  <2> QED BY <2>1, <2>2, OpenedGrows, Zenon
<1>20. validate_packet(p)
  BY <1>10, <1>11, <1>19, OpenedIsValid, Zenon
<1>21. p[10] # 77
  <2>1. ten \in 1..(1 + c + eight) /\ ten \in 1..(1 + c + ten) /\ ten \in 1..(1 + c + twelve)
    BY <1>12
  <2>2. p[ten] = p4[ten]
    <3>1. p[ten] = p6[ten]
      BY <1>19, <2>1, Zenon DEF Starts
    <3>2. p6[ten] = p5[ten]
      BY <1>18, <2>1, Zenon DEF Starts
    <3>3. p5[ten] = p4[ten]
      BY <1>17, <2>1, Zenon DEF Starts
    <3> QED BY <3>1, <3>2, <3>3
  <2>3. v[1] = 4 /\ v[2] \in {0, 2} /\ m[4] = 84
    BY <1>6 DEF MQTT
  <2>4. 1 \in 1..2 /\ 2 \in 1..2 /\ 4 \in 1..4
    OBVIOUS
  <2>5. CASE c = 1
    <3>1. 1 + c + six + 2 = ten
      BY <2>5, <1>12
    <3>2. p4[ten] = v[2]
      BY <1>16, <2>4, <3>1, Zenon DEF Follows
    <3> QED BY <1>12, <2>2, <2>3, <3>2
  <2>6. CASE c = 2
    <3>1. 1 + c + six + 1 = ten
      BY <2>6, <1>12
    <3>2. p4[ten] = v[1]
      BY <1>16, <2>4, <3>1, Zenon DEF Follows
    <3> QED BY <1>12, <2>2, <2>3, <3>2
  <2>7. CASE c = 3
    <3>1. 1 + c + 2 + 4 = ten /\ ten \in 1..(1 + c + six)
      BY <2>7, <1>12
    <3>2. p4[ten] = p3[ten]
      BY <1>16, <3>1, Zenon DEF Starts
    <3>3. p3[ten] = m[4]
      BY <1>15, <2>4, <3>1, Zenon DEF Follows
    <3> QED BY <1>12, <2>2, <2>3, <3>2, <3>3
  <2> QED BY <2>5, <2>6, <2>7
<1>22. p \in Packet /\ p[1] = 16 /\ Len(p) >= 2
  BY <1>10, <1>19 DEF Opened
<1>23. p[1] \div 16 # 8
  BY <1>10, <1>19 DEF Opened
<1> QED BY <1>20, <1>21, <1>22, <1>23, Zenon DEF GoodStart, NoName

\* A PUBLISH is valid.
LEMMA PublishIsGood ==
    ASSUME NEW p \in generate_publish_packet
    PROVE  GoodStart(p)
<1>1. PICK topic \in Topics, payload \in Payloads, id \in Words,
           qos \in 0..2, dup \in {0, 1}, retain \in {0, 1} :
          p = publish(topic, IF qos = 0 THEN << >> ELSE be(id), payload,
                      8 * dup + 2 * qos + retain)
  BY DEF generate_publish_packet
<1>0. PICK r : r = (IF qos = 0 THEN << >> ELSE be(id))
  OBVIOUS
<1>2. PICK k \in {0, 2} : Sized(r, k)
  <2>1. be(id) \in Packet /\ Len(be(id)) = 2
    BY BeBytes, WordsAreNumbers
  <2>2. << >> \in Packet /\ Len(<< >>) = 0
    BY DEF Packet
  <2>3. Sized(be(id), 2) /\ Sized(<< >>, 0)
    BY <2>1, <2>2 DEF Sized
  <2> QED BY <1>0, <2>3
<1>3. PICK t \in Nat, l \in Nat : /\ t = Len(topic) /\ t \in Word /\ Sized(topic, t)
                                  /\ l = Len(payload) /\ l \in Word /\ Sized(payload, l)
  <2>1. topic \in Packet /\ Len(topic) \in Word /\ payload \in Packet /\ Len(payload) \in Word
    BY Strings
  <2> QED BY <2>1, WordsAreNumbers DEF Sized
<1>4. PICK n \in Nat : n = 2 + t + l + k
  OBVIOUS
<1>5. n < 128^3
  BY <1>3, <1>4, ThreeBytesDo, Zenon
<1>6. PICK c \in 1..3 : IsEncoding(encode_remaining_length(n), n, c)
  BY <1>5, EncodedShort, Zenon
<1>7. PICK publish_flags : publish_flags = 8 * dup + 2 * qos + retain
  OBVIOUS
<1>8. PICK b \in Byte : b = 48 + publish_flags /\ b \div 16 = 3
  BY <1>7 DEF Byte
<1>9. PICK e, h : e = encode_remaining_length(n) /\ h = be(Len(topic)) /\ Sized(h, 2)
  BY <1>3, BeBytes DEF Sized
<1>10. PICK p1, p2, p3, p4 :
           p1 = <<b>> \o e /\ p2 = p1 \o h /\ p3 = p2 \o topic /\ p4 = p3 \o r
  OBVIOUS
<1>11. p = p4 \o payload
  <2>1. Len(r) = k
    BY <1>2 DEF Sized
  <2>2. p = publish(topic, r, payload, publish_flags)
    BY <1>1, <1>0, <1>7, Zenon
  <2> QED BY <1>3, <1>4, <1>8, <1>9, <1>10, <2>1, <2>2, Zenon DEF publish
<1>12. IsEncoding(e, n, c)
  BY <1>6, <1>9, Zenon
<1>13. Opened(p1, b, e, c, 0)
  BY <1>10, <1>12, Opens, Zenon
<1>14. /\ 0 \in Nat /\ 2 \in Nat /\ 2 = 0 + 2 /\ 2 + t \in Nat /\ k \in Nat
       /\ (2 + t) + k \in Nat /\ n = ((2 + t) + k) + l
  BY <1>4
<1>15. Opened(p2, b, e, c, 2)
  BY <1>9, <1>10, <1>13, <1>14, OpenedGrows, Zenon
<1>16. Opened(p3, b, e, c, 2 + t)
  BY <1>3, <1>10, <1>14, <1>15, OpenedGrows, Zenon
<1>17. Opened(p4, b, e, c, (2 + t) + k)
  BY <1>2, <1>10, <1>14, <1>16, OpenedGrows, Zenon
<1>18. Opened(p, b, e, c, n)
  BY <1>3, <1>11, <1>14, <1>17, OpenedGrows, Zenon
<1>19. b \div 16 \notin {0, 15} /\ b # 16 /\ b \div 16 # 8
  BY <1>8
<1>20. validate_packet(p)
  BY <1>12, <1>18, <1>19, OpenedIsValid, Zenon
<1>21. p \in Packet /\ p[1] = b /\ Len(p) >= 2
  BY <1>18 DEF Opened
<1> QED BY <1>19, <1>20, <1>21, Zenon DEF GoodStart, NoName

\* The filters of a SUBSCRIBE: one of three bytes at least, and not too many.
LEMMA FiltersFit ==
    ASSUME NEW m \in 1..10, NEW topics \in [1..m -> Topics], NEW qos \in 0..2
    PROVE  LET F == FlattenSeq([i \in DOMAIN topics |-> subscription(topics[i], qos)])
           IN  F \in Packet /\ 3 <= Len(F) /\ 2 + Len(F) < 128^3
<1>1. PICK ss : ss = [i \in DOMAIN topics |-> subscription(topics[i], qos)]
  OBVIOUS
<1>2. PICK top \in Word : \A w \in Word : w <= top
  <2>1. 65535 \in Word /\ \A w \in Word : w <= 65535
    BY SMT DEF Word
  <2> QED BY <2>1, SMT
<1>3. PICK hi \in Nat : hi = top + 3
  BY WordsAreNumbers
<1>4. \A i \in 1..m : /\ subscription(topics[i], qos) \in Packet
                      /\ 3 <= Len(subscription(topics[i], qos))
                      /\ Len(subscription(topics[i], qos)) <= hi
  <2> TAKE i \in 1..m
  <2>1. PICK t : t = topics[i] /\ t \in Packet /\ Len(t) \in Word
    BY Strings
  <2>2. PICK k \in Nat : k = Len(t) /\ k + 3 <= hi
    BY <1>2, <1>3, <2>1, WordsAreNumbers
  <2>3. Sized(be(Len(t)), 2) /\ Sized(t, k) /\ Sized(<<qos>>, 1)
    <3>1. be(Len(t)) \in Packet /\ Len(be(Len(t))) = 2
      BY <2>2, BeBytes
    <3>2. <<qos>> \in Packet /\ Len(<<qos>>) = 1
      BY DEF Packet, Byte
    <3> QED BY <2>1, <2>2, <3>1, <3>2 DEF Sized
  <2>4. 1 \in Nat /\ 2 \in Nat /\ 2 + k \in Nat
    OBVIOUS
  <2>5. Sized(be(Len(t)) \o t, 2 + k)
    BY <2>3, <2>4, Prefixed, Zenon
  <2>6. Sized(be(Len(t)) \o t \o <<qos>>, (2 + k) + 1)
    BY <2>3, <2>4, <2>5, Prefixed, Zenon
  <2>7. Sized(subscription(topics[i], qos), (2 + k) + 1)
    BY <2>1, <2>6, Zenon DEF subscription
  <2>8. 3 <= (2 + k) + 1 /\ (2 + k) + 1 <= hi
    BY <2>2
  <2> QED BY <2>7, <2>8 DEF Sized
<1>5. ss \in Seq(Packet) /\ Len(ss) = m /\ \A i \in 1..m : 3 <= Len(ss[i]) /\ Len(ss[i]) <= hi
  BY <1>1, <1>4
<1>6. PICK F : F = FlattenSeq(ss)
  OBVIOUS
<1>7. F \in Packet
  BY <1>5, <1>6, FlattenIsSeq DEF Packet
<1>8. 3 <= Len(F) /\ Len(F) <= m * hi
  <2>1. ss \in Seq(Seq(Byte)) /\ m \in Nat \ {0} /\ m = Len(ss) /\ 3 \in Nat
    BY <1>5 DEF Packet
  <2> QED BY <1>5, <1>6, <2>1, FlattenSize, Zenon
<1>9. 2 + Len(F) < 128^3
  <2>1. 2 + m * hi < 128^3
    BY <1>3, ThreeBytesDo, Zenon
  <2>2. PICK v \in Nat, k \in Nat, top_ \in Nat : v = m * hi /\ k = Len(F) /\ top_ = 128^3
    <3>1. m * hi \in Nat
      BY SMT
    <3>2. Len(F) \in Nat
      BY <1>7, PacketBytes
    <3>3. 128^3 \in Nat
      BY Powers
    <3> QED BY <3>1, <3>2, <3>3
  <2> QED BY <1>8, <2>1, <2>2
<1> QED BY <1>1, <1>6, <1>7, <1>8, <1>9

\* A SUBSCRIBE is valid.
LEMMA SubscribeIsGood ==
    ASSUME NEW p \in generate_subscribe_packet
    PROVE  GoodStart(p)
<1> DEFINE filters(topics, qos) ==
               FlattenSeq([i \in DOMAIN topics |-> subscription(topics[i], qos)])
<1>1. PICK topics \in UNION {[1..m -> Topics] : m \in 1..MaxFilters}, qos \in 0..2, id \in Words :
          p = subscribe(filters(topics, qos), id)
  BY DEF generate_subscribe_packet
<1>2. PICK m \in 1..10 : topics \in [1..m -> Topics]
  <2>1. PICK m \in 1..MaxFilters : topics \in [1..m -> Topics]
    BY <1>1
  <2>2. MaxFilters \in 1..10
    BY MqttAssumption, Zenon
  <2>3. m \in 1..10
    BY <2>2
  <2> QED BY <2>1, <2>3
<1>3. PICK F : F = filters(topics, qos) /\ F \in Packet /\ 3 <= Len(F) /\ 2 + Len(F) < 128^3
  BY <1>2, FiltersFit, Zenon
<1> HIDE DEF filters
<1>4. PICK k \in Nat : k = Len(F) /\ k >= 3 /\ Sized(F, k)
  BY <1>3, PacketBytes DEF Sized
<1>5. PICK n \in Nat : n = 2 + k
  OBVIOUS
<1>6. n < 128^3
  BY <1>3, <1>4, <1>5, Zenon
<1>7. PICK c \in 1..3 : IsEncoding(encode_remaining_length(n), n, c)
  BY <1>6, EncodedShort, Zenon
<1>8. PICK i : i = be(id) /\ Sized(i, 2)
  BY BeBytes, WordsAreNumbers DEF Sized
<1>9. PICK b \in Byte : b = 130 /\ b \div 16 = 8
  BY DEF Byte
<1>10. PICK e, p1, p2 : e = encode_remaining_length(n) /\ p1 = <<b>> \o e /\ p2 = p1 \o i
  OBVIOUS
<1>11. p = p2 \o F
  BY <1>1, <1>3, <1>4, <1>5, <1>8, <1>9, <1>10, Zenon DEF subscribe
<1>12. IsEncoding(e, n, c)
  BY <1>7, <1>10, Zenon
<1>13. 0 \in Nat /\ 2 \in Nat /\ 2 = 0 + 2
  OBVIOUS
<1>14. Opened(p1, b, e, c, 0)
  BY <1>10, <1>12, Opens, Zenon
<1>15. Opened(p2, b, e, c, 2)
  BY <1>8, <1>10, <1>13, <1>14, OpenedGrows, Zenon
<1>16. Opened(p, b, e, c, n)
  BY <1>4, <1>5, <1>11, <1>13, <1>15, OpenedGrows, Zenon
<1>17. b \div 16 \notin {0, 15} /\ b # 16
  BY <1>9
<1>18. validate_packet(p)
  BY <1>12, <1>16, <1>17, OpenedIsValid, Zenon
<1>19. p \in Packet /\ p[1] = b /\ Len(p) >= 7 /\ Len(p) >= 2
  BY <1>4, <1>5, <1>16 DEF Opened
<1> QED BY <1>17, <1>18, <1>19, Zenon DEF GoodStart, NoName

\* A PINGREQ is valid.
LEMMA PingIsGood == GoodStart(<<192, 0>>)
<1>1. PICK p : p = <<192, 0>>
  OBVIOUS
<1>2. p \in Packet /\ Len(p) = 2 /\ p[1] = 192 /\ p[2] = 0
  BY <1>1 DEF Packet, Byte
<1>3. PICK n \in 1..4 : n = LengthBytes(p) /\ n < Len(p)
  <2>1. p \in Packet /\ Len(p) >= 2
    BY <1>2
  <2> QED BY <2>1, LengthBytesIs, Zenon
<1>4. n = 1 /\ 1 \in 1..4 /\ 1 < Len(p)
  BY <1>2, <1>3
<1>5. LengthValue(p, 1) = 0
  <2>1. LengthValue(p, 1) = Digit(p, 1)
    BY <1>2, <1>4, LengthValueIs, SMT
  <2> QED BY <1>2, <2>1 DEF Digit
<1>6. ~Continues(p[1 + 1]) /\ 1 + 1 + LengthValue(p, 1) = Len(p)
  BY <1>2, <1>5 DEF Continues
<1>7. packet_type(p) \notin {0, 15} /\ packet_type(p) # 8 /\ p[1] # 16 /\ Len(p) >= 2
  BY <1>2 DEF packet_type
<1>8. validate_packet(p)
  BY <1>3, <1>4, <1>6, <1>7, Zenon DEF validate_packet
<1> QED BY <1>1, <1>2, <1>7, <1>8, Zenon DEF GoodStart, NoName, packet_type

\* Whatever is drawn for it, a valid packet passes the validator.
LEMMA ValidIsGood == ASSUME NEW p \in generate_valid_packet PROVE GoodStart(p)
  BY ConnectIsGood, PublishIsGood, SubscribeIsGood, PingIsGood DEF generate_valid_packet

-----------------------------------------------------------------------------
(* The life of a test case *)

\* What generation without a mutation makes: at first a valid packet; once the remaining
\* length was overwritten, one that stays invalid for the patterns that are left; and none
\* with the name of the protocol where the pattern looks for it.
Generated(p, patterns) ==
    /\ patterns = << >> => GoodStart(p)
    /\ "OversizedRemainingLength" \in ToSet(patterns) => Settled(p, Len(patterns))
    /\ ToSet(patterns) \subseteq HeadKeeping => NoName(p)

\* A packet of less than two bytes has lost one to every mutation.
PacketInv ==
    /\ left \in 0..PatternBound /\ applied \in Seq(MalformedPatterns)
    /\ Len(applied) + left <= PatternBound
    /\ mutations \in 0..MutationBound /\ (mutations # 0 => left = 0)
    /\ packet = Panic => mutations >= 3
    /\ packet # Panic => packet \in Packet /\ Len(packet) + mutations >= 2
    /\ mutations = 0 => Generated(packet, applied)

\* Patterns keep what generation has made of a packet of two bytes at least.
LEMMA GeneratedKeeps ==
    ASSUME NEW p \in Packet, Len(p) >= 2,
           NEW patterns \in Seq(MalformedPatterns), Len(patterns) <= 2,
           Generated(p, patterns),
           NEW pattern \in MalformedPatterns, NEW q \in mqtt_apply_pattern(p, pattern)
    PROVE  q \in Packet /\ Len(q) >= 2 /\ Generated(q, Append(patterns, pattern))
<1>1. /\ q \in Packet /\ (Len(q) >= Len(p) \/ Len(q) >= 3)
      /\ pattern \in HeadKeeping /\ NoName(p) => NoName(q)
  <2>1. p # << >>
    BY DEF Packet
  <2> QED BY <2>1, PatternKeeps
<1>2. Len(p) \in Nat /\ Len(q) \in Nat
  BY <1>1, PacketBytes
<1>3. PICK k \in 0..2 : k = Len(patterns)
  <2>1. PICK k \in Nat : k = Len(patterns)
    OBVIOUS
  <2>2. k \in 0..2
    BY <2>1
  <2> QED BY <2>1, <2>2
<1>4. /\ Append(patterns, pattern) \in Seq(MalformedPatterns)
      /\ Append(patterns, pattern) # << >> /\ Len(Append(patterns, pattern)) = k + 1
  BY <1>3, AppendProperties
<1>5. ToSet(Append(patterns, pattern)) = ToSet(patterns) \cup {pattern}
  BY AppendedSet
<1>6. ASSUME "OversizedRemainingLength" \in ToSet(patterns) \cup {pattern}
      PROVE  Settled(q, k + 1)
  <2>1. CASE "OversizedRemainingLength" \in ToSet(patterns)
    <3>1. Settled(p, k)
      BY <1>3, <2>1 DEF Generated
    <3>2. k # 0
      <4>1. PICK i \in DOMAIN patterns : patterns[i] = "OversizedRemainingLength"
        BY <2>1, Zenon DEF ToSet
      <4>2. DOMAIN patterns = 1..k
        BY <1>3
      <4> QED BY <4>1, <4>2
    <3>3. k \in 1..2
      BY <3>2
    <3> QED BY <3>1, <3>3, SettledStays
  <2>2. CASE pattern = "OversizedRemainingLength"
    <3>1. q = oversized_remaining_length(p)
      BY <2>2, Zenon DEF mqtt_apply_pattern
    <3>2. k + 1 \in 1..3
      OBVIOUS
    <3>3. k + 1 = 1 => (p[1] \div 16 = 8 => Len(p) >= 7)
      <4> SUFFICES ASSUME k = 0 PROVE p[1] \div 16 = 8 => Len(p) >= 7
        OBVIOUS
      <4>1. patterns = << >>
        BY <1>3
      <4> QED BY <4>1 DEF Generated, GoodStart
    <3> QED BY <3>1, <3>2, <3>3, OversizedSettles
  <2> QED BY <1>6, <2>1, <2>2
<1>7. ASSUME ToSet(patterns) \cup {pattern} \subseteq HeadKeeping PROVE NoName(q)
  <2>1. pattern \in HeadKeeping /\ ToSet(patterns) \subseteq HeadKeeping
    BY <1>7
  <2>2. NoName(p)
    BY <2>1 DEF Generated
  <2> QED BY <1>1, <2>1, <2>2
<1>8. Generated(q, Append(patterns, pattern))
  BY <1>4, <1>5, <1>6, <1>7, Zenon DEF Generated
<1> QED BY <1>1, <1>2, <1>8

\* A mutation takes a byte away at most, and only the mutation of an empty packet panics.
LEMMA MutationKeeps ==
    ASSUME NEW p \in Packet, NEW q \in mqtt_mutate_packet(p)
    PROVE  (p = << >> /\ q = Panic) \/ (q \in Packet /\ (Len(q) + 1 >= Len(p) \/ Len(q) >= 3))
<1>1. CASE q \in common_mutations(p)
  BY <1>1, CommonMutationKeeps
<1>2. ASSUME NEW pattern \in MalformedPatterns, q \in mqtt_apply_pattern(p, pattern)
      PROVE  (p = << >> /\ q = Panic) \/ (q \in Packet /\ (Len(q) + 1 >= Len(p) \/ Len(q) >= 3))
  <2>1. (p = << >> /\ q = Panic) \/ (q \in Packet /\ (Len(q) >= Len(p) \/ Len(q) >= 3))
    BY <1>2, PatternKeeps
  <2>2. Len(p) \in Nat /\ (q \in Packet => Len(q) \in Nat)
    BY PacketBytes
  <2> QED BY <2>1, <2>2
<1> QED BY <1>1, <1>2 DEF mqtt_mutate_packet

\* The invariant holds of the valid packet, and is kept by every pattern and mutation.
LEMMA PacketInvAlways == Spec => []PacketInv
<1>0. PatternBound \in 0..3 /\ MutationBound \in Nat /\ Panic \notin Packet
  BY MqttAssumption, DrawsAssumption, Zenon DEF Packet
<1>1. Init => PacketInv
  <2> SUFFICES ASSUME Init PROVE PacketInv
    OBVIOUS
  <2>1. /\ packet \in generate_valid_packet /\ left \in 0..PatternBound
        /\ applied = << >> /\ mutations = 0
    BY DEF Init
  <2>2. GoodStart(packet)
    BY <2>1, ValidIsGood
  <2>3. packet \in Packet /\ Len(packet) >= 2 /\ NoName(packet)
    BY <2>2 DEF GoodStart
  <2>4. ToSet(applied) = {} /\ applied \in Seq(MalformedPatterns) /\ Len(applied) = 0
    BY <2>1 DEF ToSet
  <2>5. Generated(packet, applied)
    BY <2>2, <2>3, <2>4, Zenon DEF Generated
  <2>6. packet # Panic
    BY <1>0, <2>3
  <2>7. Len(packet) + mutations >= 2
    BY <2>1, <2>3, PacketBytes
  <2>8. Len(applied) + left <= PatternBound /\ mutations \in 0..MutationBound
    BY <1>0, <2>1, <2>4
  <2> QED BY <2>1, <2>3, <2>4, <2>5, <2>6, <2>7, <2>8, Zenon DEF PacketInv
<1>2. PacketInv /\ [Next]_vars => PacketInv'
  <2> SUFFICES ASSUME PacketInv, [Next]_vars PROVE PacketInv'
    OBVIOUS
  <2>1. ASSUME NEW pattern \in MalformedPatterns, ApplyPattern(pattern) PROVE PacketInv'
    <3>1. /\ packet # Panic /\ left > 0
          /\ packet' \in mqtt_apply_pattern(packet, pattern) /\ left' = left - 1
          /\ applied' = Append(applied, pattern) /\ mutations' = mutations
      BY <2>1 DEF ApplyPattern
    <3>2. /\ left \in 0..PatternBound /\ applied \in Seq(MalformedPatterns)
          /\ Len(applied) + left <= PatternBound /\ mutations = 0
          /\ packet \in Packet /\ Len(packet) >= 2 /\ Generated(packet, applied)
      <4>1. /\ left \in 0..PatternBound /\ applied \in Seq(MalformedPatterns)
            /\ Len(applied) + left <= PatternBound
            /\ packet \in Packet /\ Len(packet) + mutations >= 2
        BY <3>1, Zenon DEF PacketInv
      <4>2. mutations = 0
        BY <1>0, <3>1, <4>1 DEF PacketInv
      <4>3. Len(packet) >= 2
        BY <4>1, <4>2, PacketBytes
      <4> QED BY <4>1, <4>2, <4>3, Zenon DEF PacketInv
    <3>3. Len(applied) \in Nat /\ Len(applied) <= 2
      BY <1>0, <3>1, <3>2
    <3>4. PICK p, q : p = packet /\ q = packet'
      OBVIOUS
    <3>5. q \in Packet /\ Len(q) >= 2 /\ Generated(q, Append(applied, pattern))
      BY <3>1, <3>2, <3>3, <3>4, GeneratedKeeps, Zenon
    <3>6. applied' \in Seq(MalformedPatterns) /\ Len(applied') = Len(applied) + 1
      BY <3>1, <3>2, AppendProperties
    <3>7. left' \in 0..PatternBound /\ Len(applied') + left' <= PatternBound
      BY <1>0, <3>1, <3>2, <3>3, <3>6
    <3>8. mutations' \in 0..MutationBound /\ mutations' = 0
      BY <1>0, <3>1, <3>2
    <3>9. packet' # Panic /\ packet' \in Packet
      BY <1>0, <3>4, <3>5
    <3>10. Len(packet') + mutations' >= 2
      BY <3>4, <3>5, <3>8, PacketBytes
    <3>11. Generated(packet', applied')
      BY <3>1, <3>4, <3>5
    <3> QED BY <3>6, <3>7, <3>8, <3>9, <3>10, <3>11, Zenon DEF PacketInv
  <2>2. CASE MutatePacket
    <3>1. /\ packet # Panic /\ left = 0 /\ mutations + Len(applied) < MutationBound
          /\ packet' \in mqtt_mutate_packet(packet) /\ mutations' = mutations + 1
          /\ left' = left /\ applied' = applied
      BY <2>2 DEF MutatePacket
    <3>2. PICK p, q : p = packet /\ q = packet'
      OBVIOUS
    <3>3. PICK m \in Nat : m = mutations /\ p \in Packet /\ Len(p) + m >= 2
      <4>1. mutations \in Nat
        BY <1>0 DEF PacketInv
      <4>2. packet \in Packet /\ Len(packet) + mutations >= 2
        BY <3>1 DEF PacketInv
      <4> QED BY <3>2, <4>1, <4>2, Zenon
    <3>4. /\ left \in 0..PatternBound /\ applied \in Seq(MalformedPatterns)
          /\ Len(applied) + left <= PatternBound
      BY DEF PacketInv
    <3>5. (p = << >> /\ q = Panic) \/ (q \in Packet /\ (Len(q) + 1 >= Len(p) \/ Len(q) >= 3))
      BY <3>1, <3>2, <3>3, MutationKeeps, Zenon
    <3>6. q = Panic => m + 1 >= 3
      <4>1. q = Panic => p = << >>
        BY <1>0, <3>5
      <4>2. p = << >> => m >= 2
        <5>1. p = << >> => Len(p) = 0
          OBVIOUS
        <5> QED BY <3>3, <5>1
      <4> QED BY <4>1, <4>2
    <3>7. q # Panic => q \in Packet /\ Len(q) + (m + 1) >= 2
      <4> SUFFICES ASSUME q # Panic PROVE q \in Packet /\ Len(q) + (m + 1) >= 2
        OBVIOUS
      <4>1. q \in Packet /\ (Len(q) + 1 >= Len(p) \/ Len(q) >= 3)
        BY <3>5
      <4>2. Len(q) \in Nat /\ Len(p) \in Nat
        BY <3>3, <4>1, PacketBytes
      <4> QED BY <3>3, <4>1, <4>2
    <3>8. mutations' = m + 1 /\ mutations' \in 0..MutationBound /\ mutations' # 0
      <4>1. Len(applied) \in Nat
        BY <3>4
      <4> QED BY <1>0, <3>1, <3>3, <4>1
    <3>9. left' = 0 /\ left' \in 0..PatternBound /\ applied' \in Seq(MalformedPatterns)
          /\ Len(applied') + left' <= PatternBound
      BY <3>1, <3>4
    <3>10. /\ packet' = Panic => mutations' >= 3
           /\ packet' # Panic => packet' \in Packet /\ Len(packet') + mutations' >= 2
      BY <3>2, <3>6, <3>7, <3>8
    <3> QED BY <3>8, <3>9, <3>10, Zenon DEF PacketInv
  <2>3. CASE UNCHANGED vars
    BY <2>3, Zenon DEF vars, PacketInv
  <2> QED BY <2>1, <2>2, <2>3 DEF Next
<1> QED BY <1>1, <1>2, PTL DEF Spec

\* A case is bytes or a panic, and the counters stay within their bounds
\* (mqtt.rs:232-321, protocols/mod.rs:78-123).
THEOREM TypeCorrect == Spec => []TypeOK
<1>1. PacketInv => TypeOK
  <2> SUFFICES ASSUME PacketInv PROVE TypeOK
    OBVIOUS
  <2>1. packet # Panic => \A i \in 1..Len(packet) : packet[i] \in 0..255
    <3> SUFFICES ASSUME packet \in Packet PROVE \A i \in 1..Len(packet) : packet[i] \in Byte
      BY DEF PacketInv, Byte
    <3> QED BY PacketBytes
  <2>2. /\ left \in 0..PatternBound /\ applied \in Seq(MalformedPatterns)
        /\ mutations \in 0..MutationBound
    BY DEF PacketInv
  <2> QED BY <2>1, <2>2, Zenon DEF TypeOK
<1> QED BY <1>1, PacketInvAlways, PTL

\* Whatever topics, identifiers and payloads the generator is given, of whatever length, it
\* writes the remaining length that the validator reads (mqtt.rs:77-229, 488-536).
THEOREM GeneratedValidAlways == Spec => []GeneratedValid
<1>1. PacketInv => GeneratedValid
  BY DEF PacketInv, Generated, GoodStart, GeneratedValid
<1> QED BY <1>1, PacketInvAlways, PTL

\* What the validator accepts the analyzer takes for MQTT, or for DNS before it looks,
\* whatever bytes the patterns and mutations have left (utils/network.rs:161-254).
THEOREM ValidLooksMqttAlways == Spec => []ValidLooksMqtt
<1>1. PacketInv => ValidLooksMqtt
  BY ValidIsMqtt DEF PacketInv, ValidLooksMqtt
<1> QED BY <1>1, PacketInvAlways, PTL

\* The overwritten remaining length stays invalid under the patterns that follow, however
\* they are chosen and wherever they write (mqtt.rs:232-321).
THEOREM OversizedStaysInvalidAlways == Spec => []OversizedStaysInvalid
<1>1. PacketInv => OversizedStaysInvalid
  <2> SUFFICES ASSUME PacketInv, mutations = 0, "OversizedRemainingLength" \in ToSet(applied)
               PROVE  ~validate_packet(packet)
    BY DEF OversizedStaysInvalid
  <2>1. Settled(packet, Len(applied)) /\ packet \in Packet
    <3>1. packet # Panic
      BY DEF PacketInv
    <3> QED BY <3>1, Zenon DEF PacketInv, Generated
  <2>2. PICK k \in Nat : k = Len(applied) /\ k \in 1..3
    <3>1. applied \in Seq(MalformedPatterns) /\ Len(applied) + left <= PatternBound
          /\ left \in 0..PatternBound /\ PatternBound \in 0..3
      BY MqttAssumption, Zenon DEF PacketInv
    <3>2. PICK i \in DOMAIN applied : applied[i] = "OversizedRemainingLength"
      BY Zenon DEF ToSet
    <3>3. PICK n \in Nat : n = Len(applied) /\ DOMAIN applied = 1..n
      BY <3>1
    <3>4. n <= 3 /\ n >= 1
      BY <3>1, <3>2, <3>3
    <3> QED BY <3>3, <3>4
  <2>3. Settled(packet, k)
    BY <2>1, <2>2, Zenon
  <2>4. CASE k \in {1, 2}
    <3>1. Lead(packet) /\ Len(packet) >= 2
      BY <2>1, <2>3, <2>4, PacketBytes DEF Settled
    <3> QED BY <2>1, <3>1, LeadIsInvalid, Zenon
  <2>5. CASE k = 3
    BY <2>3, <2>5 DEF Settled
  <2> QED BY <2>2, <2>4, <2>5
<1> QED BY <1>1, PacketInvAlways, PTL

\* An index out of bounds takes an empty packet, and so two mutations before the one that
\* panics; no combination of patterns leads there (mqtt.rs:277-316, protocols/mod.rs:78-123).
THEOREM PanicTakesThreeMutationsAlways == Spec => []PanicTakesThreeMutations
<1>1. PacketInv => PanicTakesThreeMutations
  BY DEF PacketInv, PanicTakesThreeMutations
<1> QED BY <1>1, PacketInvAlways, PTL

\* The pattern for the protocol name changes no generated packet, whatever the client
\* identifier and the patterns before it that leave the head alone (mqtt.rs:402-411).
THEOREM ProtocolNameNeverHitAlways == Spec => ProtocolNameNeverHit
<1> DEFINE Hit == [ mutations = 0 /\ ToSet(applied') \subseteq HeadKeeping
                     /\ applied' = Append(applied, "InvalidProtocolName") => packet' = packet ]_vars
<1>1. PacketInv /\ [Next]_vars => Hit
  <2> SUFFICES ASSUME PacketInv, Next, mutations = 0, ToSet(applied') \subseteq HeadKeeping,
                      applied' = Append(applied, "InvalidProtocolName")
               PROVE  packet' = packet
    OBVIOUS
  <2>1. applied \in Seq(MalformedPatterns) /\ applied' # applied
    <3>1. applied \in Seq(MalformedPatterns) /\ "InvalidProtocolName" \in MalformedPatterns
      BY DEF PacketInv, MalformedPatterns
    <3>2. Len(applied') = Len(applied) + 1 /\ Len(applied) \in Nat
      BY <3>1, AppendProperties
    <3> QED BY <3>1, <3>2
  <2>2. PICK pattern \in MalformedPatterns : ApplyPattern(pattern)
    BY <2>1 DEF Next, MutatePacket
  <2>3. Append(applied, pattern) = Append(applied, "InvalidProtocolName")
    BY <2>2 DEF ApplyPattern
  <2>4. pattern = "InvalidProtocolName"
    BY <2>1, <2>3, AppendSplits DEF MalformedPatterns
  <2>5. ToSet(applied) \subseteq HeadKeeping
    <3>1. ToSet(Append(applied, pattern)) = ToSet(applied) \cup {pattern}
      BY <2>1, AppendedSet
    <3> QED BY <2>3, <3>1
  <2>6. NoName(packet) /\ packet \in Packet
    <3>1. packet # Panic
      BY <2>2 DEF ApplyPattern
    <3> QED BY <2>5, <3>1, Zenon DEF PacketInv, Generated
  <2>7. packet' \in inject_protocol_name(packet)
    <3>1. packet' \in mqtt_apply_pattern(packet, pattern)
      BY <2>2 DEF ApplyPattern
    <3> QED BY <2>4, <3>1 DEF mqtt_apply_pattern
  <2> QED BY <2>6, <2>7, ProtocolNameKeeps
<1>2. Spec => [][Next]_vars
  BY PTL DEF Spec
<1> QED BY <1>1, <1>2, PacketInvAlways, PTL DEF ProtocolNameNeverHit
=============================================================================
