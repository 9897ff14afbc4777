--------------------------- MODULE DnsFuzzerProofs ----------------------------
(***************************************************************************)
(* That no pattern and no mutation of a DNS packet leaves its bounds, and  *)
(* what the patterns leave of a query, for any names, types and draws.     *)
(*                                                                         *)
(* A packet is always a sequence of bytes; until it is mutated, it has the *)
(* header of the query it was made from; and as long as only the flags,    *)
(* the type or the class were attacked, the first zero behind the header   *)
(* is the end of the name, five bytes before the end (Layout).             *)
(* What the packet analyzer makes of it is a matter of counting (SeenInv): *)
(* few bytes of a query are unlike both their neighbours, no pattern adds  *)
(* more than four of them, and all the bytes it is filled up with are      *)
(* alike.                                                                  *)
(***************************************************************************)
EXTENDS DnsFuzzer, PacketProofs, FiniteSetTheorems

\* The flags may change, the rest of the header is the query's.
SameHeader(p, q) == Len(q) >= 12 /\ \A i \in (1..12) \ {3, 4} : q[i] = p[i]

\* Or none of it changes.
WholeHeader(p, q) == Len(q) >= 12 /\ \A i \in 1..12 : q[i] = p[i]

FlagsAndFields == {"InvalidHeader", "InvalidQType", "InvalidQClass"}

\* The name, its end, and the type and class behind it.
Layout(p) == /\ Len(p) >= 17
             /\ \A i \in 13..(Len(p) - 5) : p[i] # 0
             /\ p[Len(p) - 4] = 0

\* A query put together of its header, name, type and class.
Query(p, h, F, t, u) == p = h \o F \o <<0>> \o t \o u
Parts(p, h, F, k, n) == /\ Sized(p, (k + n) + 5) /\ Starts(p, h, k) /\ Follows(p, F, k, n)
                        /\ p[(k + n) + 1] = 0

\* The flags of a plain query, its one question and nothing else.
PlainHeader(p) ==
    /\ Len(p) >= 12
    /\ p[3] = 0 /\ p[4] = 0 /\ p[5] = 0 /\ p[6] = 1 /\ \A i \in 7..12 : p[i] = 0

\* The positions of a packet whose byte differs from its neighbours.
Alone(p) == {k \in 1..Len(p) : \A n \in {k - 1, k + 1} \cap 1..Len(p) : p[n] # p[k]}

\* What a pattern may do to a packet: to write two bytes, one behind the other, ...
TwoBytes(p, q) ==
    /\ Len(q) = Len(p)
    /\ \E i \in Nat : \A j \in 1..Len(p) : j \notin {i + 1, i + 2} => q[j] = p[j]

\* ... to fill it up, ...
Padded(p, q) ==
    \E m \in Nat :
        /\ m >= 1000 /\ Len(q) = Len(p) + m
        /\ \A j \in 1..Len(p) : q[j] = p[j]
        /\ \A j \in 1..m : q[Len(p) + j] = 0

\* ... or to make one long label of its name.
Labelled(q) == \E m \in Nat : /\ m >= 64 /\ Len(q) = m + 18
                              /\ \A j \in 1..m : q[13 + j] = 65

PacketInv ==
    /\ packet \in Packet /\ base \in Packet /\ applied \in Seq(MalformedPatterns)
    /\ mutations \in Nat
    /\ mutations = 0 =>
          /\ SameHeader(base, packet)
          /\ ToSet(applied) \subseteq FlagsAndFields => Layout(packet)

\* What the analyzer looks at: the flags and counts, and how many bytes of the query can
\* be unlike their neighbours. A name has five labels at most, of 64 bytes with their
\* length, and every pattern adds four positions, unless it leaves no more than 18.
SeenInv ==
    /\ left \in Nat /\ left + Len(applied) <= PatternBound
    /\ mutations = 0 =>
          /\ "InvalidHeader" \notin ToSet(applied) => PlainHeader(packet)
          /\ Cardinality(Alone(packet)) <= 337 + 4 * Len(applied)
          /\ applied # << >> /\ Last(applied) = "OversizedQuery" => Len(packet) >= 1012

-----------------------------------------------------------------------------
(* Bytes that stand alone *)

\* Sizes of sets of positions.
LEMMA AloneIsFinite ==
    ASSUME NEW p \in Packet
    PROVE  /\ IsFiniteSet(Alone(p)) /\ Cardinality(Alone(p)) \in Nat
           /\ Cardinality(Alone(p)) <= Len(p)
<1>1. PICK n \in Nat : n = Len(p)
  BY PacketBytes
<1>2. IsFiniteSet(1..n) /\ Cardinality(1..n) = n
  <2>1. 1 \in Int /\ n \in Int
    OBVIOUS
  <2>2. IsFiniteSet(1..n) /\ Cardinality(1..n) = IF 1 > n THEN 0 ELSE n - 1 + 1
    BY <2>1, FS_Interval, Zenon
  <2> QED BY <2>2
<1>3. Alone(p) \in SUBSET (1..n)
  BY <1>1 DEF Alone
<1>4. IsFiniteSet(Alone(p)) /\ Cardinality(Alone(p)) <= Cardinality(1..n)
  BY <1>2, <1>3, FS_Subset, Zenon
<1>5. Cardinality(Alone(p)) \in Nat
  BY <1>4, FS_CardinalityType, Zenon
<1> QED BY <1>1, <1>2, <1>4, <1>5

\* Four positions more are four more at most.
LEMMA FourMore ==
    ASSUME NEW S, IsFiniteSet(S), NEW T, NEW a, NEW b, NEW c, NEW d, T \subseteq S \cup {a, b, c, d}
    PROVE  IsFiniteSet(T) /\ Cardinality(T) <= Cardinality(S) + 4
<1> DEFINE S1 == S \cup {a}
           S2 == S1 \cup {b}
           S3 == S2 \cup {c}
           S4 == S3 \cup {d}
<1>1. IsFiniteSet(S1) /\ Cardinality(S1) = IF a \in S THEN Cardinality(S) ELSE Cardinality(S) + 1
  BY FS_AddElement, Zenon
<1> HIDE DEF S1
<1>2. IsFiniteSet(S2) /\ Cardinality(S2) = IF b \in S1 THEN Cardinality(S1) ELSE Cardinality(S1) + 1
  BY <1>1, FS_AddElement, Zenon
<1> HIDE DEF S2
<1>3. IsFiniteSet(S3) /\ Cardinality(S3) = IF c \in S2 THEN Cardinality(S2) ELSE Cardinality(S2) + 1
  BY <1>2, FS_AddElement, Zenon
<1> HIDE DEF S3
<1>4. IsFiniteSet(S4) /\ Cardinality(S4) = IF d \in S3 THEN Cardinality(S3) ELSE Cardinality(S3) + 1
  BY <1>3, FS_AddElement, Zenon
<1> HIDE DEF S4
<1>5. T \in SUBSET S4
  BY DEF S1, S2, S3, S4
<1>6. IsFiniteSet(T) /\ Cardinality(T) <= Cardinality(S4)
  BY <1>4, <1>5, FS_Subset, Zenon
<1>7. Cardinality(S) \in Nat /\ Cardinality(T) \in Nat
  BY <1>6, FS_CardinalityType, Zenon
<1> QED BY <1>1, <1>2, <1>3, <1>4, <1>6, <1>7

\* Writing nothing is no more than that.
LEMMA NothingWritten == \A p : TwoBytes(p, p)
  BY DEF TwoBytes

\* Two bytes written side by side can leave those and their neighbours alone.
LEMMA TwoBytesAlone ==
    ASSUME NEW p \in Packet, NEW q \in Packet, TwoBytes(p, q)
    PROVE  Cardinality(Alone(q)) <= Cardinality(Alone(p)) + 4
<1>1. PICK n \in Nat : n = Len(p)
  BY PacketBytes
<1>2. PICK i \in Nat : \A j \in 1..Len(p) : j \notin {i + 1, i + 2} => q[j] = p[j]
  BY Zenon DEF TwoBytes
<1>0. n = Len(q) /\ \A j \in 1..n : j \notin {i + 1, i + 2} => q[j] = p[j]
  BY <1>1, <1>2 DEF TwoBytes
<1>3. Alone(q) \subseteq Alone(p) \cup {i, i + 1, i + 2, i + 3}
  <2> SUFFICES ASSUME NEW k \in Alone(q), k \notin {i, i + 1, i + 2, i + 3}
               PROVE  k \in Alone(p)
    OBVIOUS
  <2>1. k \in 1..n /\ \A m \in {k - 1, k + 1} \cap 1..n : q[m] # q[k]
    BY <1>0 DEF Alone
  <2>2. q[k] = p[k]
    BY <1>0, <2>1
  <2>3. \A m \in {k - 1, k + 1} \cap 1..n : p[m] # p[k]
    <3> TAKE m \in {k - 1, k + 1} \cap 1..n
    <3>1. m \notin {i + 1, i + 2}
      BY <2>1
    <3>2. q[m] = p[m]
      BY <1>0, <3>1
    <3> QED BY <2>1, <2>2, <3>2
  <2> QED BY <1>1, <2>1, <2>3 DEF Alone
<1> QED BY <1>3, AloneIsFinite, FourMore

\* A cut can leave the last byte alone.
LEMMA CutAlone ==
    ASSUME NEW p \in Packet, NEW q \in Packet, Len(q) <= Len(p),
           \A j \in 1..Len(q) : q[j] = p[j]
    PROVE  Cardinality(Alone(q)) <= Cardinality(Alone(p)) + 4
<1>1. PICK n \in Nat, m \in Nat : n = Len(p) /\ m = Len(q) /\ m <= n
  BY PacketBytes
<1>2. Alone(q) \subseteq Alone(p) \cup {m, m, m, m}
  <2> SUFFICES ASSUME NEW k \in Alone(q), k # m PROVE k \in Alone(p)
    OBVIOUS
  <2>1. k \in 1..m /\ \A i \in {k - 1, k + 1} \cap 1..m : q[i] # q[k]
    BY <1>1 DEF Alone
  <2>2. k \in 1..n /\ \A i \in {k - 1, k + 1} \cap 1..n : i \in 1..m
    BY <1>1, <2>1
  <2>3. \A i \in {k - 1, k + 1} \cap 1..n : p[i] # p[k]
    BY <1>1, <2>1, <2>2
  <2> QED BY <1>1, <2>2, <2>3 DEF Alone
<1> QED BY <1>2, AloneIsFinite, FourMore

\* Padding leaves no byte alone that was not.
LEMMA PaddedAlone ==
    ASSUME NEW p \in Packet, NEW q \in Packet, NEW m \in Nat, m >= 2, Len(q) = Len(p) + m,
           \A j \in 1..Len(p) : q[j] = p[j], \A j \in 1..m : q[Len(p) + j] = 0
    PROVE  Cardinality(Alone(q)) <= Cardinality(Alone(p)) + 4
<1>1. PICK n \in Nat : n = Len(p) /\ Len(q) = n + m
  BY PacketBytes
<1>2. \A j \in (n + 1)..(n + m) : q[j] = 0
  <2> TAKE j \in (n + 1)..(n + m)
  <2>1. j - n \in 1..m /\ n + (j - n) = j
    BY <1>1
  <2>2. q[n + (j - n)] = 0
    BY <1>1, <2>1
  <2> QED BY <2>1, <2>2
<1>3. Alone(q) \subseteq Alone(p) \cup {0, 0, 0, 0}
  <2> SUFFICES ASSUME NEW k \in Alone(q) PROVE k \in Alone(p)
    OBVIOUS
  <2>1. k \in 1..(n + m) /\ \A i \in {k - 1, k + 1} \cap 1..(n + m) : q[i] # q[k]
    BY <1>1 DEF Alone
  <2>2. k \in 1..n
    <3> SUFFICES ASSUME k > n PROVE FALSE
      BY <2>1
    <3>1. PICK i \in {k - 1, k + 1} : i \in (n + 1)..(n + m)
      <4>1. CASE k = n + 1
        BY <4>1
      <4>2. CASE k # n + 1
        BY <2>1, <4>2
      <4> QED BY <4>1, <4>2
    <3>2. q[i] = 0 /\ q[k] = 0 /\ i \in 1..(n + m)
      BY <1>2, <2>1, <3>1
    <3> QED BY <2>1, <3>1, <3>2
  <2>3. \A i \in {k - 1, k + 1} \cap 1..n : i \in 1..(n + m) /\ q[i] = p[i] /\ q[k] = p[k]
    BY <1>1, <2>2
  <2>4. \A i \in {k - 1, k + 1} \cap 1..n : p[i] # p[k]
    BY <2>1, <2>3
  <2> QED BY <1>1, <2>2, <2>4 DEF Alone
<1> QED BY <1>3, AloneIsFinite, FourMore

\* What two sets cover has no more elements than they have.
LEMMA TwoParts ==
    ASSUME NEW S, IsFiniteSet(S), NEW T, IsFiniteSet(T), NEW U \in SUBSET (S \cup T)
    PROVE  Cardinality(U) <= Cardinality(S) + Cardinality(T)
<1>1. /\ IsFiniteSet(S \cup T)
      /\ Cardinality(S \cup T) = Cardinality(S) + Cardinality(T) - Cardinality(S \cap T)
  BY FS_Union, Zenon
<1>2. IsFiniteSet(U) /\ Cardinality(U) <= Cardinality(S \cup T)
  BY <1>1, FS_Subset, Zenon
<1>3. IsFiniteSet(S \cap T)
  <2>1. S \cap T \in SUBSET S
    OBVIOUS
  <2> QED BY <2>1, FS_Subset, Zenon
<1>4. /\ Cardinality(S) \in Nat /\ Cardinality(T) \in Nat /\ Cardinality(U) \in Nat
      /\ Cardinality(S \cap T) \in Nat
  BY <1>2, <1>3, FS_CardinalityType, Zenon
<1> QED BY <1>1, <1>2, <1>4

\* A packet that is one byte throughout but for its ends is alone at its ends.
LEMMA LabelsAlone ==
    ASSUME NEW q \in Packet, NEW m \in Nat, m >= 2, Len(q) = m + 18,
           \A j \in 1..m : q[13 + j] = 65
    PROVE  Cardinality(Alone(q)) <= 18
<1>1. \A j \in 14..(13 + m) : q[j] = 65
  <2> TAKE j \in 14..(13 + m)
  <2>1. j - 13 \in 1..m /\ 13 + (j - 13) = j
    OBVIOUS
  <2>2. q[13 + (j - 13)] = 65
    BY <2>1
  <2> QED BY <2>1, <2>2
<1> DEFINE first == 1..13
           last == (14 + m)..(18 + m)
<1>2. Alone(q) \in SUBSET (first \cup last)
  <2> SUFFICES ASSUME NEW k \in Alone(q), k \in 14..(13 + m) PROVE FALSE
    BY DEF Alone
  <2>1. \A i \in {k - 1, k + 1} \cap 1..(m + 18) : q[i] # q[k]
    BY DEF Alone
  <2>2. PICK i \in {k - 1, k + 1} : i \in 14..(13 + m)
    <3>1. CASE k = 14
      BY <3>1
    <3>2. CASE k # 14
      BY <3>2
    <3> QED BY <3>1, <3>2
  <2>3. i \in 1..(m + 18) /\ q[i] = 65 /\ q[k] = 65
    BY <1>1, <2>2
  <2> QED BY <2>1, <2>2, <2>3
<1>3. IsFiniteSet(first) /\ Cardinality(first) = 13
  <2>1. PICK a \in Int, b \in Int : a = 1 /\ b = 13
    OBVIOUS
  <2>2. IsFiniteSet(a..b) /\ Cardinality(a..b) = IF a > b THEN 0 ELSE b - a + 1
    BY FS_Interval
  <2> QED BY <2>1, <2>2
<1>4. IsFiniteSet(last) /\ Cardinality(last) = 5
  <2>1. PICK a \in Int, b \in Int : a = 14 + m /\ b = 18 + m
    OBVIOUS
  <2>2. IsFiniteSet(a..b) /\ Cardinality(a..b) = IF a > b THEN 0 ELSE b - a + 1
    BY FS_Interval
  <2> QED BY <2>1, <2>2
<1> HIDE DEF first, last
<1>5. Cardinality(Alone(q)) <= Cardinality(first) + Cardinality(last)
  BY <1>2, <1>3, <1>4, TwoParts
<1> QED BY <1>3, <1>4, <1>5

\* The bytes that are not alone are those the analyzer counts.
LEMMA RestIsRepeated ==
    ASSUME NEW p \in Packet
    PROVE  count_repeated_bytes(p) = Len(p) - Cardinality(Alone(p))
<1>1. PICK n \in Nat : n = Len(p) /\ DOMAIN p = 1..n
  <2>1. DOMAIN p = 1..Len(p) /\ Len(p) \in Nat
    BY DEF Packet
  <2> QED BY <2>1
<1> DEFINE runs == {k \in 1..n : \E i \in {k - 1, k + 1} \cap 1..n : p[i] = p[k]}
<1>2. count_repeated_bytes(p) = Cardinality(runs)
  BY <1>1 DEF count_repeated_bytes
<1>3. Alone(p) = {k \in 1..n : \A i \in {k - 1, k + 1} \cap 1..n : p[i] # p[k]}
  BY <1>1 DEF Alone
<1>4. runs \cup Alone(p) = 1..n /\ runs \cap Alone(p) = {}
  BY <1>3
<1>5. IsFiniteSet(1..n) /\ Cardinality(1..n) = n
  <2>1. 1 \in Int /\ n \in Int
    OBVIOUS
  <2>2. IsFiniteSet(1..n) /\ Cardinality(1..n) = IF 1 > n THEN 0 ELSE n - 1 + 1
    BY <2>1, FS_Interval, Zenon
  <2> QED BY <2>2
<1>6. runs \in SUBSET (1..n)
  OBVIOUS
<1> HIDE DEF runs
<1>7. IsFiniteSet(runs)
  BY <1>5, <1>6, FS_Subset, Zenon
<1>8. IsFiniteSet(Alone(p)) /\ Cardinality(Alone(p)) \in Nat
  BY AloneIsFinite
<1>9. Cardinality(runs \cup Alone(p))
         = Cardinality(runs) + Cardinality(Alone(p)) - Cardinality(runs \cap Alone(p))
  BY <1>7, <1>8, FS_Union, Zenon
<1>10. Cardinality(runs \cap Alone(p)) = 0
  BY <1>4, FS_EmptySet, Zenon
<1>11. Cardinality(runs) \in Nat
  BY <1>7, FS_CardinalityType, Zenon
<1>12. Cardinality(runs \cup Alone(p)) = n
  BY <1>4, <1>5
<1>13. Cardinality(runs) = n - Cardinality(Alone(p))
  BY <1>8, <1>9, <1>10, <1>11, <1>12
<1> QED BY <1>1, <1>2, <1>13

\* A long packet with few bytes alone is repetitive.
LEMMA FewAlone ==
    ASSUME NEW p \in Packet, Len(p) >= 1012, Cardinality(Alone(p)) <= 349
    PROVE  highly_repetitive(p)
<1>1. PICK n \in Nat, a \in Nat : n = Len(p) /\ a = Cardinality(Alone(p))
  BY PacketBytes, AloneIsFinite
<1>2. n - a > n \div 2
  BY <1>1
<1> QED BY <1>1, <1>2, RestIsRepeated DEF highly_repetitive

\* Who leaves the header leaves it plain.
LEMMA WholeIsPlain ==
    ASSUME NEW p, NEW q, PlainHeader(p), WholeHeader(p, q)
    PROVE  PlainHeader(q)
<1>1. q[3] = p[3] /\ q[4] = p[4] /\ q[5] = p[5] /\ q[6] = p[6]
  BY DEF WholeHeader
<1>2. \A i \in 7..12 : q[i] = p[i]
  BY DEF WholeHeader
<1> QED BY <1>1, <1>2 DEF PlainHeader, WholeHeader

\* The analyzer takes what has it for DNS.
LEMMA PlainIsDns ==
    ASSUME NEW p, PlainHeader(p)
    PROVE  detect_protocol(p) = "DNS"
<1>1. be_word(p, 2) = 0 /\ be_word(p, 4) = 1 /\ be_word(p, 6) = 0
  BY DEF PlainHeader, be_word
<1>2. be_word(p, 8) = 0 /\ be_word(p, 10) = 0
  BY DEF PlainHeader, be_word
<1>3. (0 \div 2048) % 16 <= 5 /\ 0 % 16 <= 9
  OBVIOUS
<1>4. \A i \in {4, 6, 8, 10} : be_word(p, i) <= 100
  BY <1>1, <1>2
<1>5. looks_like_dns(p)
  BY <1>1, <1>3, <1>4 DEF looks_like_dns, PlainHeader
<1> QED BY <1>5 DEF detect_protocol

-----------------------------------------------------------------------------
(* Queries and their parts *)

\* A header that grows by two bytes.
Grows(c, a, m, y, z) == /\ Sized(c, m + 2) /\ Starts(c, a, m)
                        /\ c[m + 1] = y /\ c[m + 2] = z

\* Two bytes, behind what was there before.
LEMMA TwoMore ==
    ASSUME NEW a, NEW m \in Nat, Sized(a, m), NEW y \in Byte, NEW z \in Byte
    PROVE  Grows(a \o <<y, z>>, a, m, y, z)
<1>1. PICK b : b = <<y, z>>
  OBVIOUS
<1>2. Sized(b, 2) /\ b[1] = y /\ b[2] = z /\ 2 \in Nat
  BY <1>1 DEF Sized, Packet
<1>3. PICK c : c = a \o b
  OBVIOUS
<1>4. Sized(c, m + 2) /\ Starts(c, a, m) /\ Follows(c, b, m, 2)
  <2>1. Sized(a \o b, m + 2) /\ Starts(a \o b, a, m) /\ Follows(a \o b, b, m, 2)
    BY <1>2, Prefixed, Zenon
  <2> QED BY <1>3, <2>1
<1>5. c[m + 1] = b[1] /\ c[m + 2] = b[2]
  <2>1. 1 \in 1..2 /\ 2 \in 1..2
    OBVIOUS
  <2> QED BY <1>4, <2>1, Zenon DEF Follows
<1>6. Grows(c, a, m, y, z)
  BY <1>2, <1>4, <1>5 DEF Grows
<1> QED BY <1>1, <1>3, <1>6

\* The header of a query.
Header(h, id) == h = be(id) \o <<0, 0>> \o be(1) \o be(0) \o be(0) \o be(0)

\* It is plain.
LEMMA HeaderIsPlain ==
    ASSUME NEW id \in Nat,
           NEW h, Header(h, id)
    PROVE  Sized(h, 12) /\ PlainHeader(h)
<1>1. /\ be(1) = <<0, 1>> /\ be(0) = <<0, 0>>
      /\ 0 \in Byte /\ 1 \in Byte
  BY DEF be, Byte
<1>2. PICK x : x = be(id) /\ Sized(x, 2)
  BY BeBytes DEF Sized
<1>3. PICK b : b = x \o <<0, 0>>
  OBVIOUS
<1>4. PICK c : c = b \o <<0, 1>>
  OBVIOUS
<1>5. PICK d : d = c \o <<0, 0>>
  OBVIOUS
<1>6. PICK e : e = d \o <<0, 0>>
  OBVIOUS
<1>7. h = e \o <<0, 0>>
  BY <1>1, <1>2, <1>3, <1>4, <1>5, <1>6 DEF Header
<1>8. Sized(b, 4) /\ Starts(b, x, 2) /\ b[3] = 0 /\ b[4] = 0
  <2>1. PICK m \in Nat : m = 2
    OBVIOUS
  <2>2. Sized(x, m)
    BY <1>2, <2>1
  <2>3. Grows(x \o <<0, 0>>, x, m, 0, 0)
    BY <1>1, <2>2, TwoMore, Zenon
  <2>4. Grows(b, x, m, 0, 0)
    BY <1>3, <2>3, Zenon
  <2> QED BY <2>1, <2>4 DEF Grows
<1>9. Sized(c, 6) /\ Starts(c, b, 4) /\ c[5] = 0 /\ c[6] = 1
  <2>1. PICK m \in Nat : m = 4
    OBVIOUS
  <2>2. Sized(b, m)
    BY <1>8, <2>1
  <2>3. Grows(b \o <<0, 1>>, b, m, 0, 1)
    BY <1>1, <2>2, TwoMore, Zenon
  <2>4. Grows(c, b, m, 0, 1)
    BY <1>4, <2>3, Zenon
  <2> QED BY <2>1, <2>4 DEF Grows
<1>10. Sized(d, 8) /\ Starts(d, c, 6) /\ d[7] = 0 /\ d[8] = 0
  <2>1. PICK m \in Nat : m = 6
    OBVIOUS
  <2>2. Sized(c, m)
    BY <1>9, <2>1
  <2>3. Grows(c \o <<0, 0>>, c, m, 0, 0)
    BY <1>1, <2>2, TwoMore, Zenon
  <2>4. Grows(d, c, m, 0, 0)
    BY <1>5, <2>3, Zenon
  <2> QED BY <2>1, <2>4 DEF Grows
<1>11. Sized(e, 10) /\ Starts(e, d, 8) /\ e[9] = 0 /\ e[10] = 0
  <2>1. PICK m \in Nat : m = 8
    OBVIOUS
  <2>2. Sized(d, m)
    BY <1>10, <2>1
  <2>3. Grows(d \o <<0, 0>>, d, m, 0, 0)
    BY <1>1, <2>2, TwoMore, Zenon
  <2>4. Grows(e, d, m, 0, 0)
    BY <1>6, <2>3, Zenon
  <2> QED BY <2>1, <2>4 DEF Grows
<1>12. Sized(h, 12) /\ Starts(h, e, 10) /\ h[11] = 0 /\ h[12] = 0
  <2>1. PICK m \in Nat : m = 10
    OBVIOUS
  <2>2. Sized(e, m)
    BY <1>11, <2>1
  <2>3. Grows(e \o <<0, 0>>, e, m, 0, 0)
    BY <1>1, <2>2, TwoMore, Zenon
  <2>4. Grows(h, e, m, 0, 0)
    BY <1>7, <2>3, Zenon
  <2> QED BY <2>1, <2>4 DEF Grows
<1>13. \A i \in 1..8 : h[i] = d[i]
  BY <1>11, <1>12 DEF Starts
<1>14. \A i \in 1..6 : h[i] = c[i]
  BY <1>10, <1>13 DEF Starts
<1>15. \A i \in 1..4 : h[i] = b[i]
  BY <1>9, <1>14 DEF Starts
<1>16. h[3] = 0 /\ h[4] = 0 /\ h[5] = 0 /\ h[6] = 1
  BY <1>8, <1>9, <1>14, <1>15
<1>17. h[7] = 0 /\ h[8] = 0 /\ h[9] = 0 /\ h[10] = 0
  BY <1>10, <1>11, <1>12, <1>13 DEF Starts
<1>18. Len(h) >= 12
  BY <1>12 DEF Sized
<1> QED BY <1>12, <1>16, <1>17, <1>18 DEF PlainHeader

\* Where the parts of a query lie: a header, a name, its end, a type and a class.
LEMMA QueryParts ==
    ASSUME NEW h, NEW F, NEW t, NEW u, NEW k \in Nat, NEW n \in Nat,
           Sized(h, k), Sized(F, n), Sized(t, 2), Sized(u, 2),
           NEW p, Query(p, h, F, t, u)
    PROVE  Parts(p, h, F, k, n)
<1>0. 1 \in Nat /\ 2 \in Nat
  OBVIOUS
<1>1. Sized(<<0>>, 1) /\ <<0>>[1] = 0
  BY DEF Sized, Packet, Byte
<1>2. PICK a : a = h \o F
  OBVIOUS
<1>3. PICK m \in Nat : m = k + n
  OBVIOUS
<1>4. Sized(a, m) /\ Starts(a, h, k) /\ Follows(a, F, k, n)
  <2>1. Sized(h \o F, k + n) /\ Starts(h \o F, h, k) /\ Follows(h \o F, F, k, n)
    BY Prefixed, Zenon
  <2> QED BY <1>2, <1>3, <2>1
<1>5. PICK c : c = a \o <<0>>
  OBVIOUS
<1>6. Sized(c, m + 1) /\ Starts(c, a, m) /\ Follows(c, <<0>>, m, 1)
  <2>1. /\ Sized(a \o <<0>>, m + 1) /\ Starts(a \o <<0>>, a, m)
        /\ Follows(a \o <<0>>, <<0>>, m, 1)
    BY <1>0, <1>1, <1>4, Prefixed, Zenon
  <2> QED BY <1>5, <2>1
<1>7. PICK l \in Nat : l = m + 1
  OBVIOUS
<1>8. Sized(c, l) /\ c[l] = 0
  <2>1. Sized(c, l)
    BY <1>6, <1>7
  <2>2. c[m + 1] = 0
    BY <1>1, <1>6 DEF Follows
  <2> QED BY <1>7, <2>1, <2>2
<1>9. PICK e : e = c \o t
  OBVIOUS
<1>10. Sized(e, l + 2) /\ Starts(e, c, l)
  <2>1. Sized(c \o t, l + 2) /\ Starts(c \o t, c, l)
    BY <1>0, <1>8, Prefixed, Zenon
  <2> QED BY <1>9, <2>1
<1>11. PICK q \in Nat : q = l + 2
  OBVIOUS
<1>12. Sized(e, q)
  BY <1>10, <1>11
<1>13. p = e \o u
  BY <1>2, <1>5, <1>9 DEF Query
<1>14. Sized(p, q + 2) /\ Starts(p, e, q)
  <2>1. Sized(e \o u, q + 2) /\ Starts(e \o u, e, q)
    BY <1>0, <1>12, Prefixed, Zenon
  <2> QED BY <1>13, <2>1
<1>15. \A i \in 1..m : p[i] = a[i]
  <2> TAKE i \in 1..m
  <2>1. i \in 1..q /\ i \in 1..l
    BY <1>7, <1>11
  <2> QED BY <1>6, <1>10, <1>14, <2>1, Zenon DEF Starts
<1>16. Starts(p, h, k)
  <2> SUFFICES ASSUME NEW i \in 1..k PROVE p[i] = h[i]
    BY DEF Starts
  <2>1. i \in 1..m
    BY <1>3
  <2> QED BY <1>4, <1>15, <2>1, Zenon DEF Starts
<1>17. Follows(p, F, k, n)
  <2> SUFFICES ASSUME NEW i \in 1..n PROVE p[k + i] = F[i]
    BY DEF Follows
  <2>1. k + i \in 1..m
    BY <1>3
  <2> QED BY <1>4, <1>15, <2>1, Zenon DEF Follows
<1>18. p[(k + n) + 1] = 0
  <2>1. (k + n) + 1 = l /\ l \in 1..q /\ l \in 1..l
    BY <1>3, <1>7, <1>11
  <2>2. p[l] = e[l] /\ e[l] = c[l]
    BY <1>10, <1>14, <2>1, Zenon DEF Starts
  <2> QED BY <1>8, <2>1, <2>2
<1>19. Sized(p, (k + n) + 5)
  <2>1. q + 2 = (k + n) + 5
    BY <1>3, <1>7, <1>11
  <2> QED BY <1>14, <2>1
<1> QED BY <1>16, <1>17, <1>18, <1>19 DEF Parts

-----------------------------------------------------------------------------
(* The malformed patterns *)

\* Whoever writes behind the first zero of a part of the packet stays in the packet, and
\* behind its header.
LEMMA CorruptKeeps ==
    ASSUME NEW p \in Packet, NEW end \in Nat, NEW offset \in Nat, end + offset < Len(p),
           NEW q \in corrupt_after_name(p, end, offset)
    PROVE  /\ q \in Packet /\ Len(q) = Len(p) /\ TwoBytes(p, q)
           /\ \/ q = p
              \/ \E i \in 12..(end - 1) :
                    /\ p[i + 1] = 0
                    /\ \A j \in 1..Len(p) :
                          j \notin {i + offset + 1, i + offset + 2} => q[j] = p[j]
<1> DEFINE zeros == {i \in 12..(end - 1) : p[i + 1] = 0}
<1>1. CASE zeros = {}
  BY <1>1, NothingWritten DEF corrupt_after_name
<1>2. CASE zeros # {}
  <2>1. zeros \in SUBSET Nat
    OBVIOUS
  <2>2. Min(zeros) \in zeros
    <3> HIDE DEF zeros
    <3> QED BY <1>2, <2>1, MinOf
  <2>3. PICK i : i = Min(zeros)
    OBVIOUS
  <2>4. i \in 12..(end - 1) /\ p[i + 1] = 0
    BY <2>2, <2>3
  <2>5. PICK b \in Bytes, c \in Bytes : q = With(With(p, i + offset, b), i + offset + 1, c)
    BY <1>2, <2>3 DEF corrupt_after_name
  <2>6. i + offset \in Nat /\ (i + offset) + 1 < Len(p) /\ Len(p) \in Nat
    BY <2>4 DEF Packet
  <2>7. /\ q \in Packet /\ Len(q) = Len(p)
        /\ \A j \in 1..Len(p) : q[j] = IF j = (i + offset) + 1 THEN b
                                       ELSE IF j = (i + offset) + 2 THEN c ELSE p[j]
    <3>1. b \in Byte /\ c \in Byte
      BY Drawn
    <3> QED BY <2>5, <2>6, <3>1, WithWord
  <2>8. \A j \in 1..Len(p) : j \notin {i + offset + 1, i + offset + 2} => q[j] = p[j]
    BY <2>7
  <2>9. TwoBytes(p, q)
    <3>1. \A j \in 1..Len(p) : j \notin {(i + offset) + 1, (i + offset) + 2} => q[j] = p[j]
      BY <2>7
    <3> QED BY <2>6, <2>7, <3>1 DEF TwoBytes
  <2> QED BY <2>4, <2>7, <2>8, <2>9
<1> QED BY <1>1, <1>2

\* The flags are two bytes of the header, and no other byte changes.
LEMMA InvalidHeaderKeeps ==
    ASSUME NEW p \in Packet, NEW q \in dns_apply_pattern(p, "InvalidHeader")
    PROVE  /\ q \in Packet
           /\ Len(p) >= 12 => SameHeader(p, q)
           /\ Layout(p) => Layout(q)
           /\ TwoBytes(p, q)
<1>1. Len(p) \in Nat
  BY DEF Packet
<1>2. CASE Len(p) < 12
  BY <1>1, <1>2, NothingWritten DEF dns_apply_pattern, corrupt_flags, Layout
<1>3. CASE Len(p) >= 12
  <2>1. PICK b \in Bytes, c \in Bytes : q = With(With(p, 2, b), 3, c)
    BY <1>1, <1>3 DEF dns_apply_pattern, corrupt_flags
  <2>2. /\ q \in Packet /\ Len(q) = Len(p)
        /\ \A j \in 1..Len(p) : q[j] = IF j = 2 + 1 THEN b ELSE IF j = 2 + 2 THEN c ELSE p[j]
    <3>1. 2 \in Nat /\ 2 + 1 < Len(p) /\ 2 + 1 = 3 /\ b \in Byte /\ c \in Byte
      BY <1>1, <1>3, Drawn
    <3>2. q = With(With(p, 2, b), 2 + 1, c)
      BY <2>1, <3>1
    <3> QED BY <3>1, <3>2, WithWord
  <2>3. \A j \in 1..Len(p) : j \notin {3, 4} => q[j] = p[j]
    BY <2>2
  <2>4. SameHeader(p, q)
    BY <1>1, <1>3, <2>2, <2>3 DEF SameHeader
  <2>5. Layout(p) => Layout(q)
    BY <1>1, <2>2, <2>3 DEF Layout
  <2>6. TwoBytes(p, q)
    <3>1. \A j \in 1..Len(p) : j \notin {2 + 1, 2 + 2} => q[j] = p[j]
      BY <2>2
    <3> QED BY <2>2, <3>1 DEF TwoBytes
  <2> QED BY <2>2, <2>4, <2>5, <2>6
<1> QED BY <1>1, <1>2, <1>3

\* The type is the two bytes behind the first zero, when they are within the packet.
LEMMA InvalidQTypeKeeps ==
    ASSUME NEW p \in Packet, NEW q \in dns_apply_pattern(p, "InvalidQType")
    PROVE  /\ q \in Packet
           /\ Len(p) >= 12 => WholeHeader(p, q)
           /\ Layout(p) => Layout(q)
           /\ TwoBytes(p, q)
<1>1. Len(p) \in Nat
  BY DEF Packet
<1>2. CASE Len(p) < 16
  BY <1>1, <1>2, NothingWritten DEF dns_apply_pattern, WholeHeader
<1>3. CASE Len(p) >= 16
  <2>1. q \in corrupt_after_name(p, Len(p) - 4, 1)
    BY <1>1, <1>3 DEF dns_apply_pattern
  <2>2. Len(p) - 4 \in Nat /\ 1 \in Nat /\ (Len(p) - 4) + 1 < Len(p)
    BY <1>1, <1>3
  <2>3. /\ q \in Packet /\ Len(q) = Len(p) /\ TwoBytes(p, q)
        /\ \/ q = p
           \/ \E i \in 12..(Len(p) - 4 - 1) :
                 /\ p[i + 1] = 0
                 /\ \A j \in 1..Len(p) : j \notin {i + 1 + 1, i + 1 + 2} => q[j] = p[j]
    BY <2>1, <2>2, CorruptKeeps
  <2>4. CASE q = p
    BY <1>1, <1>3, <2>3, <2>4 DEF WholeHeader
  <2>5. ASSUME NEW i \in 12..(Len(p) - 5), p[i + 1] = 0,
               \A j \in 1..Len(p) : j \notin {i + 2, i + 3} => q[j] = p[j]
        PROVE  WholeHeader(p, q) /\ (Layout(p) => Layout(q))
    <3>1. WholeHeader(p, q)
      BY <1>1, <1>3, <2>3, <2>5 DEF WholeHeader
    <3>2. ASSUME Layout(p) PROVE Layout(q)
      <4>1. i + 1 = Len(p) - 4
        BY <1>1, <2>5, <3>2 DEF Layout
      <4> QED BY <1>1, <2>3, <2>5, <3>2, <4>1 DEF Layout
    <3> QED BY <3>1, <3>2
  <2>6. q = p \/ \E i \in 12..(Len(p) - 5) :
                    /\ p[i + 1] = 0
                    /\ \A j \in 1..Len(p) : j \notin {i + 2, i + 3} => q[j] = p[j]
    BY <1>1, <2>3
  <2> QED BY <2>3, <2>4, <2>5, <2>6
<1> QED BY <1>1, <1>2, <1>3

\* The class is the two bytes behind those.
LEMMA InvalidQClassKeeps ==
    ASSUME NEW p \in Packet, NEW q \in dns_apply_pattern(p, "InvalidQClass")
    PROVE  /\ q \in Packet
           /\ Len(p) >= 12 => WholeHeader(p, q)
           /\ Layout(p) => q = p
           /\ TwoBytes(p, q)
<1>1. Len(p) \in Nat
  BY DEF Packet
<1>2. CASE Len(p) < 18
  BY <1>1, <1>2, NothingWritten DEF dns_apply_pattern, WholeHeader
<1>3. CASE Len(p) >= 18
  <2>1. q \in corrupt_after_name(p, Len(p) - 6, 3)
    BY <1>1, <1>3 DEF dns_apply_pattern
  <2>2. Len(p) - 6 \in Nat /\ 3 \in Nat /\ (Len(p) - 6) + 3 < Len(p)
    BY <1>1, <1>3
  <2>3. /\ q \in Packet /\ Len(q) = Len(p) /\ TwoBytes(p, q)
        /\ \/ q = p
           \/ \E i \in 12..(Len(p) - 6 - 1) :
                 /\ p[i + 1] = 0
                 /\ \A j \in 1..Len(p) : j \notin {i + 3 + 1, i + 3 + 2} => q[j] = p[j]
    BY <2>1, <2>2, CorruptKeeps
  <2>4. CASE q = p
    BY <1>1, <1>3, <2>3, <2>4 DEF WholeHeader
  <2>5. ASSUME NEW i \in 12..(Len(p) - 7), p[i + 1] = 0,
               \A j \in 1..Len(p) : j \notin {i + 4, i + 5} => q[j] = p[j]
        PROVE  WholeHeader(p, q) /\ ~Layout(p)
    <3>1. WholeHeader(p, q)
      BY <1>1, <1>3, <2>3, <2>5 DEF WholeHeader
    <3>2. i + 1 \in 13..(Len(p) - 5)
      BY <1>1
    <3> QED BY <2>5, <3>1, <3>2 DEF Layout
  <2>6. q = p \/ \E i \in 12..(Len(p) - 7) :
                    /\ p[i + 1] = 0
                    /\ \A j \in 1..Len(p) : j \notin {i + 4, i + 5} => q[j] = p[j]
    BY <1>1, <2>3
  <2> QED BY <2>3, <2>4, <2>5, <2>6
<1> QED BY <1>1, <1>2, <1>3

\* A packet is cut behind its header or not at all.
LEMMA TruncatedQueryKeeps ==
    ASSUME NEW p \in Packet, NEW q \in dns_apply_pattern(p, "TruncatedQuery")
    PROVE  /\ q \in Packet
           /\ Len(p) >= 12 => WholeHeader(p, q)
           /\ Len(q) <= Len(p) /\ \A j \in 1..Len(q) : q[j] = p[j]
<1>1. Len(p) \in Nat
  BY DEF Packet
<1>2. CASE Len(p) <= 12
  BY <1>1, <1>2 DEF dns_apply_pattern, truncate, WholeHeader
<1>3. CASE Len(p) > 12
  <2>1. PICK d \in Draws : q = SubSeq(p, 1, 12 + (d % (Len(p) - 12)))
    BY <1>1, <1>3 DEF dns_apply_pattern, truncate
  <2>2. PICK n \in Nat : n = 12 + (d % (Len(p) - 12)) /\ n <= Len(p) /\ n >= 12
    <3>0. d \in Nat
      BY Drawn
    <3>1. Len(p) - 12 \in Nat \ {0}
      <4>1. \A n \in Nat : n > 12 => n - 12 \in Nat \ {0}
        OBVIOUS
      <4> QED BY <1>1, <1>3, <4>1, Zenon
    <3>2. d % (Len(p) - 12) \in 0..(Len(p) - 12 - 1)
      BY <3>0, <3>1, Remainder
    <3> QED BY <1>1, <3>2
  <2>3. /\ q \in Packet /\ Len(q) = n
        /\ \A j \in 1..n : q[j] = p[j]
    <3>1. n \in 0..Len(p)
      BY <1>1, <2>2
    <3> QED BY <2>1, <2>2, <3>1, Cut
  <2> QED BY <2>2, <2>3 DEF WholeHeader
<1> QED BY <1>1, <1>2, <1>3

\* Padding goes to the end.
LEMMA OversizedQueryKeeps ==
    ASSUME NEW p \in Packet, NEW q \in dns_apply_pattern(p, "OversizedQuery")
    PROVE  /\ q \in Packet
           /\ Len(p) >= 12 => WholeHeader(p, q)
           /\ Padded(p, q)
<1>1. PICK d \in Draws : q = p \o Repeated(0, (d % 10000) + 1000)
  <2>1. q \in pad(p)
    BY DEF dns_apply_pattern
  <2> QED BY <2>1 DEF pad
<1>2. PICK n \in Nat : n = (d % 10000) + 1000 /\ n >= 1000
  <2>1. d \in Nat
    BY Drawn
  <2> QED BY <2>1
<1> DEFINE padding == Repeated(0, n)
<1>3. padding \in Packet /\ Len(padding) = n
  BY DEF Packet, Byte, Repeated
<1>6. \A j \in 1..n : padding[j] = 0
  BY DEF Repeated
<1>4. q = p \o padding
  BY <1>1, <1>2
<1> HIDE DEF padding
<1>5. /\ q \in Packet /\ Len(q) = Len(p) + n /\ Len(p) \in Nat
      /\ \A j \in 1..Len(p) : q[j] = p[j]
      /\ \A j \in 1..n : q[Len(p) + j] = padding[j]
  <2>1. Len(p) \in Nat
    BY DEF Packet
  <2> QED BY <1>3, <1>4, <2>1, Joined
<1>7. Padded(p, q)
  <2>1. \A j \in 1..n : q[Len(p) + j] = 0
    BY <1>5, <1>6, Zenon
  <2>2. n \in Nat /\ n >= 1000 /\ Len(q) = Len(p) + n
    BY <1>2, <1>5
  <2> QED BY <1>5, <2>1, <2>2, Zenon DEF Padded
<1> QED BY <1>5, <1>7 DEF WholeHeader

\* The pointer to itself is written behind the header, where there is room for it.
LEMMA PointerLoopKeeps ==
    ASSUME NEW p \in Packet, NEW q \in dns_apply_pattern(p, "PointerLoop")
    PROVE  q \in Packet /\ (Len(p) >= 12 => WholeHeader(p, q)) /\ TwoBytes(p, q)
<1>1. Len(p) \in Nat /\ q \in inject_pointer_loop(p)
  BY DEF Packet, dns_apply_pattern
<1>2. CASE Len(p) <= 12
  BY <1>1, <1>2, NothingWritten DEF inject_pointer_loop, WholeHeader
<1>3. CASE Len(p) > 12
  <2>0. PICK d \in Draws : \E pos :
           /\ pos = 12 + (d % (Len(p) - 12))
           /\ q = IF pos + 1 < Len(p) THEN With(With(p, pos, 192), pos + 1, pos % 256) ELSE p
    BY <1>1, <1>3 DEF inject_pointer_loop
  <2>1. PICK pos :
           /\ pos = 12 + (d % (Len(p) - 12))
           /\ q = IF pos + 1 < Len(p) THEN With(With(p, pos, 192), pos + 1, pos % 256) ELSE p
    BY <2>0
  <2>2. pos \in Nat /\ pos >= 12
    <3>0. d \in Nat
      BY Drawn
    <3>1. Len(p) - 12 \in Nat \ {0}
      <4>1. \A n \in Nat : n > 12 => n - 12 \in Nat \ {0}
        OBVIOUS
      <4> QED BY <1>1, <1>3, <4>1, Zenon
    <3>2. d % (Len(p) - 12) \in 0..(Len(p) - 12 - 1)
      BY <3>0, <3>1, Remainder
    <3> QED BY <2>1, <3>2
  <2>3. CASE pos + 1 < Len(p)
    <3>1. 192 \in Byte /\ pos % 256 \in Byte
      BY <2>2 DEF Byte
    <3>2. /\ q \in Packet /\ Len(q) = Len(p)
          /\ \A j \in 1..Len(p) : q[j] = IF j = pos + 1 THEN 192
                                         ELSE IF j = pos + 2 THEN pos % 256 ELSE p[j]
      <4>1. PICK a \in Byte, c \in Byte : a = 192 /\ c = pos % 256
        BY <3>1
      <4>2. q = With(With(p, pos, a), pos + 1, c)
        BY <2>1, <2>3, <4>1
      <4>3. /\ q \in Packet /\ Len(q) = Len(p)
            /\ \A j \in 1..Len(p) : q[j] = IF j = pos + 1 THEN a
                                           ELSE IF j = pos + 2 THEN c ELSE p[j]
        BY <2>2, <2>3, <4>2, WithWord
      <4> QED BY <4>1, <4>3
    <3>3. \A j \in 1..12 : q[j] = p[j]
      BY <1>1, <1>3, <2>2, <3>2
    <3>4. TwoBytes(p, q)
      <4>1. \A j \in 1..Len(p) : j \notin {pos + 1, pos + 2} => q[j] = p[j]
        BY <3>2
      <4> QED BY <2>2, <3>2, <4>1 DEF TwoBytes
    <3> QED BY <1>1, <1>3, <3>2, <3>3, <3>4 DEF WholeHeader
  <2>4. CASE ~(pos + 1 < Len(p))
    BY <1>1, <2>1, <2>4, NothingWritten DEF WholeHeader
  <2> QED BY <2>3, <2>4
<1> QED BY <1>1, <1>2, <1>3

\* So is the pointer to nowhere.
LEMMA InvalidCompressionKeeps ==
    ASSUME NEW p \in Packet, NEW q \in dns_apply_pattern(p, "InvalidCompression")
    PROVE  q \in Packet /\ (Len(p) >= 12 => WholeHeader(p, q)) /\ TwoBytes(p, q)
<1>1. Len(p) \in Nat /\ q \in inject_invalid_compression(p)
  BY DEF Packet, dns_apply_pattern
<1>2. CASE Len(p) <= 14
  BY <1>1, <1>2, NothingWritten DEF inject_invalid_compression, WholeHeader
<1>3. CASE Len(p) > 14
  <2>0. PICK d \in Draws, b \in Bytes : \E pos :
           /\ pos = 12 + (d % (Len(p) - 14))
           /\ q = IF pos + 1 < Len(p) THEN With(With(p, pos, 192), pos + 1, b) ELSE p
    BY <1>1, <1>3 DEF inject_invalid_compression
  <2>1. PICK pos :
           /\ pos = 12 + (d % (Len(p) - 14))
           /\ q = IF pos + 1 < Len(p) THEN With(With(p, pos, 192), pos + 1, b) ELSE p
    BY <2>0
  <2>2. pos \in Nat /\ pos >= 12
    <3>0. d \in Nat
      BY Drawn
    <3>1. Len(p) - 14 \in Nat \ {0}
      <4>1. \A n \in Nat : n > 14 => n - 14 \in Nat \ {0}
        OBVIOUS
      <4> QED BY <1>1, <1>3, <4>1, Zenon
    <3>2. d % (Len(p) - 14) \in 0..(Len(p) - 14 - 1)
      BY <3>0, <3>1, Remainder
    <3> QED BY <2>1, <3>2
  <2>3. CASE pos + 1 < Len(p)
    <3>1. 192 \in Byte /\ b \in Byte
      BY Drawn DEF Byte
    <3>2. /\ q \in Packet /\ Len(q) = Len(p)
          /\ \A j \in 1..Len(p) : q[j] = IF j = pos + 1 THEN 192
                                         ELSE IF j = pos + 2 THEN b ELSE p[j]
      <4>1. PICK a \in Byte, c \in Byte : a = 192 /\ c = b
        BY <3>1
      <4>2. q = With(With(p, pos, a), pos + 1, c)
        BY <2>1, <2>3, <4>1
      <4>3. /\ q \in Packet /\ Len(q) = Len(p)
            /\ \A j \in 1..Len(p) : q[j] = IF j = pos + 1 THEN a
                                           ELSE IF j = pos + 2 THEN c ELSE p[j]
        BY <2>2, <2>3, <4>2, WithWord
      <4> QED BY <4>1, <4>3
    <3>3. \A j \in 1..12 : q[j] = p[j]
      BY <1>1, <1>3, <2>2, <3>2
    <3>4. TwoBytes(p, q)
      <4>1. \A j \in 1..Len(p) : j \notin {pos + 1, pos + 2} => q[j] = p[j]
        BY <3>2
      <4> QED BY <2>2, <3>2, <4>1 DEF TwoBytes
    <3> QED BY <1>1, <1>3, <3>2, <3>3, <3>4 DEF WholeHeader
  <2>4. CASE ~(pos + 1 < Len(p))
    BY <1>1, <2>1, <2>4, NothingWritten DEF WholeHeader
  <2> QED BY <2>3, <2>4
<1> QED BY <1>1, <1>2, <1>3

\* The header is kept, the labels are bytes, and what follows is the type and class.
LEMMA OversizedLabelsKeeps ==
    ASSUME NEW p \in Packet, NEW q \in dns_apply_pattern(p, "OversizedLabels")
    PROVE  q \in Packet /\ (Len(p) >= 12 => WholeHeader(p, q)) /\ (q = p \/ Labelled(q))
<1>1. Len(p) \in Nat /\ q \in inject_oversized_labels(p)
  BY DEF Packet, dns_apply_pattern
<1>2. CASE Len(p) <= 12
  BY <1>1, <1>2 DEF inject_oversized_labels, WholeHeader
<1>3. CASE Len(p) > 12
  <2>1. PICK b \in Bytes :
           q = SubSeq(p, 1, 12) \o <<Max({b, 64})>> \o Repeated(65, Max({b, 64}))
                  \o <<0>> \o be(1) \o be(1)
    <3>1. ~(Len(p) <= 12)
      BY <1>1, <1>3
    <3>2. q \in {SubSeq(p, 1, 12) \o <<Max({b, 64})>> \o Repeated(65, Max({b, 64}))
                    \o <<0>> \o be(1) \o be(1) : b \in Bytes}
      BY <1>1, <3>1, Zenon DEF inject_oversized_labels
    <3> QED BY <3>2, Zenon
  <2>2. PICK n \in Byte : n = Max({b, 64}) /\ n >= 64
    <3>1. b \in Nat /\ b \in Byte /\ 64 \in Byte
      BY Drawn DEF Byte
    <3>2. \E m \in {b, 64} : \A k \in {b, 64} : m >= k
      BY <3>1
    <3>3. Max({b, 64}) \in {b, 64} /\ Max({b, 64}) >= 64
      BY <3>2 DEF Max
    <3> QED BY <3>1, <3>3
  <2>3. PICK h : h = SubSeq(p, 1, 12)
    OBVIOUS
  <2>4. Sized(h, 12) /\ \A i \in 1..12 : h[i] = p[i]
    <3>1. 12 \in 0..Len(p)
      BY <1>1, <1>3
    <3> QED BY <2>3, <3>1, Cut DEF Sized
  <2>5. PICK l : l = h \o <<n>>
    OBVIOUS
  <2>6. Sized(l, 13) /\ \A i \in 1..12 : l[i] = p[i]
    <3>1. PICK e : e = <<n>>
      OBVIOUS
    <3>2. Sized(e, 1)
      BY <3>1 DEF Sized, Packet
    <3>3. PICK m \in Nat, k \in Nat : m = 12 /\ k = 1
      OBVIOUS
    <3>4. Sized(h, m) /\ Sized(e, k)
      BY <2>4, <3>2, <3>3
    <3>5. Sized(h \o e, m + k) /\ Starts(h \o e, h, m)
      BY <3>4, Prefixed, Zenon
    <3>6. Sized(l, m + k) /\ Starts(l, h, m)
      BY <2>5, <3>1, <3>5, Zenon
    <3>7. Sized(l, 13)
      BY <3>3, <3>6
    <3>8. \A i \in 1..12 : l[i] = h[i]
      BY <3>3, <3>6 DEF Starts
    <3> QED BY <2>4, <3>7, <3>8
  <2>7. PICK F : F = Repeated(65, n)
    OBVIOUS
  <2>8. n \in Nat /\ Sized(F, n) /\ \A i \in 1..n : F[i] = 65
    BY <2>7 DEF Sized, Packet, Byte, Repeated
  <2>9. PICK t : t = be(1) /\ Sized(t, 2)
    BY BeBytes DEF Sized
  <2>10. Query(q, l, F, t, t)
    BY <2>1, <2>2, <2>3, <2>5, <2>7, <2>9 DEF Query
  <2>11. PICK m \in Nat : m = 13
    OBVIOUS
  <2>12. Sized(l, m)
    BY <2>6, <2>11
  <2>13. Parts(q, l, F, m, n)
    BY <2>8, <2>9, <2>10, <2>12, QueryParts, Zenon
  <2>14. /\ Sized(q, (13 + n) + 5)
         /\ \A i \in 1..13 : q[i] = l[i]
         /\ \A i \in 1..n : q[13 + i] = F[i]
    BY <2>11, <2>13 DEF Parts, Starts, Follows
  <2>15. q \in Packet /\ Len(q) = n + 18
    BY <2>8, <2>14 DEF Sized
  <2>16. WholeHeader(p, q)
    BY <2>6, <2>8, <2>14, <2>15 DEF WholeHeader
  <2>17. Labelled(q)
    <3>1. \A i \in 1..n : q[13 + i] = 65
      <4> TAKE i \in 1..n
      <4>1. q[13 + i] = F[i]
        BY <2>14
      <4>2. F[i] = 65
        BY <2>8
      <4> QED BY <4>1, <4>2
    <3>2. n \in Nat /\ n >= 64
      BY <2>2, <2>8
    <3> QED BY <2>15, <3>1, <3>2 DEF Labelled
  <2> QED BY <2>15, <2>16, <2>17
<1> QED BY <1>1, <1>2, <1>3

\* Of every pattern: it stays within the packet and leaves the header, but for the flags.
LEMMA PatternKeeps ==
    ASSUME NEW p \in Packet, NEW pattern \in MalformedPatterns,
           NEW q \in dns_apply_pattern(p, pattern)
    PROVE  /\ q \in Packet
           /\ Len(p) >= 12 => SameHeader(p, q)
           /\ Len(p) >= 12 /\ pattern # "InvalidHeader" => WholeHeader(p, q)
           /\ Layout(p) /\ pattern \in FlagsAndFields => Layout(q)
<1>0. WholeHeader(p, q) => SameHeader(p, q)
  BY DEF WholeHeader, SameHeader
<1>1. CASE pattern = "InvalidHeader"
  BY <1>1, InvalidHeaderKeeps
<1>2. CASE pattern = "InvalidQType"
  BY <1>2, <1>0, InvalidQTypeKeeps
<1>3. CASE pattern = "InvalidQClass"
  BY <1>3, <1>0, InvalidQClassKeeps
<1>4. CASE pattern = "TruncatedQuery"
  BY <1>4, <1>0, TruncatedQueryKeeps DEF FlagsAndFields
<1>5. CASE pattern = "OversizedQuery"
  BY <1>5, <1>0, OversizedQueryKeeps DEF FlagsAndFields
<1>6. CASE pattern = "PointerLoop"
  BY <1>6, <1>0, PointerLoopKeeps DEF FlagsAndFields
<1>7. CASE pattern = "OversizedLabels"
  BY <1>7, <1>0, OversizedLabelsKeeps DEF FlagsAndFields
<1>8. CASE pattern = "InvalidCompression"
  BY <1>8, <1>0, InvalidCompressionKeeps DEF FlagsAndFields
<1> QED BY <1>1, <1>2, <1>3, <1>4, <1>5, <1>6, <1>7, <1>8 DEF MalformedPatterns

\* Of every pattern: the bytes that stand alone after it are four more at most, or few.
LEMMA PatternAlone ==
    ASSUME NEW p \in Packet, NEW pattern \in MalformedPatterns,
           NEW q \in dns_apply_pattern(p, pattern)
    PROVE  Cardinality(Alone(q)) <= Cardinality(Alone(p)) + 4 \/ Cardinality(Alone(q)) <= 18
<1>1. q \in Packet
  BY PatternKeeps
<1>2. TwoBytes(p, q) => Cardinality(Alone(q)) <= Cardinality(Alone(p)) + 4
  BY <1>1, TwoBytesAlone
<1>3. CASE pattern = "InvalidHeader"
  <2>1. TwoBytes(p, q)
    BY <1>3, InvalidHeaderKeeps
  <2> QED BY <1>2, <2>1
<1>4. CASE pattern = "InvalidQType"
  <2>1. TwoBytes(p, q)
    BY <1>4, InvalidQTypeKeeps
  <2> QED BY <1>2, <2>1
<1>5. CASE pattern = "InvalidQClass"
  <2>1. TwoBytes(p, q)
    BY <1>5, InvalidQClassKeeps
  <2> QED BY <1>2, <2>1
<1>6. CASE pattern = "TruncatedQuery"
  <2>1. Len(q) <= Len(p) /\ \A j \in 1..Len(q) : q[j] = p[j]
    BY <1>6, TruncatedQueryKeeps
  <2> QED BY <1>1, <2>1, CutAlone
<1>7. CASE pattern = "OversizedQuery"
  <2>1. Padded(p, q)
    BY <1>7, OversizedQueryKeeps
  <2>2. PICK m \in Nat : /\ m >= 1000 /\ Len(q) = Len(p) + m
                         /\ \A j \in 1..Len(p) : q[j] = p[j]
                         /\ \A j \in 1..m : q[Len(p) + j] = 0
    BY <2>1, Zenon DEF Padded
  <2>3. m >= 2
    BY <2>2
  <2> QED BY <1>1, <2>2, <2>3, PaddedAlone
<1>8. CASE pattern = "PointerLoop"
  <2>1. TwoBytes(p, q)
    BY <1>8, PointerLoopKeeps
  <2> QED BY <1>2, <2>1
<1>9. CASE pattern = "OversizedLabels"
  <2>1. q = p \/ Labelled(q)
    BY <1>9, OversizedLabelsKeeps
  <2>2. CASE q = p
    BY <1>2, <2>2, NothingWritten
  <2>3. CASE Labelled(q)
    <3>1. PICK m \in Nat : m >= 64 /\ Len(q) = m + 18 /\ \A j \in 1..m : q[13 + j] = 65
      BY <2>3 DEF Labelled
    <3>2. m >= 2
      BY <3>1
    <3> QED BY <1>1, <3>1, <3>2, LabelsAlone
  <2> QED BY <2>1, <2>2, <2>3
<1>10. CASE pattern = "InvalidCompression"
  <2>1. TwoBytes(p, q)
    BY <1>10, InvalidCompressionKeeps
  <2> QED BY <1>2, <2>1
<1> QED BY <1>3, <1>4, <1>5, <1>6, <1>7, <1>8, <1>9, <1>10 DEF MalformedPatterns

\* Of every mutation: what it makes of any bytes at all, it stays within them.
LEMMA MutationKeeps ==
    ASSUME NEW p \in Packet, NEW q \in dns_mutate_packet(p)
    PROVE  q \in Packet
<1>1. CASE q \in common_mutations(p)
  BY <1>1, CommonMutationKeeps
<1>2. CASE \E pattern \in MalformedPatterns : q \in dns_apply_pattern(p, pattern)
  BY <1>2, PatternKeeps
<1> QED BY <1>1, <1>2 DEF dns_mutate_packet

-----------------------------------------------------------------------------
(* Valid packets *)

\* A query has its name between the header and the type, and no zero in it.
LEMMA ValidLayout ==
    ASSUME NEW p \in generate_valid_dns_packet
    PROVE  p \in Packet /\ Layout(p) /\ PlainHeader(p) /\ Len(p) <= 337
<1>1. PICK id \in Ids, name \in Names, type \in QueryTypes : p = build(id, name, type)
  BY DEF generate_valid_dns_packet
<1> DEFINE labels == [i \in DOMAIN name |-> <<Len(name[i])>> \o name[i]]
<1>2. /\ id \in Nat /\ type \in Nat /\ name \in Seq(Seq(1..255)) /\ Len(name) \in 1..5
      /\ \A i \in 1..Len(name) : Len(name[i]) \in 1..63
  <2>1. id \in Word /\ type \in Word
    BY DnsAssumption
  <2>2. \A x \in Word : x \in Nat
    BY DEF Word
  <2>3. /\ name \in Seq(Seq(1..255)) /\ Len(name) \in 1..5
        /\ \A i \in 1..Len(name) : Len(name[i]) \in 1..63
    BY DnsAssumption
  <2> QED BY <2>1, <2>2, <2>3
<1>3. PICK L \in Nat \ {0} : L = Len(name) /\ L <= 5 /\ DOMAIN name = 1..L
  <2>1. name \in Seq(Seq(1..255)) /\ Len(name) \in 1..5
    BY <1>2
  <2>2. DOMAIN name = 1..Len(name)
    BY <2>1, LenProperties
  <2>3. PICK m \in 1..5 : m = Len(name)
    BY <2>1
  <2>4. m \in Nat \ {0} /\ m <= 5
    BY <2>3
  <2> QED BY <2>2, <2>3, <2>4
<1>4. /\ labels \in Seq(Seq(1..255)) /\ Len(labels) = L
      /\ \A i \in 1..L : 0 <= Len(labels[i]) /\ Len(labels[i]) <= 64
  <2>1. ASSUME NEW i \in 1..L
        PROVE  LET label == <<Len(name[i])>> \o name[i]
               IN  label \in Seq(1..255) /\ 0 <= Len(label) /\ Len(label) <= 64
    <3>1. i \in 1..Len(name)
      BY <1>3
    <3>2. name[i] \in Seq(1..255)
      BY <1>2, <3>1, ElementOfSeq, Zenon
    <3>3. Len(name[i]) \in 1..63
      BY <1>2, <3>1
    <3>4. PICK x : x = name[i]
      OBVIOUS
    <3>5. PICK k \in 1..63 : k = Len(name[i])
      BY <3>3
    <3>6. PICK y : y = <<k>>
      OBVIOUS
    <3>7. y \in Seq(1..255) /\ Len(y) = 1
      BY <3>5, <3>6
    <3>8. x \in Seq(1..255) /\ Len(x) = k
      BY <3>2, <3>4, <3>5
    <3>9. y \o x \in Seq(1..255) /\ Len(y \o x) = Len(y) + Len(x)
      BY <3>7, <3>8, ConcatProperties, Zenon
    <3>10. 0 <= Len(y \o x) /\ Len(y \o x) <= 64
      BY <3>7, <3>8, <3>9
    <3> QED BY <3>4, <3>5, <3>6, <3>9, <3>10
  <2>2. labels = [i \in 1..L |-> <<Len(name[i])>> \o name[i]]
    BY <1>3
  <2>3. \A i \in 1..L : labels[i] = <<Len(name[i])>> \o name[i]
    BY <2>2
  <2> HIDE DEF labels
  <2>4. \A i \in 1..L : labels[i] \in Seq(1..255)
    BY <2>1, <2>3, Zenon
  <2>5. labels \in Seq(Seq(1..255)) /\ Len(labels) = L
    BY <2>2, <2>4
  <2>6. \A i \in 1..L : 0 <= Len(labels[i]) /\ Len(labels[i]) <= 64
    BY <2>1, <2>3
  <2> QED BY <2>5, <2>6
<1>5. PICK F \in Seq(1..255) : F = FlattenSeq(labels)
  BY <1>4, FlattenIsSeq
<1>6. PICK h : Header(h, id)
  BY DEF Header
<1>7. p = h \o F \o <<0>> \o be(type) \o be(1)
  BY <1>1, <1>5, <1>6 DEF build, Header
<1> HIDE DEF labels
<1>8. PICK n \in Nat : n = Len(F) /\ \A i \in 1..n : F[i] \in 1..255
  <2>1. Len(F) \in Nat
    BY LenProperties, Zenon
  <2>2. \A i \in 1..Len(F) : F[i] \in 1..255
    BY ElementOfSeq, Zenon
  <2> QED BY <2>1, <2>2
<1>9. n <= 320
  <2>1. PICK lo \in Nat, hi \in Nat : lo = 0 /\ hi = 64
    OBVIOUS
  <2>2. \A i \in 1..L : lo <= Len(labels[i]) /\ Len(labels[i]) <= hi
    BY <1>4, <2>1
  <2>3. n <= L * hi
    BY <1>4, <1>5, <1>8, <2>2, FlattenSize
  <2>4. L \in {1, 2, 3, 4, 5}
    BY <1>3
  <2> QED BY <2>1, <2>3, <2>4
<1>10. F \in Packet
  <2>1. \A i \in 1..n : F[i] \in Byte
    BY <1>8 DEF Byte
  <2> QED BY <1>5, <1>8, <2>1 DEF Packet
<1>11. PICK t, u : t = be(type) /\ u = be(1)
  OBVIOUS
<1>12. Sized(h, 12) /\ PlainHeader(h)
  BY <1>2, <1>6, HeaderIsPlain
<1>13. Sized(F, n) /\ Sized(t, 2) /\ Sized(u, 2)
  <2>1. Sized(F, n)
    BY <1>8, <1>10 DEF Sized
  <2>2. be(type) \in Packet /\ Len(be(type)) = 2 /\ be(1) \in Packet /\ Len(be(1)) = 2
    BY <1>2, BeBytes
  <2> QED BY <1>11, <2>1, <2>2 DEF Sized
<1>14. Query(p, h, F, t, u)
  BY <1>7, <1>11 DEF Query
<1>15. PICK k \in Nat : k = 12
  OBVIOUS
<1>16. Parts(p, h, F, k, n)
  <2>1. Sized(h, k)
    BY <1>12, <1>15
  <2> QED BY <1>8, <1>13, <1>14, <2>1, QueryParts, Zenon
<1>17. /\ p \in Packet /\ Len(p) = 17 + n
       /\ \A i \in 1..12 : p[i] = h[i]
       /\ \A i \in 1..n : p[12 + i] = F[i]
       /\ p[13 + n] = 0
  <2>1. /\ Sized(p, (k + n) + 5) /\ Starts(p, h, k) /\ Follows(p, F, k, n)
        /\ p[(k + n) + 1] = 0
    BY <1>16 DEF Parts
  <2>2. (k + n) + 5 = 17 + n /\ (k + n) + 1 = 13 + n
    BY <1>15
  <2> QED BY <1>15, <2>1, <2>2 DEF Sized, Starts, Follows
<1>18. Layout(p)
  <2>1. Len(p) - 5 = 12 + n /\ Len(p) - 4 = 13 + n /\ Len(p) >= 17
    BY <1>17
  <2>2. ASSUME NEW i \in 13..(12 + n) PROVE p[i] # 0
    <3>1. PICK l \in 1..n : i = 12 + l
      <4>1. i - 12 \in 1..n /\ i = 12 + (i - 12)
        OBVIOUS
      <4> QED BY <4>1
    <3>2. p[12 + l] = F[l]
      BY <1>17
    <3>3. F[l] # 0
      <4>1. F[l] \in 1..255
        BY <1>8
      <4>2. \A x \in 1..255 : x # 0
        OBVIOUS
      <4> QED BY <4>1, <4>2, Zenon
    <3>4. p[i] = F[l]
      BY <3>1, <3>2
    <3> QED BY <3>3, <3>4
  <2> QED BY <1>17, <2>1, <2>2 DEF Layout
<1>19. PlainHeader(p)
  <2>1. WholeHeader(h, p)
    BY <1>17 DEF WholeHeader
  <2> QED BY <1>12, <2>1, WholeIsPlain
<1> QED BY <1>9, <1>17, <1>18, <1>19

-----------------------------------------------------------------------------
(* The life of a test case *)

\* The invariant holds of the valid packet, and is kept by every pattern and mutation.
LEMMA PacketInvAlways == Spec => []PacketInv
<1>1. Init => PacketInv
  <2> SUFFICES ASSUME Init PROVE PacketInv
    OBVIOUS
  <2>1. packet \in generate_valid_dns_packet /\ base = packet /\ applied = << >> /\ mutations = 0
    BY DEF Init
  <2> QED BY <2>1, ValidLayout DEF PacketInv, SameHeader, PlainHeader
<1>2. PacketInv /\ [Next]_vars => PacketInv'
  <2> SUFFICES ASSUME PacketInv, [Next]_vars PROVE PacketInv'
    OBVIOUS
  <2>1. ASSUME NEW pattern \in MalformedPatterns, ApplyPattern(pattern) PROVE PacketInv'
    <3>1. /\ packet' \in dns_apply_pattern(packet, pattern)
          /\ applied' = Append(applied, pattern) /\ base' = base /\ mutations' = mutations
      BY <2>1 DEF ApplyPattern
    <3>2. PICK p, q, r : p = packet /\ q = packet' /\ r = base
      OBVIOUS
    <3>3. /\ q \in Packet
          /\ Len(p) >= 12 => SameHeader(p, q)
          /\ Layout(p) /\ pattern \in FlagsAndFields => Layout(q)
      BY <3>1, <3>2, PatternKeeps DEF PacketInv
    <3>4. applied' \in Seq(MalformedPatterns)
      BY <3>1, AppendProperties DEF PacketInv
    <3>5. ToSet(applied') = ToSet(applied) \cup {pattern}
      BY <3>1, AppendedSet DEF PacketInv
    <3>6. ASSUME mutations = 0
          PROVE  SameHeader(r, q) /\ (ToSet(applied') \subseteq FlagsAndFields => Layout(q))
      <4>1. SameHeader(r, p) /\ (ToSet(applied) \subseteq FlagsAndFields => Layout(p))
        BY <3>2, <3>6 DEF PacketInv
      <4>2. SameHeader(r, q)
        BY <3>3, <4>1 DEF SameHeader
      <4> QED BY <3>3, <3>5, <4>1, <4>2
    <3> QED BY <3>1, <3>2, <3>3, <3>4, <3>6 DEF PacketInv
  <2>2. CASE MutatePacket
    <3>1. /\ packet' \in dns_mutate_packet(packet) /\ mutations' = mutations + 1
          /\ base' = base /\ applied' = applied
      BY <2>2 DEF MutatePacket
    <3>2. packet' \in Packet
      BY <3>1, MutationKeeps DEF PacketInv
    <3>3. mutations' \in Nat /\ mutations' # 0
      BY <3>1 DEF PacketInv
    <3> QED BY <3>1, <3>2, <3>3 DEF PacketInv
  <2>3. CASE UNCHANGED vars
    BY <2>3 DEF vars, PacketInv
  <2> QED BY <2>1, <2>2, <2>3 DEF Next
<1> QED BY <1>1, <1>2, PTL DEF Spec

\* What the analyzer looks at is kept as well.
LEMMA SeenInvAlways == Spec => []SeenInv
<1>1. Init => SeenInv
  <2> SUFFICES ASSUME Init PROVE SeenInv
    OBVIOUS
  <2>1. /\ packet \in generate_valid_dns_packet /\ applied = << >> /\ mutations = 0
        /\ left \in 0..PatternBound
    BY DEF Init
  <2>2. packet \in Packet /\ PlainHeader(packet) /\ Len(packet) <= 337
    BY <2>1, ValidLayout
  <2>3. Cardinality(Alone(packet)) <= 337
    BY <2>2, AloneIsFinite, PacketBytes
  <2>4. left \in Nat /\ left <= PatternBound
    BY <2>1, DnsAssumption
  <2>5. Len(applied) = 0
    BY <2>1
  <2>6. left + Len(applied) <= PatternBound
    BY <2>4, <2>5
  <2>7. Cardinality(Alone(packet)) <= 337 + 4 * Len(applied)
    BY <2>3, <2>5
  <2> QED BY <2>1, <2>2, <2>4, <2>6, <2>7 DEF SeenInv
<1>2. PacketInv /\ SeenInv /\ [Next]_vars => SeenInv'
  <2> SUFFICES ASSUME PacketInv, SeenInv, [Next]_vars PROVE SeenInv'
    OBVIOUS
  <2>1. ASSUME NEW pattern \in MalformedPatterns, ApplyPattern(pattern) PROVE SeenInv'
    <3>1. /\ packet' \in dns_apply_pattern(packet, pattern) /\ left > 0 /\ left' = left - 1
          /\ applied' = Append(applied, pattern) /\ mutations' = mutations
      BY <2>1 DEF ApplyPattern
    <3>2. PICK p : p = packet
      OBVIOUS
    <3>3. PICK q : q = packet'
      OBVIOUS
    <3>4. p \in Packet /\ q \in dns_apply_pattern(p, pattern) /\ applied \in Seq(MalformedPatterns)
      BY <3>1, <3>2, <3>3 DEF PacketInv
    <3>5. /\ q \in Packet
          /\ Len(p) >= 12 /\ pattern # "InvalidHeader" => WholeHeader(p, q)
      BY <3>4, PatternKeeps
    <3>6. PICK n \in Nat : n = Len(applied)
      BY <3>4, LenProperties
    <3>7. /\ Len(applied') = n + 1 /\ applied'[n + 1] = pattern
          /\ ToSet(applied') = ToSet(applied) \cup {pattern}
      BY <3>1, <3>4, <3>6, AppendProperties, AppendedSet
    <3>8. left' \in Nat /\ left' + Len(applied') <= PatternBound
      <4>1. left \in Nat /\ left + n <= PatternBound
        BY <3>6 DEF SeenInv
      <4>2. left' = left - 1 /\ Len(applied') = n + 1 /\ left > 0
        BY <3>1, <3>7
      <4>3. PatternBound \in Nat
        BY DnsAssumption
      <4> QED BY <4>1, <4>2, <4>3
    <3>9. ASSUME mutations = 0
          PROVE  /\ "InvalidHeader" \notin ToSet(applied') => PlainHeader(q)
                 /\ Cardinality(Alone(q)) <= 337 + 4 * (n + 1)
                 /\ pattern = "OversizedQuery" => Len(q) >= 1012
      <4>1. /\ "InvalidHeader" \notin ToSet(applied) => PlainHeader(p)
            /\ Cardinality(Alone(p)) <= 337 + 4 * n
        BY <3>2, <3>6, <3>9 DEF SeenInv
      <4>2. Len(p) >= 12
        BY <3>2, <3>9 DEF PacketInv, SameHeader
      <4>3. ASSUME "InvalidHeader" \notin ToSet(applied') PROVE PlainHeader(q)
        <5>1. "InvalidHeader" \notin ToSet(applied) /\ pattern # "InvalidHeader"
          BY <3>7, <4>3
        <5> QED BY <3>5, <4>1, <4>2, <5>1, WholeIsPlain
      <4>4. Cardinality(Alone(q)) <= 337 + 4 * (n + 1)
        <5>1. /\ Cardinality(Alone(p)) \in Nat /\ Cardinality(Alone(q)) \in Nat
          BY <3>4, <3>5, AloneIsFinite
        <5>2. \/ Cardinality(Alone(q)) <= Cardinality(Alone(p)) + 4
              \/ Cardinality(Alone(q)) <= 18
          BY <3>4, PatternAlone
        <5> QED BY <4>1, <5>1, <5>2
      <4>5. ASSUME pattern = "OversizedQuery" PROVE Len(q) >= 1012
        <5>1. Padded(p, q)
          BY <3>4, <4>5, OversizedQueryKeeps
        <5>2. PICK m \in Nat : m >= 1000 /\ Len(q) = Len(p) + m
          BY <5>1, Zenon DEF Padded
        <5>3. Len(p) \in Nat
          BY <3>4, PacketBytes
        <5> QED BY <4>2, <5>2, <5>3
      <4> QED BY <4>3, <4>4, <4>5
    <3>10. ASSUME Last(applied') = "OversizedQuery" PROVE pattern = "OversizedQuery"
      BY <3>7, <3>10 DEF Last
    <3>11. ASSUME mutations' = 0
           PROVE  /\ "InvalidHeader" \notin ToSet(applied') => PlainHeader(packet')
                  /\ Cardinality(Alone(packet')) <= 337 + 4 * Len(applied')
                  /\ Last(applied') = "OversizedQuery" => Len(packet') >= 1012
      <4>1. mutations = 0
        BY <3>1, <3>11
      <4> QED BY <3>3, <3>7, <3>9, <3>10, <4>1
    <3> QED BY <3>8, <3>11 DEF SeenInv
  <2>2. CASE MutatePacket
    <3>1. mutations' = mutations + 1 /\ left' = left /\ applied' = applied
      BY <2>2 DEF MutatePacket
    <3>2. mutations' # 0
      BY <3>1 DEF PacketInv
    <3> QED BY <3>1, <3>2 DEF SeenInv
  <2>3. CASE UNCHANGED vars
    BY <2>3 DEF vars, SeenInv
  <2> QED BY <2>1, <2>2, <2>3 DEF Next
<1> QED BY <1>1, <1>2, PacketInvAlways, PTL DEF Spec

\* No pattern and no mutation looks or writes beyond the end of a packet, whatever was
\* done to it before (dns.rs:116-235, protocols/mod.rs:78-123).
THEOREM IndicesInBoundsAlways == Spec => []IndicesInBounds
<1>1. PacketInv => IndicesInBounds
  BY DrawsAssumption DEF PacketInv, Packet, IndicesInBounds
<1> QED BY <1>1, PacketInvAlways, PTL

\* Whatever patterns were applied, and however often, a malformed query has the
\* transaction identifier and the counts of the query it was made from (dns.rs:116-235).
THEOREM HeaderSurvivesAlways == Spec => []HeaderSurvives
<1>1. PacketInv => HeaderSurvives
  BY DEF PacketInv, SameHeader, HeaderSurvives
<1> QED BY <1>1, PacketInvAlways, PTL

\* As long as its flags were left alone, whatever else was done to a query, the analyzer
\* takes it for DNS; and one that was filled up last it finds repetitive, whatever was
\* done to it before (utils/network.rs:169-211, :290-296).
THEOREM AnalyzerSeesThroughAlways == Spec => []AnalyzerSeesThrough
<1>1. PacketInv /\ SeenInv => AnalyzerSeesThrough
  <2> SUFFICES ASSUME PacketInv, SeenInv, mutations = 0
               PROVE  /\ "InvalidHeader" \notin ToSet(applied) => detect_protocol(packet) = "DNS"
                      /\ applied # << >> /\ Last(applied) = "OversizedQuery"
                            => highly_repetitive(packet)
    BY DEF AnalyzerSeesThrough
  <2>1. "InvalidHeader" \notin ToSet(applied) => PlainHeader(packet)
    BY DEF SeenInv
  <2>2. ASSUME applied # << >>, Last(applied) = "OversizedQuery"
        PROVE  highly_repetitive(packet)
    <3>1. Len(packet) >= 1012 /\ packet \in Packet
      BY <2>2 DEF SeenInv, PacketInv
    <3>2. PICK n \in Nat : n = Len(applied)
      BY LenProperties DEF PacketInv
    <3>3. n <= 3
      <4>1. left \in Nat /\ left + n <= PatternBound
        BY <3>2 DEF SeenInv
      <4>2. PatternBound \in 0..3
        BY DnsAssumption
      <4> QED BY <4>1, <4>2
    <3>4. Cardinality(Alone(packet)) <= 337 + 4 * n /\ Cardinality(Alone(packet)) \in Nat
      BY <3>1, <3>2, AloneIsFinite DEF SeenInv
    <3>5. Cardinality(Alone(packet)) <= 349
      BY <3>3, <3>4
    <3> QED BY <3>1, <3>5, FewAlone
  <2> QED BY <2>1, <2>2, PlainIsDns
<1> QED BY <1>1, PacketInvAlways, SeenInvAlways, PTL

\* The pattern for the class leaves every query alone whose name is intact, of whatever
\* name and type (dns.rs:150-163).
THEOREM ClassNeverHitAlways == Spec => ClassNeverHit
<1> DEFINE Hit == [ mutations = 0
                     /\ ToSet(applied') \subseteq {"InvalidHeader", "InvalidQType", "InvalidQClass"}
                     /\ applied' = Append(applied, "InvalidQClass") => packet' = packet ]_vars
<1>1. PacketInv /\ [Next]_vars => Hit
  <2> SUFFICES ASSUME PacketInv, Next, mutations = 0,
                      ToSet(applied') \subseteq FlagsAndFields,
                      applied' = Append(applied, "InvalidQClass")
               PROVE  packet' = packet
    BY DEF FlagsAndFields
  <2>1. applied \in Seq(MalformedPatterns) /\ applied' # applied
    <3>1. applied \in Seq(MalformedPatterns) /\ "InvalidQClass" \in MalformedPatterns
      BY DEF PacketInv, MalformedPatterns
    <3>2. Len(applied') = Len(applied) + 1 /\ Len(applied) \in Nat
      BY <3>1, AppendProperties
    <3> QED BY <3>1, <3>2
  <2>2. PICK pattern \in MalformedPatterns : ApplyPattern(pattern)
    BY <2>1 DEF Next, MutatePacket
  <2>3. Append(applied, pattern) = Append(applied, "InvalidQClass")
    BY <2>2 DEF ApplyPattern
  <2>4. pattern = "InvalidQClass"
    BY <2>1, <2>3, AppendSplits DEF MalformedPatterns
  <2>5. ToSet(applied) \subseteq FlagsAndFields
    <3>1. ToSet(Append(applied, pattern)) = ToSet(applied) \cup {pattern}
      BY <2>1, AppendedSet
    <3> QED BY <2>3, <3>1
  <2>6. Layout(packet) /\ packet \in Packet
    BY <2>5 DEF PacketInv
  <2>7. packet' \in dns_apply_pattern(packet, "InvalidQClass")
    BY <2>2, <2>4 DEF ApplyPattern
  <2> QED BY <2>6, <2>7, InvalidQClassKeeps
<1>2. Spec => [][Next]_vars
  BY PTL DEF Spec
<1> QED BY <1>1, <1>2, PacketInvAlways, PTL DEF ClassNeverHit
=============================================================================
