----------------------------- MODULE PacketProofs -----------------------------
(***************************************************************************)
(* What the proofs about the packets of both fuzzers rest on: bytes and    *)
(* sequences of bytes, concatenations, and the mutations that the fuzzers  *)
(* share, for any draws.                                                   *)
(*                                                                         *)
(* Two operators are recursive functions over a range of numbers.  What is *)
(* needed of them follows by induction, in the form of a set of numbers    *)
(* that has no smallest one outside it (Induction).                        *)
(***************************************************************************)
EXTENDS PacketMutations, SequenceTheorems, WellFoundedInduction, TLAPS

Packet == Seq(Byte)

\* The concatenations of the first one, two and more of L sequences.
Accumulates(f, ss, L) == \A i \in 1..L : f[i] = IF i = 1 THEN ss[i] ELSE f[i - 1] \o ss[i]

\* How a concatenation c of bytes relates to its parts.
Sized(a, m) == a \in Packet /\ Len(a) = m
Starts(c, a, m) == \A i \in 1..m : c[i] = a[i]
Follows(c, b, m, k) == \A i \in 1..k : c[m + i] = b[i]

-----------------------------------------------------------------------------
(* Induction *)

\* A set of numbers that is not empty has a smallest one.
LEMMA Smallest ==
    ASSUME NEW T \in SUBSET Nat, T # {}
    PROVE  \E n \in T : \A m \in T : n <= m
<1> DEFINE R == {ss \in Nat \X Nat : ss[1] < ss[2]}
<1>1. IsWellFoundedOn(R, Nat)
  BY NatLessThanWellFounded DEF OpToRel
<1>2. PICK n \in T : \A m \in T : ~(<<m, n>> \in R)
  BY <1>1, WFMin, Zenon
<1>3. \A m \in T : n <= m
  <2> TAKE m \in T
  <2>1. m \in Nat /\ n \in Nat /\ ~(<<m, n>> \in R)
    BY <1>2
  <2>2. <<m, n>> \in Nat \X Nat /\ <<m, n>>[1] = m /\ <<m, n>>[2] = n
    BY <2>1
  <2>3. ~(<<m, n>>[1] < <<m, n>>[2])
    BY <2>1, <2>2, Zenon
  <2>4. ~(m < n)
    BY <2>2, <2>3
  <2> QED BY <2>1, <2>4
<1> QED BY <1>3

\* Min chooses it.
LEMMA MinOf ==
    ASSUME NEW T \in SUBSET Nat, T # {}
    PROVE  Min(T) \in T /\ \A m \in T : Min(T) <= m
<1>1. \E n \in T : \A m \in T : n <= m
  BY Smallest
<1> QED BY <1>1 DEF Min

\* Induction on numbers, for a set of them.
LEMMA Induction ==
    ASSUME NEW T \in SUBSET Nat, 0 \in T, \A n \in T : n + 1 \in T
    PROVE  T = Nat
<1> SUFFICES ASSUME Nat \ T # {} PROVE FALSE
  OBVIOUS
<1>1. PICK n \in Nat \ T : \A m \in Nat \ T : n <= m
  BY Smallest
<1>2. n # 0 /\ n - 1 \in Nat
  BY <1>1
<1>3. n - 1 \in T
  BY <1>1, <1>2
<1> QED BY <1>1, <1>2, <1>3

\* FlattenSeq takes one sequence after the other.
LEMMA FlattenSteps ==
    ASSUME NEW S, NEW ss \in Seq(Seq(S)), NEW L \in Nat \ {0}, L = Len(ss)
    PROVE  /\ FlattenSeq(ss) \in Seq(S)
           /\ \E f \in [1..L -> Seq(S)] :
                 FlattenSeq(ss) = f[L] /\ Accumulates(f, ss, L)
<1> DEFINE Good(g, n) == \A i \in 1..n : g[i] = IF i = 1 THEN ss[i] ELSE g[i - 1] \o ss[i]
           flatten == CHOOSE f : f = [i \in 1..Len(ss) |->
                                         IF i = 1 THEN ss[i] ELSE f[i - 1] \o ss[i]]
<1>0. \A i \in 1..L : ss[i] \in Seq(S)
  BY ElementOfSeq
<1>1. FlattenSeq(ss) = flatten[L]
  BY DEF FlattenSeq
<1>2. \A a, b \in Seq(S) : a \o b \in Seq(S)
  OBVIOUS
<1> DEFINE T == {n \in Nat : n <= L => \E g \in [1..n -> Seq(S)] : Good(g, n)}
<1> HIDE DEF Good
<1>3. 0 \in T
  <2>1. << >> \in [1..0 -> Seq(S)] /\ 1..0 = {}
    OBVIOUS
  <2>2. Good(<< >>, 0)
    BY <2>1 DEF Good
  <2> QED BY <2>1, <2>2
<1>4. ASSUME NEW n \in T PROVE n + 1 \in T
  <2> SUFFICES ASSUME n + 1 <= L PROVE \E g \in [1..(n + 1) -> Seq(S)] : Good(g, n + 1)
    OBVIOUS
  <2>0. n \in Nat /\ n <= L
    OBVIOUS
  <2>1. PICK g \in [1..n -> Seq(S)] : Good(g, n)
    BY <1>4, <2>0
  <2> DEFINE h == [i \in 1..(n + 1) |-> IF i <= n THEN g[i]
                                        ELSE IF i = 1 THEN ss[i] ELSE g[i - 1] \o ss[i]]
  <2>2. \A i \in 1..(n + 1) : h[i] \in Seq(S)
    BY <1>0, <1>2, <2>1
  <2>3. h \in [1..(n + 1) -> Seq(S)]
    BY <2>2
  <2>4. \A i \in 1..n : i \in 1..(n + 1) /\ h[i] = g[i]
    OBVIOUS
  <2>5. h[n + 1] = IF n + 1 = 1 THEN ss[n + 1] ELSE g[n] \o ss[n + 1]
    OBVIOUS
  <2>6. \A i \in 1..(n + 1) : i = n + 1 \/ (i \in 1..n /\ (i # 1 => i - 1 \in 1..n))
    OBVIOUS
  <2>7. n # 0 => n \in 1..n
    OBVIOUS
  <2> HIDE DEF h
  <2>8. Good(h, n + 1)
    <3> SUFFICES ASSUME NEW i \in 1..(n + 1)
                 PROVE  h[i] = IF i = 1 THEN ss[i] ELSE h[i - 1] \o ss[i]
      BY DEF Good
    <3>1. CASE i \in 1..n
      <4>1. i # 1 => i - 1 \in 1..n
        BY <2>0, <3>1
      <4>2. h[i] = g[i] /\ (i # 1 => h[i - 1] = g[i - 1])
        BY <2>4, <3>1, <4>1
      <4>3. g[i] = IF i = 1 THEN ss[i] ELSE g[i - 1] \o ss[i]
        BY <2>1, <3>1 DEF Good
      <4> QED BY <4>2, <4>3
    <3>2. CASE i = n + 1
      BY <2>0, <2>4, <2>5, <2>7, <3>2
    <3> QED BY <2>6, <3>1, <3>2
  <2> QED BY <2>3, <2>8
<1>5. L \in T
  <2> HIDE DEF T
  <2>1. T \in SUBSET Nat
    BY DEF T
  <2> QED BY <1>3, <1>4, <2>1, Induction
<1>6. PICK g \in [1..L -> Seq(S)] : Good(g, L)
  BY <1>5
<1>7. g = [i \in 1..Len(ss) |-> IF i = 1 THEN ss[i] ELSE g[i - 1] \o ss[i]]
  BY <1>6 DEF Good
<1>8. flatten = [i \in 1..Len(ss) |-> IF i = 1 THEN ss[i] ELSE flatten[i - 1] \o ss[i]]
  BY <1>7
<1> HIDE DEF flatten
<1>9. \A i \in 1..L : flatten[i] = IF i = 1 THEN ss[i] ELSE flatten[i - 1] \o ss[i]
  BY <1>8
<1> DEFINE U == {n \in Nat : n \in 1..L => flatten[n] \in Seq(S)}
<1>10. U = Nat
  <2>1. 0 \in U
    OBVIOUS
  <2>2. ASSUME NEW n \in U PROVE n + 1 \in U
    <3> SUFFICES ASSUME n + 1 <= L PROVE flatten[n + 1] \in Seq(S)
      OBVIOUS
    <3>1. CASE n = 0
      BY <1>0, <1>9, <3>1
    <3>2. CASE n # 0
      <4>1. /\ n \in 1..L /\ n + 1 \in 1..L /\ n + 1 # 1 /\ (n + 1) - 1 = n
            /\ flatten[n] \in Seq(S)
        BY <2>2, <3>2
      <4>2. flatten[n + 1] = flatten[n] \o ss[n + 1]
        BY <1>9, <4>1
      <4> QED BY <1>0, <1>2, <4>1, <4>2
    <3> QED BY <3>1, <3>2
  <2> HIDE DEF U
  <2>3. U \in SUBSET Nat
    BY DEF U
  <2> QED BY <2>1, <2>2, <2>3, Induction
<1>11. flatten \in [1..L -> Seq(S)]
  <2>1. ASSUME NEW i \in 1..L PROVE flatten[i] \in Seq(S)
    <3>1. i \in Nat
      OBVIOUS
    <3>2. i \in U
      BY <1>10, <3>1
    <3> QED BY <3>2
  <2>2. flatten = [i \in 1..L |-> flatten[i]]
    BY <1>8
  <2> QED BY <2>1, <2>2
<1>12. flatten[L] \in Seq(S)
  <2>1. L \in 1..L
    OBVIOUS
  <2> QED BY <1>11, <2>1, Zenon
<1>13. Accumulates(flatten, ss, L)
  BY <1>9 DEF Accumulates
<1>14. \E f \in [1..L -> Seq(S)] : FlattenSeq(ss) = f[L] /\ Accumulates(f, ss, L)
  BY <1>1, <1>11, <1>13, Zenon
<1> QED BY <1>1, <1>12, <1>14, Zenon

\* What FlattenSeq makes of sequences over a set is a sequence over it.
LEMMA FlattenIsSeq ==
    ASSUME NEW S, NEW ss \in Seq(Seq(S))
    PROVE  FlattenSeq(ss) \in Seq(S)
<1>1. CASE Len(ss) = 0
  BY <1>1, EmptySeq DEF FlattenSeq
<1>2. CASE Len(ss) # 0
  <2>1. Len(ss) \in Nat \ {0}
    BY <1>2
  <2>2. \A L \in Nat \ {0} : L = Len(ss) => FlattenSeq(ss) \in Seq(S)
    BY FlattenSteps, Zenon
  <2> QED BY <2>1, <2>2
<1> QED BY <1>1, <1>2

\* At least one sequence, and none of them too short or too long: their concatenation
\* is no shorter than the first, and no longer than all of them.
LEMMA FlattenSize ==
    ASSUME NEW S, NEW ss \in Seq(Seq(S)), NEW L \in Nat \ {0}, L = Len(ss),
           NEW lo \in Nat, NEW hi \in Nat, \A i \in 1..L : lo <= Len(ss[i]) /\ Len(ss[i]) <= hi
    PROVE  lo <= Len(FlattenSeq(ss)) /\ Len(FlattenSeq(ss)) <= L * hi
<1>0. PICK f \in [1..L -> Seq(S)] : FlattenSeq(ss) = f[L] /\ Accumulates(f, ss, L)
  BY FlattenSteps, Zenon
<1>1. /\ FlattenSeq(ss) = f[L]
      /\ \A i \in 1..L : f[i] = IF i = 1 THEN ss[i] ELSE f[i - 1] \o ss[i]
  BY <1>0 DEF Accumulates
<1>2. \A i \in 1..L : ss[i] \in Seq(S) /\ f[i] \in Seq(S)
  BY ElementOfSeq
<1> DEFINE Fits(n) == lo <= Len(f[n]) /\ Len(f[n]) <= n * hi
           U == {n \in Nat : n + 1 <= L => Fits(n + 1)}
<1>3. U = Nat
  <2>1. 0 \in U
    <3>1. 1 \in 1..L
      OBVIOUS
    <3>2. f[1] = ss[1] /\ lo <= Len(ss[1]) /\ Len(ss[1]) <= hi
      BY <1>1, <3>1
    <3> QED BY <3>2
  <2>2. ASSUME NEW n \in U PROVE n + 1 \in U
    <3> SUFFICES ASSUME (n + 1) + 1 <= L PROVE Fits((n + 1) + 1)
      OBVIOUS
    <3>1. PICK m \in Nat : m = n + 1
      OBVIOUS
    <3>2. m \in 1..L /\ m + 1 \in 1..L /\ m + 1 # 1 /\ (m + 1) - 1 = m
      BY <3>1
    <3>3. f[m + 1] = f[m] \o ss[m + 1]
      BY <1>1, <3>2
    <3>4. Len(f[m + 1]) = Len(f[m]) + Len(ss[m + 1])
      BY <1>2, <3>2, <3>3, ConcatProperties
    <3>5. Fits(m)
      BY <2>2, <3>1, <3>2
    <3>6. Len(f[m]) \in Nat /\ Len(ss[m + 1]) \in Nat
      BY <1>2, <3>2, LenProperties
    <3>7. lo <= Len(ss[m + 1]) /\ Len(ss[m + 1]) <= hi
      BY <3>2
    <3>8. PICK x \in Nat, y \in Nat : x = m * hi /\ y = (m + 1) * hi /\ y = x + hi
      <4>1. (m + 1) * hi = m * hi + hi /\ m * hi \in Nat
        OBVIOUS
      <4>2. m * hi + hi \in Nat
        BY <4>1
      <4> QED BY <4>1, <4>2
    <3>9. PICK a \in Nat, b \in Nat : a = Len(f[m]) /\ b = Len(ss[m + 1])
      BY <3>6
    <3>10. lo <= a /\ a <= x
      BY <3>5, <3>8, <3>9, Zenon
    <3>11. b <= hi
      BY <3>7, <3>9
    <3>12. lo <= a + b /\ a + b <= y
      BY <3>8, <3>10, <3>11
    <3>13. Fits(m + 1)
      BY <3>4, <3>8, <3>9, <3>12, Zenon
    <3> QED BY <3>1, <3>13
  <2> HIDE DEF U
  <2>3. U \in SUBSET Nat
    BY DEF U
  <2> QED BY <2>1, <2>2, <2>3, Induction
<1>4. L - 1 \in Nat /\ (L - 1) + 1 = L
  OBVIOUS
<1>5. L - 1 \in U
  BY <1>3, <1>4, Zenon
<1>6. Fits(L)
  BY <1>4, <1>5
<1> QED BY <1>1, <1>6

-----------------------------------------------------------------------------
(* Sequences *)

\* What was in a sequence, and what was appended.
LEMMA AppendedSet ==
    ASSUME NEW S, NEW s \in Seq(S), NEW x \in S
    PROVE  ToSet(Append(s, x)) = ToSet(s) \cup {x}
<1>1. PICK n \in Nat : n = Len(s)
  OBVIOUS
<1>2. /\ Append(s, x) \in Seq(S) /\ DOMAIN Append(s, x) = 1..(n + 1) /\ DOMAIN s = 1..n
      /\ Append(s, x)[n + 1] = x /\ \A i \in 1..n : Append(s, x)[i] = s[i]
  BY <1>1, AppendProperties
<1>3. 1..(n + 1) = 1..n \cup {n + 1}
  BY <1>1
<1> QED BY <1>2, <1>3 DEF ToSet

\* The last element that was appended is the one.
LEMMA AppendSplits ==
    ASSUME NEW S, NEW s \in Seq(S), NEW x \in S, NEW y \in S, Append(s, x) = Append(s, y)
    PROVE  x = y
<1>1. Append(s, x)[Len(s) + 1] = x /\ Append(s, y)[Len(s) + 1] = y
  BY AppendProperties
<1> QED BY <1>1

-----------------------------------------------------------------------------
(* Bytes *)

\* A remainder is smaller than what was divided by.
LEMMA Remainder == \A x \in Nat, n \in Nat \ {0} : x % n \in 0..(n - 1)
  OBVIOUS

\* The two bytes of a word.
LEMMA WordBytes ==
    ASSUME NEW x \in Nat, x <= 65535 PROVE x \div 256 \in Byte /\ x % 256 \in Byte
<1>1. PICK q \in Int, r \in 0..255 : q = x \div 256 /\ r = x % 256
  OBVIOUS
<1>2. x = 256 * q + r
  BY <1>1
<1>3. 0 <= q /\ q <= 255
  BY <1>2
<1> QED BY <1>1, <1>3 DEF Byte

\* Sums are words, modulo their width.
LEMMA WordSum ==
    ASSUME NEW b \in Byte, NEW c \in Byte, NEW delta \in Nat
    PROVE  /\ (b * 256 + c + delta) % 65536 \in Nat
           /\ (b * 256 + c + delta) % 65536 <= 65535
<1>1. \A x \in Nat : x % 65536 \in Nat /\ x % 65536 <= 65535
  OBVIOUS
<1>2. PICK x \in Nat : x = b * 256 + c + delta
  BY DEF Byte
<1>3. x % 65536 \in Nat /\ x % 65536 <= 65535
  BY <1>1
<1> QED BY <1>2, <1>3

\* A word is sent as two bytes.
LEMMA BeBytes == \A n \in Nat : be(n) \in Packet /\ Len(be(n)) = 2
<1> TAKE n \in Nat
<1>1. (n \div 256) % 256 \in Byte /\ n % 256 \in Byte
  BY DEF Byte
<1> QED BY <1>1 DEF be, Packet

\* What a packet consists of.
LEMMA PacketBytes ==
    ASSUME NEW p \in Packet
    PROVE  /\ Len(p) \in Nat
           /\ \A i \in 1..Len(p) : p[i] \in Byte /\ p[i] \in Nat /\ p[i] <= 255
<1>1. Len(p) \in Nat /\ \A i \in 1..Len(p) : p[i] \in Byte
  BY DEF Packet
<1>2. \A x \in Byte : x \in Nat /\ x <= 255
  BY DEF Byte
<1> QED BY <1>1, <1>2, Zenon

\* A byte with a bit flipped is a byte.
LEMMA FlippedByte == \A b \in Byte, bit \in 0..7 : Flipped(b, bit) \in Byte
<1> TAKE b \in Byte, bit \in 0..7
<1>1. /\ 2^0 = 1 /\ 2^1 = 2 /\ 2^2 = 4 /\ 2^3 = 8
      /\ 2^4 = 16 /\ 2^5 = 32 /\ 2^6 = 64 /\ 2^7 = 128
  OBVIOUS
<1>2. 2^bit \in {1, 2, 4, 8, 16, 32, 64, 128}
  <2>1. \/ bit = 0 \/ bit = 1 \/ bit = 2 \/ bit = 3
        \/ bit = 4 \/ bit = 5 \/ bit = 6 \/ bit = 7
    OBVIOUS
  <2>2. CASE bit = 0
    <3>1. 2^bit = 1
      BY <1>1, <2>2, Zenon
    <3> QED BY <3>1
  <2>3. CASE bit = 1
    <3>1. 2^bit = 2
      BY <1>1, <2>3, Zenon
    <3> QED BY <3>1
  <2>4. CASE bit = 2
    <3>1. 2^bit = 4
      BY <1>1, <2>4, Zenon
    <3> QED BY <3>1
  <2>5. CASE bit = 3
    <3>1. 2^bit = 8
      BY <1>1, <2>5, Zenon
    <3> QED BY <3>1
  <2>6. CASE bit = 4
    <3>1. 2^bit = 16
      BY <1>1, <2>6, Zenon
    <3> QED BY <3>1
  <2>7. CASE bit = 5
    <3>1. 2^bit = 32
      BY <1>1, <2>7, Zenon
    <3> QED BY <3>1
  <2>8. CASE bit = 6
    <3>1. 2^bit = 64
      BY <1>1, <2>8, Zenon
    <3> QED BY <3>1
  <2>9. CASE bit = 7
    <3>1. 2^bit = 128
      BY <1>1, <2>9, Zenon
    <3> QED BY <3>1
  <2> QED BY <2>1, <2>2, <2>3, <2>4, <2>5, <2>6, <2>7, <2>8, <2>9
<1>3. \A m \in {1, 2, 4, 8, 16, 32, 64, 128} :
         (IF (b \div m) % 2 = 1 THEN b - m ELSE b + m) \in 0..255
  BY DEF Byte
<1> QED BY <1>2, <1>3 DEF Flipped, Byte

\* A byte written within the packet replaces the one that was there.
LEMMA WithByte ==
    ASSUME NEW p \in Packet, NEW i \in Nat, i < Len(p), NEW b \in Byte
    PROVE  /\ With(p, i, b) \in Packet /\ Len(With(p, i, b)) = Len(p)
           /\ \A j \in 1..Len(p) : With(p, i, b)[j] = IF j = i + 1 THEN b ELSE p[j]
<1>1. p # Panic
  BY DrawsAssumption DEF Packet
<1>2. With(p, i, b) = [p EXCEPT ![i + 1] = b]
  BY <1>1 DEF With
<1> QED BY <1>2 DEF Packet

\* Two bytes written side by side.
LEMMA WithWord ==
    ASSUME NEW p \in Packet, NEW i \in Nat, i + 1 < Len(p), NEW b \in Byte, NEW c \in Byte
    PROVE  LET q == With(With(p, i, b), i + 1, c)
           IN  /\ q \in Packet /\ Len(q) = Len(p)
               /\ \A j \in 1..Len(p) :
                     q[j] = IF j = i + 1 THEN b ELSE IF j = i + 2 THEN c ELSE p[j]
<1> DEFINE r == With(p, i, b)
<1>1. /\ r \in Packet /\ Len(r) = Len(p) /\ i + 1 \in Nat /\ i \in Nat
      /\ \A j \in 1..Len(p) : r[j] = IF j = i + 1 THEN b ELSE p[j]
  <2>1. i < Len(p)
    BY DEF Packet
  <2> QED BY <2>1, WithByte
<1> HIDE DEF r
<1>2. /\ With(r, i + 1, c) \in Packet /\ Len(With(r, i + 1, c)) = Len(r)
      /\ \A j \in 1..Len(r) : With(r, i + 1, c)[j] = IF j = (i + 1) + 1 THEN c ELSE r[j]
  BY <1>1, WithByte
<1>3. \A j \in 1..Len(p) :
         With(r, i + 1, c)[j] = IF j = i + 1 THEN b ELSE IF j = i + 2 THEN c ELSE p[j]
  BY <1>1, <1>2
<1> QED BY <1>1, <1>2, <1>3 DEF r

\* Putting packets together.
LEMMA Joined ==
    ASSUME NEW p \in Packet, NEW q \in Packet
    PROVE  /\ p \o q \in Packet /\ Len(p \o q) = Len(p) + Len(q)
           /\ \A i \in 1..Len(p) : (p \o q)[i] = p[i]
           /\ \A i \in 1..Len(q) : (p \o q)[Len(p) + i] = q[i]
  BY DEF Packet

\* The same of packets whose lengths have names.
LEMMA Prefixed ==
    ASSUME NEW a, NEW b, NEW m \in Nat, NEW k \in Nat, Sized(a, m), Sized(b, k)
    PROVE  /\ Sized(a \o b, m + k)
           /\ Starts(a \o b, a, m)
           /\ Follows(a \o b, b, m, k)
<1>1. Sized(a \o b, m + k)
  BY DEF Sized, Packet
<1>2. Starts(a \o b, a, m)
  BY DEF Sized, Packet, Starts
<1>3. Follows(a \o b, b, m, k)
  <2> SUFFICES ASSUME NEW i \in 1..k PROVE (a \o b)[m + i] = b[i]
    BY DEF Follows
  <2>1. m + i \in 1..(m + k) /\ m + i > m /\ (m + i) - m = i
    OBVIOUS
  <2> QED BY <2>1 DEF Sized, Packet
<1> QED BY <1>1, <1>2, <1>3

\* A piece of a packet: its beginning, or what follows.
LEMMA Piece ==
    ASSUME NEW p \in Packet, NEW n \in Nat, n = Len(p), NEW k \in 1..(n + 1)
    PROVE  /\ SubSeq(p, 1, k - 1) \in Packet /\ Len(SubSeq(p, 1, k - 1)) = k - 1
           /\ SubSeq(p, k, n) \in Packet /\ Len(SubSeq(p, k, n)) = (n + 1) - k
           /\ \A i \in 1..((n + 1) - k) : SubSeq(p, k, n)[i] = p[(k - 1) + i]
  BY SubSeqProperties DEF Packet

\* Cutting them.
LEMMA Cut ==
    ASSUME NEW p \in Packet, NEW n \in 0..Len(p)
    PROVE  /\ SubSeq(p, 1, n) \in Packet /\ Len(SubSeq(p, 1, n)) = n
           /\ \A i \in 1..n : SubSeq(p, 1, n)[i] = p[i]
  BY DEF Packet

\* The byte drawn is a byte, the number drawn a number.
LEMMA Drawn ==
    /\ \A b \in Bytes : b \in Byte
    /\ \A d \in Draws : d \in Nat
  BY DrawsAssumption

-----------------------------------------------------------------------------
(* Mutations *)

\* Up to eight bits are flipped, one after another, each in the packet.
LEMMA BitFlipKeeps ==
    ASSUME NEW p \in Packet, NEW q \in bit_flip_mutation(p)
    PROVE  q \in Packet /\ Len(q) = Len(p)
<1>1. CASE p = << >>
  BY <1>1 DEF bit_flip_mutation
<1>2. CASE p # << >>
  <2> DEFINE Cases == SUBSET {r \in Packet : Len(r) = Len(p)}
             Good(g, n) == \A i \in 0..n : g[i] = IF i = 0 THEN {p} ELSE flip_one(g[i - 1])
             flips == CHOOSE f :
                 f = [n \in 0..MaxFlips |-> IF n = 0 THEN {p} ELSE flip_one(f[n - 1])]
  <2>1. q \in UNION {flips[n] : n \in 1..MaxFlips}
    BY <1>2 DEF bit_flip_mutation
  <2>2. MaxFlips \in Nat /\ Len(p) \in Nat \ {0} /\ {p} \in Cases
    BY <1>2, DrawsAssumption, EmptySeq DEF Packet
  <2>3. \A S \in Cases : flip_one(S) \in Cases
    <3> SUFFICES ASSUME NEW S \in Cases, NEW r \in S, NEW d \in Draws, NEW bit \in 0..7
                 PROVE  LET t == With(r, d % Len(r), Flipped(r[(d % Len(r)) + 1], bit))
                        IN  t \in Packet /\ Len(t) = Len(p)
      BY DEF flip_one
    <3>1. r \in Packet /\ Len(r) = Len(p)
      OBVIOUS
    <3>2. d % Len(r) \in 0..(Len(r) - 1)
      BY <2>2, <3>1, Drawn, Remainder
    <3>3. PICK k \in Nat : k = d % Len(r) /\ k < Len(r) /\ k + 1 \in 1..Len(r)
      BY <2>2, <3>1, <3>2
    <3>4. r[k + 1] \in Byte
      BY <3>1, <3>3 DEF Packet
    <3>5. Flipped(r[k + 1], bit) \in Byte
      BY <3>4, FlippedByte
    <3> QED BY <3>1, <3>3, <3>5, WithByte
  <2> HIDE DEF Cases, Good
  <2> DEFINE T == {n \in Nat : \E g \in [0..n -> Cases] : Good(g, n)}
  <2>4. 0 \in T
    <3>1. [i \in 0..0 |-> {p}] \in [0..0 -> Cases] /\ Good([i \in 0..0 |-> {p}], 0)
      BY <2>2 DEF Good
    <3> QED BY <3>1
  <2>5. ASSUME NEW n \in T PROVE n + 1 \in T
    <3>1. PICK g \in [0..n -> Cases] : Good(g, n)
      OBVIOUS
    <3> DEFINE h == [i \in 0..(n + 1) |-> IF i <= n THEN g[i] ELSE flip_one(g[n])]
    <3>2. n \in Nat /\ n \in 0..n /\ ~(n + 1 <= n) /\ n + 1 \in 0..(n + 1) /\ n + 1 # 0
      OBVIOUS
    <3>3. h \in [0..(n + 1) -> Cases]
      <4>1. flip_one(g[n]) \in Cases
        BY <2>3, <3>2
      <4>2. \A i \in 0..(n + 1) : i <= n => i \in 0..n
        OBVIOUS
      <4> QED BY <4>1, <4>2
    <3>4. /\ \A i \in 0..n : h[i] = g[i]
          /\ h[n + 1] = flip_one(g[n])
      BY <3>2
    <3> HIDE DEF h
    <3>5. Good(h, n + 1)
      <4> SUFFICES ASSUME NEW i \in 0..(n + 1)
                   PROVE  h[i] = IF i = 0 THEN {p} ELSE flip_one(h[i - 1])
        BY DEF Good
      <4>1. CASE i \in 0..n
        <5>1. i # 0 => i - 1 \in 0..n
          BY <3>2, <4>1
        <5>2. g[i] = IF i = 0 THEN {p} ELSE flip_one(g[i - 1])
          BY <3>1, <4>1 DEF Good
        <5> QED BY <3>4, <4>1, <5>1, <5>2
      <4>2. CASE i = n + 1
        <5>1. i # 0 /\ i - 1 = n
          BY <3>2, <4>2
        <5> QED BY <3>2, <3>4, <4>2, <5>1
      <4>3. i \in 0..n \/ i = n + 1
        BY <3>2
      <4> QED BY <4>1, <4>2, <4>3
    <3> QED BY <3>2, <3>3, <3>5
  <2>6. MaxFlips \in T
    <3> HIDE DEF T
    <3>1. T \in SUBSET Nat
      BY DEF T
    <3> QED BY <2>2, <2>4, <2>5, <3>1, Induction
  <2>7. PICK g \in [0..MaxFlips -> Cases] : Good(g, MaxFlips)
    BY <2>6
  <2>8. g = [n \in 0..MaxFlips |-> IF n = 0 THEN {p} ELSE flip_one(g[n - 1])]
    BY <2>7 DEF Good
  <2>9. flips = [n \in 0..MaxFlips |-> IF n = 0 THEN {p} ELSE flip_one(flips[n - 1])]
    BY <2>8
  <2> HIDE DEF flips
  <2>10. \A n \in 0..MaxFlips : flips[n] = IF n = 0 THEN {p} ELSE flip_one(flips[n - 1])
    BY <2>9
  <2> DEFINE U == {n \in Nat : n <= MaxFlips => flips[n] \in Cases}
  <2>11. U = Nat
    <3>1. 0 \in U
      <4>1. 0 \in 0..MaxFlips
        BY <2>2
      <4>2. flips[0] = {p}
        BY <2>10, <4>1
      <4> QED BY <2>2, <4>2
    <3>2. ASSUME NEW n \in U PROVE n + 1 \in U
      <4> SUFFICES ASSUME n + 1 <= MaxFlips PROVE flips[n + 1] \in Cases
        BY <2>2
      <4>1. /\ n + 1 \in 0..MaxFlips /\ n + 1 # 0 /\ (n + 1) - 1 = n
            /\ flips[n] \in Cases
        BY <2>2, <3>2
      <4>2. flips[n + 1] = flip_one(flips[n])
        BY <2>10, <4>1
      <4> QED BY <2>3, <4>1, <4>2
    <3> HIDE DEF U
    <3>3. U \in SUBSET Nat
      BY DEF U
    <3> QED BY <3>1, <3>2, <3>3, Induction
  <2>12. PICK n \in 1..MaxFlips : q \in flips[n]
    BY <2>1
  <2>13. flips[n] \in Cases
    BY <2>2, <2>11
  <2> QED BY <2>12, <2>13 DEF Cases
<1> QED BY <1>1, <1>2

\* A byte comes in, before any of the packet or behind the last.
LEMMA ByteInsertKeeps ==
    ASSUME NEW p \in Packet, NEW q \in byte_insert_mutation(p)
    PROVE  q \in Packet /\ Len(q) = Len(p) + 1
<1>1. PICK d \in Draws, b \in Bytes : q = InsertAt(p, (d % (Len(p) + 1)) + 1, b)
  BY DEF byte_insert_mutation
<1>2. PICK n \in Nat : n = Len(p)
  BY DEF Packet
<1>3. d \in Nat /\ b \in Byte
  BY Drawn
<1>4. d % (n + 1) \in 0..n
  <2>1. n + 1 \in Nat \ {0}
    BY <1>2
  <2>2. d % (n + 1) \in 0..((n + 1) - 1)
    BY <1>3, <2>1, Remainder
  <2> QED BY <1>2, <2>2
<1>5. PICK k \in 1..(n + 1) : k = (d % (n + 1)) + 1
  BY <1>2, <1>4
<1>6. q = SubSeq(p, 1, k - 1) \o <<b>> \o SubSeq(p, k, n)
  BY <1>1, <1>2, <1>5 DEF InsertAt
<1>7. /\ SubSeq(p, 1, k - 1) \in Packet /\ Len(SubSeq(p, 1, k - 1)) = k - 1
      /\ SubSeq(p, k, n) \in Packet /\ Len(SubSeq(p, k, n)) = (n + 1) - k
  BY <1>2, Piece
<1>8. <<b>> \in Packet /\ Len(<<b>>) = 1
  BY <1>3 DEF Packet
<1>9. /\ SubSeq(p, 1, k - 1) \o <<b>> \in Packet
      /\ Len(SubSeq(p, 1, k - 1) \o <<b>>) = k
  <2>1. Len(SubSeq(p, 1, k - 1) \o <<b>>) = (k - 1) + 1
    BY <1>7, <1>8, Joined
  <2> QED BY <1>7, <1>8, <2>1, Joined
<1>10. q \in Packet /\ Len(q) = k + ((n + 1) - k)
  BY <1>6, <1>7, <1>9, Joined
<1> QED BY <1>2, <1>10

\* One of the bytes goes.
LEMMA ByteDeleteKeeps ==
    ASSUME NEW p \in Packet, NEW q \in byte_delete_mutation(p)
    PROVE  q \in Packet /\ Len(q) + 1 >= Len(p)
<1>1. CASE p = << >>
  BY <1>1 DEF byte_delete_mutation, Packet
<1>2. CASE p # << >>
  <2>1. PICK d \in Draws : q = RemoveAt(p, (d % Len(p)) + 1)
    BY <1>2 DEF byte_delete_mutation
  <2>2. PICK n \in Nat \ {0} : n = Len(p)
    BY <1>2, EmptySeq DEF Packet
  <2>3. d \in Nat
    BY Drawn
  <2>4. d % n \in 0..(n - 1)
    BY <2>2, <2>3, Remainder
  <2>5. PICK k \in 1..n : k = (d % n) + 1
    BY <2>2, <2>4
  <2>6. q = SubSeq(p, 1, k - 1) \o SubSeq(p, k + 1, n)
    BY <2>1, <2>2, <2>5 DEF RemoveAt
  <2>7. /\ SubSeq(p, 1, k - 1) \in Packet /\ Len(SubSeq(p, 1, k - 1)) = k - 1
        /\ SubSeq(p, k + 1, n) \in Packet /\ Len(SubSeq(p, k + 1, n)) = n - k
    <3>1. k + 1 \in 1..(n + 1) /\ (n + 1) - (k + 1) = n - k
      BY <2>2
    <3> QED BY <2>2, <3>1, Piece
  <2>8. q \in Packet /\ Len(q) = (k - 1) + (n - k)
    BY <2>6, <2>7, Joined
  <2> QED BY <2>2, <2>8
<1> QED BY <1>1, <1>2

\* A word of the packet is added to, modulo its width.
LEMMA ArithmeticKeeps ==
    ASSUME NEW p \in Packet, NEW q \in arithmetic_mutation(p)
    PROVE  q \in Packet /\ Len(q) = Len(p)
<1>1. PICK n \in Nat : n = Len(p)
  BY DEF Packet
<1>2. CASE n < 2
  BY <1>1, <1>2 DEF arithmetic_mutation
<1>3. CASE ~(n < 2)
  <2> DEFINE Adds(d, delta, pos, sum) ==
                 /\ pos = d % (n - 1)
                 /\ sum = (p[pos + 1] * 256 + p[pos + 2] + delta) % 65536
                 /\ q = With(With(p, pos, sum \div 256), pos + 1, sum % 256)
  <2>0. PICK d \in Draws, delta \in Deltas : \E pos, sum : Adds(d, delta, pos, sum)
    BY <1>1, <1>3 DEF arithmetic_mutation
  <2> HIDE DEF Adds
  <2>a. PICK pos, sum : Adds(d, delta, pos, sum)
    BY <2>0, Zenon
  <2>1. /\ pos = d % (n - 1)
        /\ sum = (p[pos + 1] * 256 + p[pos + 2] + delta) % 65536
        /\ q = With(With(p, pos, sum \div 256), pos + 1, sum % 256)
    BY <2>a DEF Adds
  <2>2. d \in Nat /\ delta \in Nat
    <3>1. d \in Nat
      BY Drawn
    <3>2. delta \in Word
      BY DrawsAssumption
    <3> QED BY <3>1, <3>2 DEF Word
  <2>3. pos \in Nat /\ pos + 1 < n
    <3>1. n - 1 \in Nat \ {0}
      BY <1>1, <1>3
    <3>2. d % (n - 1) \in 0..((n - 1) - 1)
      BY <2>2, <3>1, Remainder
    <3> QED BY <1>1, <2>1, <3>2
  <2>4. p[pos + 1] \in Byte /\ p[pos + 2] \in Byte
    BY <1>1, <2>3 DEF Packet
  <2>5. sum \in Nat /\ sum <= 65535
    BY <2>1, <2>2, <2>4, WordSum
  <2>6. PICK b \in Byte, c \in Byte : b = sum \div 256 /\ c = sum % 256
    BY <2>5, WordBytes
  <2>7. q = With(With(p, pos, b), pos + 1, c)
    BY <2>1, <2>6
  <2> QED BY <1>1, <2>3, <2>7, WithWord
<1> QED BY <1>2, <1>3

\* Of the mutations that the fuzzers share: a packet loses one byte at most.
LEMMA CommonMutationKeeps ==
    ASSUME NEW p \in Packet, NEW q \in common_mutations(p)
    PROVE  q \in Packet /\ Len(q) + 1 >= Len(p)
<1>1. Len(p) \in Nat
  BY DEF Packet
<1> QED BY <1>1, BitFlipKeeps, ByteInsertKeeps, ByteDeleteKeeps, ArithmeticKeeps
        DEF common_mutations
=============================================================================
