---------------------------- MODULE CoverageProofs ----------------------------
(***************************************************************************)
(* What the composite collector keeps about its counts, for every set of   *)
(* executions, every hash function and every size of the history.          *)
(*                                                                         *)
(* An execution adds the bag of its edges to one map and the bag of its    *)
(* features to another.  Both bags are bags of sequences with at least one *)
(* member (PathsAre, FeaturesAre), so no execution goes unnoticed.  The    *)
(* inductive invariant, CoverageInv, relates the map of edges to the paths *)
(* taken (Kept) and the history to the number of executions (Latest); that *)
(* neither map is empty after an execution is why every snapshot says a    *)
(* hundred percent (Covering), and why the report sees no progress.        *)
(*                                                                         *)
(* That the two collectors agree needs more: how often an outcome occurs   *)
(* among all that an execution leaves behind (PathCounts, FeatureCounts),  *)
(* and that the two tables of error messages give one verdict (OneVerdict).*)
(*                                                                         *)
(* Last, that the search for repeated bytes, which makes a feature and may *)
(* panic, answers what Coverage takes it to answer (ScanAnswersAlways).    *)
(***************************************************************************)
EXTENDS Coverage, RepeatedBytesScan, SequenceTheorems, FiniteSetTheorems, WellFoundedInduction,
        TLAPS

-----------------------------------------------------------------------------
\* Sequences, and how often something is in one.

Sequence(s) == \E T : s \in Seq(T)

\* The length and the members of a concatenation.
LEMMA Concat ==
    ASSUME NEW a, NEW b, Sequence(a), Sequence(b)
    PROVE  /\ Sequence(a \o b) /\ Len(a \o b) = Len(a) + Len(b)
           /\ \A k \in 1..Len(a) : (a \o b)[k] = a[k]
           /\ \A k \in 1..Len(b) : (a \o b)[Len(a) + k] = b[k]
<1>1. PICK A : a \in Seq(A)
  BY DEF Sequence
<1>2. PICK B : b \in Seq(B)
  BY DEF Sequence
<1>3. PICK T : T = A \cup B
  OBVIOUS
<1>4. a \in Seq(T) /\ b \in Seq(T)
  <2>1. A \subseteq T /\ B \subseteq T
    BY <1>3
  <2> QED BY <1>1, <1>2, <2>1
<1>5. a \o b \in Seq(T) /\ Len(a \o b) = Len(a) + Len(b) /\ Len(a) \in Nat /\ Len(b) \in Nat
  BY <1>4
<1>6. \A k \in 1..Len(a) : (a \o b)[k] = a[k]
  BY <1>4
<1>7. \A k \in 1..Len(b) : (a \o b)[Len(a) + k] = b[k]
  <2> SUFFICES ASSUME NEW k \in 1..Len(b) PROVE (a \o b)[Len(a) + k] = b[k]
    OBVIOUS
  <2>1. Len(a) + k \in 1..(Len(a) + Len(b)) /\ Len(a) + k > Len(a) /\ Len(a) + k - Len(a) = k
    BY <1>5
  <2> QED BY <1>4, <1>5, <2>1
<1> QED BY <1>5, <1>6, <1>7 DEF Sequence

\* The tuples that the extractors put together are sequences.
LEMMA Tuples ==
    /\ Sequence(<< >>) /\ Len(<< >>) = 0
    /\ \A x : Sequence(<<x>>) /\ Len(<<x>>) = 1
    /\ \A x, y : Sequence(<<x, y>>) /\ Len(<<x, y>>) = 2
    /\ \A x, y, z : Sequence(<<x, y, z>>) /\ Len(<<x, y, z>>) = 3
<1>1. Sequence(<< >>) /\ Len(<< >>) = 0
  <2>1. << >> \in Seq({})
    OBVIOUS
  <2> QED BY <2>1 DEF Sequence
<1>2. ASSUME NEW x PROVE Sequence(<<x>>) /\ Len(<<x>>) = 1
  <2>1. <<x>> \in Seq({x})
    OBVIOUS
  <2> QED BY <2>1 DEF Sequence
<1>3. ASSUME NEW x, NEW y PROVE Sequence(<<x, y>>) /\ Len(<<x, y>>) = 2
  <2>1. <<x, y>> \in Seq({x, y})
    OBVIOUS
  <2> QED BY <2>1 DEF Sequence
<1>4. ASSUME NEW x, NEW y, NEW z PROVE Sequence(<<x, y, z>>) /\ Len(<<x, y, z>>) = 3
  <2>1. <<x, y, z>> \in Seq({x, y, z})
    OBVIOUS
  <2> QED BY <2>1 DEF Sequence
<1> QED BY <1>1, <1>2, <1>3, <1>4

\* An edge that is there under a condition is a sequence of at most one member.
LEMMA Whens == ASSUME NEW c, NEW x PROVE Sequence(When(c, x))
  BY Tuples DEF When

\* A function on the numbers from one on is a sequence.
LEMMA Tabulated ==
    ASSUME NEW f, NEW n \in Nat, DOMAIN f = 1..n, f = [k \in 1..n |-> f[k]]
    PROVE  Sequence(f) /\ Len(f) = n
<1>1. PICK T : T = {f[k] : k \in 1..n}
  OBVIOUS
<1>2. f \in Seq(T)
  BY <1>1
<1>3. Len(f) = n
  BY <1>2
<1> QED BY <1>2, <1>3 DEF Sequence

\* Where a sequence has a member.
Places(s, x) == {k \in DOMAIN s : s[k] = x}

\* The places of a member are finitely many.
LEMMA PlacesIn ==
    ASSUME NEW s, Sequence(s), NEW x
    PROVE  /\ DOMAIN s = 1..Len(s) /\ Len(s) \in Nat
           /\ IsFiniteSet(Places(s, x)) /\ Cardinality(Places(s, x)) \in Nat
           /\ Places(s, x) \subseteq 1..Len(s)
<1>1. DOMAIN s = 1..Len(s) /\ Len(s) \in Nat
  BY DEF Sequence
<1>2. Places(s, x) \subseteq 1..Len(s)
  BY <1>1 DEF Places
<1>3. IsFiniteSet(1..Len(s))
  BY <1>1, FS_Interval
<1>4. IsFiniteSet(Places(s, x))
  BY <1>2, <1>3, FS_Subset
<1>5. Cardinality(Places(s, x)) \in Nat
  BY <1>4, FS_CardinalityType
<1> QED BY <1>1, <1>2, <1>4, <1>5

\* A concatenation has a member as often as its two parts together.
LEMMA PlacesAdd ==
    ASSUME NEW a, NEW b, Sequence(a), Sequence(b), NEW x
    PROVE  Cardinality(Places(a \o b, x)) = Cardinality(Places(a, x)) + Cardinality(Places(b, x))
<1>0. PICK m \in Nat, n \in Nat : m = Len(a) /\ n = Len(b)
  BY PlacesIn
<1>1. PICK c : m = Len(a) /\ n = Len(b) /\ c = a \o b
  BY <1>0
<1>2. /\ Sequence(c) /\ Len(c) = m + n
      /\ \A k \in 1..m : c[k] = a[k]
      /\ \A k \in 1..n : c[m + k] = b[k]
  BY <1>1, Concat
<1>3. DOMAIN a = 1..m /\ DOMAIN b = 1..n /\ DOMAIN c = 1..(m + n)
  BY <1>1, <1>2, PlacesIn
<1> DEFINE f == [k \in Places(b, x) |-> m + k]
           B == {k \in Places(c, x) : k > m}
<1>4. Places(c, x) = Places(a, x) \cup B
  <2>1. ASSUME NEW k \in Places(c, x), k <= m PROVE k \in Places(a, x)
    BY <1>2, <1>3, <2>1 DEF Places
  <2>2. Places(c, x) \subseteq Nat
    BY <1>3 DEF Places
  <2>3. ASSUME NEW k \in Places(a, x) PROVE k \in Places(c, x)
    BY <1>2, <1>3 DEF Places
  <2> QED BY <2>1, <2>2, <2>3
<1>5. Places(a, x) \cap B = {}
  BY <1>3 DEF Places
<1>6. f \in Bijection(Places(b, x), B)
  <2>1. Places(b, x) \subseteq Nat
    BY <1>3 DEF Places
  <2>2. ASSUME NEW k \in Places(b, x) PROVE m + k \in B
    BY <1>2, <1>3 DEF Places
  <2>3. ASSUME NEW j \in B PROVE j - m \in Places(b, x) /\ j = m + (j - m)
    <3>1. j \in 1..(m + n) /\ j > m /\ c[j] = x
      BY <1>3 DEF Places
    <3>2. PICK i \in 1..n : j = m + i
      <4>1. j - m \in 1..n /\ j = m + (j - m)
        BY <3>1
      <4> QED BY <4>1
    <3>3. b[i] = x /\ i = j - m
      BY <1>2, <3>1, <3>2
    <3> QED BY <1>3, <3>2, <3>3 DEF Places
  <2> HIDE DEF B
  <2>4. f \in [Places(b, x) -> B]
    BY <2>2
  <2>5. \A j, k \in Places(b, x) : f[j] = f[k] => j = k
    BY <2>1
  <2>6. \A j \in B : \E k \in Places(b, x) : f[k] = j
    BY <2>3
  <2>7. f \in Injection(Places(b, x), B)
    <3> HIDE DEF f
    <3> QED BY <2>4, <2>5 DEF Injection, IsInjective
  <2>8. f \in Surjection(Places(b, x), B)
    <3> HIDE DEF f
    <3> QED BY <2>4, <2>6 DEF Surjection
  <2> QED BY <2>7, <2>8 DEF Bijection
<1>7. ExistsBijection(Places(b, x), B)
  BY <1>6 DEF ExistsBijection
<1> HIDE DEF f, B
<1>8. IsFiniteSet(B) /\ Cardinality(B) = Cardinality(Places(b, x))
  BY <1>7, PlacesIn, FS_Bijection
<1>9. Cardinality(Places(c, x)) = Cardinality(Places(a, x)) + Cardinality(B) - Cardinality({})
  BY <1>4, <1>5, <1>8, PlacesIn, FS_Union
<1> QED BY <1>1, <1>8, <1>9, PlacesIn, FS_EmptySet

\* One occurrence if something is the case, none otherwise.
Tick(p) == IF p THEN 1 ELSE 0

\* A sequence with none of certain members.
Avoids(s, X) == Sequence(s) /\ \A k \in DOMAIN s : s[k] \notin X

\* A concatenation avoids what both its parts avoid.
LEMMA AvoidsConcat ==
    ASSUME NEW a, NEW b, NEW X, Avoids(a, X), Avoids(b, X) PROVE Avoids(a \o b, X)
<1>1. PICK m \in Nat, n \in Nat : m = Len(a) /\ n = Len(b)
  BY PlacesIn DEF Avoids
<1>2. PICK c : c = a \o b
  OBVIOUS
<1>3. /\ Sequence(c) /\ Len(c) = m + n
      /\ \A k \in 1..m : c[k] = a[k]
      /\ \A k \in 1..n : c[m + k] = b[k]
  BY <1>1, <1>2, Concat DEF Avoids
<1>4. DOMAIN a = 1..m /\ DOMAIN b = 1..n /\ DOMAIN c = 1..(m + n)
  BY <1>1, <1>3, PlacesIn DEF Avoids
<1>5. ASSUME NEW k \in 1..(m + n) PROVE c[k] \notin X
  <2>1. CASE k \in 1..m
    BY <1>3, <1>4, <2>1 DEF Avoids
  <2>2. CASE k \notin 1..m
    <3>1. k - m \in 1..n /\ m + (k - m) = k
      BY <2>2
    <3>2. c[k] = b[k - m]
      BY <1>3, <3>1
    <3> QED BY <1>4, <3>1, <3>2 DEF Avoids
  <2> QED BY <2>1, <2>2
<1> QED BY <1>2, <1>3, <1>4, <1>5 DEF Avoids

\* A tuple avoids what is not among its members.
LEMMA AvoidsTuples ==
    /\ \A X : Avoids(<< >>, X)
    /\ \A x, X : x \notin X => Avoids(<<x>>, X)
    /\ \A x, y, X : x \notin X /\ y \notin X => Avoids(<<x, y>>, X)
    /\ \A x, y, z, X : x \notin X /\ y \notin X /\ z \notin X => Avoids(<<x, y, z>>, X)
<1>1. ASSUME NEW X PROVE Avoids(<< >>, X)
  BY Tuples DEF Avoids
<1>2. ASSUME NEW x, NEW X, x \notin X PROVE Avoids(<<x>>, X)
  BY <1>2, Tuples DEF Avoids
<1>3. ASSUME NEW x, NEW y, NEW X, x \notin X, y \notin X PROVE Avoids(<<x, y>>, X)
  BY <1>3, Tuples DEF Avoids
<1>4. ASSUME NEW x, NEW y, NEW z, NEW X, x \notin X, y \notin X, z \notin X
      PROVE  Avoids(<<x, y, z>>, X)
  BY <1>4, Tuples DEF Avoids
<1> QED BY <1>1, <1>2, <1>3, <1>4

\* The same for a member that is there under a condition.
LEMMA AvoidsWhen == ASSUME NEW c, NEW x, NEW X, x \notin X PROVE Avoids(When(c, x), X)
  BY AvoidsTuples DEF When

\* The same for a function on the numbers from one on.
LEMMA AvoidsTabulated ==
    ASSUME NEW f, NEW n \in Nat, DOMAIN f = 1..n, f = [k \in 1..n |-> f[k]],
           NEW X, \A k \in 1..n : f[k] \notin X
    PROVE  Avoids(f, X)
  BY Tabulated DEF Avoids

\* What a sequence avoids has no place in it.
LEMMA NoPlaces ==
    ASSUME NEW s, NEW X, Avoids(s, X), NEW x \in X PROVE Cardinality(Places(s, x)) = 0
<1>1. Places(s, x) = {}
  BY DEF Avoids, Places
<1> QED BY <1>1, FS_EmptySet

\* How often the first member of a pair is in it, if the second is another one.
LEMMA PairPlaces ==
    ASSUME NEW x, NEW a, NEW b, b # x PROVE Cardinality(Places(<<a, b>>, x)) = Tick(a = x)
<1>1. DOMAIN <<a, b>> = {1, 2}
  OBVIOUS
<1>2. Places(<<a, b>>, x) = IF a = x THEN {1} ELSE {}
  BY <1>1 DEF Places
<1> QED BY <1>2, FS_Singleton, FS_EmptySet DEF Tick

\* How often a member is there that is there under a condition.
LEMMA WhenPlaces ==
    ASSUME NEW x, NEW c, NEW a PROVE Cardinality(Places(When(c, a), x)) = Tick(c /\ a = x)
<1>1. CASE c /\ a = x
  <2>1. Places(When(c, a), x) = {1}
    BY <1>1 DEF When, Places
  <2> QED BY <1>1, <2>1, FS_Singleton DEF Tick
<1>2. CASE ~(c /\ a = x)
  <2>1. Places(When(c, a), x) = {}
    BY <1>2 DEF When, Places
  <2> QED BY <1>2, <2>1, FS_EmptySet DEF Tick
<1> QED BY <1>1, <1>2

\* What follows and avoids a member does not change how often it occurs.
LEMMA Trailing ==
    ASSUME NEW s, Sequence(s), NEW X, NEW e, Avoids(e, X), NEW x \in X
    PROVE  Sequence(s \o e) /\ Cardinality(Places(s \o e, x)) = Cardinality(Places(s, x))
<1>1. Sequence(e) /\ Sequence(s \o e)
  BY Concat DEF Avoids
<1>2. Cardinality(Places(e, x)) = 0 /\ Cardinality(Places(s, x)) \in Nat
  BY NoPlaces, PlacesIn
<1> QED BY <1>1, <1>2, PlacesAdd

\* Neither does what stands in front; a conditional last member adds its own occurrence.
LEMMA Counting ==
    ASSUME NEW X, NEW x \in X, NEW a, NEW h, NEW d, Avoids(a, X), Sequence(h),
           NEW p \in BOOLEAN
    PROVE  /\ Sequence(a \o (h \o When(p, d)))
           /\ Cardinality(Places(a \o (h \o When(p, d)), x)) =
                 Cardinality(Places(h, x)) + Tick(p /\ d = x)
<1>1. PICK last : last = When(p, d)
  OBVIOUS
<1>2. Sequence(last) /\ Sequence(a)
  BY <1>1, Whens DEF Avoids
<1>3. Sequence(h \o last) /\ Sequence(a \o (h \o last))
  BY <1>2, Concat
<1>4. Cardinality(Places(a, x)) = 0 /\ Cardinality(Places(last, x)) = Tick(p /\ d = x)
  BY <1>1, NoPlaces, WhenPlaces
<1>5. Cardinality(Places(h, x)) \in Nat /\ Tick(p /\ d = x) \in Nat
  BY PlacesIn DEF Tick
<1>6. Cardinality(Places(h \o last, x)) = Cardinality(Places(h, x)) + Tick(p /\ d = x)
  BY <1>2, <1>4, PlacesAdd
<1>7. Cardinality(Places(a \o (h \o last), x)) = Cardinality(Places(h, x)) + Tick(p /\ d = x)
  BY <1>2, <1>3, <1>4, <1>5, <1>6, PlacesAdd
<1> QED BY <1>1, <1>3, <1>7

\* A set of numbers that is not empty has a smallest one.
LEMMA Smallest ==
    ASSUME NEW T \in SUBSET Nat, T # {}
    PROVE  \E n \in T : \A m \in T : n <= m
<1> DEFINE R == {ss \in Nat \X Nat : ss[1] < ss[2]}
<1>1. IsWellFoundedOn(R, Nat)
  BY NatLessThanWellFounded DEF OpToRel
<1>2. PICK n \in T : \A m \in T : ~(<<m, n>> \in R)
  BY <1>1, WFMin, Zenon
<1>3. \A m \in T : n <= m
  <2> TAKE m \in T
  <2>1. m \in Nat /\ n \in Nat /\ ~(<<m, n>> \in R)
    BY <1>2
  <2>2. <<m, n>> \in Nat \X Nat /\ <<m, n>>[1] = m /\ <<m, n>>[2] = n
    BY <2>1
  <2>3. ~(<<m, n>>[1] < <<m, n>>[2])
    BY <2>1, <2>2, Zenon
  <2>4. ~(m < n)
    BY <2>2, <2>3
  <2> QED BY <2>1, <2>4
<1> QED BY <1>3

-----------------------------------------------------------------------------
\* Bags.

IsBag(b) == b \in [DOMAIN b -> Nat \ {0}] /\ IsFiniteSet(DOMAIN b)

\* The bag of a sequence counts the places of its members (increment_coverage_map).
LEMMA BagOf ==
    ASSUME NEW s, Sequence(s)
    PROVE  /\ IsBag(ToBag(s)) /\ DOMAIN ToBag(s) = ToSet(s)
           /\ \A x : Copies(x, ToBag(s)) = Cardinality(Places(s, x))
<1>1. DOMAIN ToBag(s) = ToSet(s)
  BY DEF ToBag, ToSet, Range
<1>2. IsFiniteSet(ToSet(s))
  <2>1. IsFiniteSet(DOMAIN s)
    <3>1. DOMAIN s = 1..Len(s) /\ Len(s) \in Nat
      BY PlacesIn
    <3> QED BY <3>1, FS_Interval
  <2>2. s \in Surjection(DOMAIN s, ToSet(s))
    <3>1. PICK T : s \in Seq(T)
      BY DEF Sequence
    <3>2. s = [k \in DOMAIN s |-> s[k]]
      BY <3>1
    <3> QED BY <3>2 DEF Surjection, ToSet
  <2> QED BY <2>1, <2>2, FS_Surjection
<1>3. ASSUME NEW x, x \in ToSet(s)
      PROVE  ToBag(s)[x] = Cardinality(Places(s, x)) /\ ToBag(s)[x] \in Nat \ {0}
  <2>1. ToBag(s)[x] = Cardinality(Places(s, x))
    BY <1>3 DEF ToBag, ToSet, Range, Places
  <2>2. Places(s, x) # {}
    BY <1>3 DEF ToSet, Places
  <2>3. Cardinality(Places(s, x)) # 0
    BY <2>2, PlacesIn, FS_EmptySet
  <2> QED BY <2>1, <2>3, PlacesIn
<1>4. ASSUME NEW x, x \notin ToSet(s)
      PROVE  Cardinality(Places(s, x)) = 0
  <2>1. Places(s, x) = {}
    BY <1>4 DEF ToSet, Places
  <2> QED BY <2>1, FS_EmptySet
<1>5. IsBag(ToBag(s))
  <2>1. ToBag(s) = [x \in ToSet(s) |-> ToBag(s)[x]]
    BY DEF ToBag, ToSet, Range
  <2> QED BY <1>1, <1>2, <1>3, <2>1 DEF IsBag
<1>6. ASSUME NEW x PROVE Copies(x, ToBag(s)) = Cardinality(Places(s, x))
  BY <1>1, <1>3, <1>4 DEF Copies
<1> QED BY <1>1, <1>5, <1>6

\* The sum of two bags has as many copies of anything as the two have.
LEMMA BagSum ==
    ASSUME NEW a, NEW b, IsBag(a), IsBag(b)
    PROVE  /\ IsBag(a (+) b) /\ DOMAIN (a (+) b) = DOMAIN a \cup DOMAIN b
           /\ \A x : Copies(x, a (+) b) = Copies(x, a) + Copies(x, b)
<1>1. DOMAIN (a (+) b) = DOMAIN a \cup DOMAIN b
  BY DEF (+)
<1>2. IsFiniteSet(DOMAIN a \cup DOMAIN b)
  BY FS_Union DEF IsBag
<1>3. \A x : Copies(x, a) \in Nat /\ Copies(x, b) \in Nat
  BY DEF Copies, IsBag
<1>4. \A x : Copies(x, a (+) b) = Copies(x, a) + Copies(x, b)
  BY <1>1 DEF Copies, (+)
<1>5. ASSUME NEW x, x \in DOMAIN a \cup DOMAIN b PROVE (a (+) b)[x] \in Nat \ {0}
  <2>1. (a (+) b)[x] = Copies(x, a) + Copies(x, b)
    BY <1>5 DEF Copies, (+)
  <2>2. Copies(x, a) > 0 \/ Copies(x, b) > 0
    BY <1>5 DEF Copies, IsBag
  <2> QED BY <1>3, <2>1, <2>2
<1>6. IsBag(a (+) b)
  <2>1. a (+) b = [x \in DOMAIN a \cup DOMAIN b |-> (a (+) b)[x]]
    BY DEF (+)
  <2> QED BY <1>1, <1>2, <1>5, <2>1 DEF IsBag
<1> QED BY <1>1, <1>4, <1>6

-----------------------------------------------------------------------------
\* The edges of an execution (edge_coverage.rs).

Response(r) == r \in Seq(0..255)

\* The edges of a packet are a sequence: there are finitely many blocks that repeat.
LEMMA InputEdges ==
    ASSUME NEW data \in Seq(0..255)
    PROVE  Sequence(extract_input_edges(data))
<1>1. Sequence(repeated_patterns(data))
  <2> DEFINE starts == {k \in 1..Len(data) : RepeatsAt(data, k, 4)}
  <2>1. Cardinality(starts) \in Nat
    <3>1. IsFiniteSet(1..Len(data))
      BY FS_Interval
    <3>2. IsFiniteSet(starts)
      BY <3>1, FS_Subset
    <3> QED BY <3>2, FS_CardinalityType
  <2> HIDE DEF starts
  <2> QED BY <2>1, Tabulated DEF repeated_patterns, starts
<1> QED BY <1>1, Concat, Tuples, Whens DEF extract_input_edges

\* The edges of an execution are a sequence and never none: its outcome is always one,
\* so that an execution always takes a path and the map of edges is not left empty.
LEMMA PathsAre ==
    ASSUME NEW data \in Seq(0..255), NEW result, \A r \in result.response_data : Response(r)
    PROVE  Sequence(extract_edges(data, result)) /\ Len(extract_edges(data, result)) > 0
<1>1. Sequence(extract_execution_edges(result)) /\ Len(extract_execution_edges(result)) >= 2
  <2>1. PICK x, y, z : /\ Sequence(z)
                       /\ extract_execution_edges(result) = <<x, y>> \o z
    BY Whens DEF extract_execution_edges
  <2>2. Sequence(<<x, y>>) /\ Len(<<x, y>>) = 2
    BY Tuples
  <2>3. PICK c : c = <<x, y>>
    OBVIOUS
  <2>4. Sequence(c \o z) /\ Len(c \o z) = Len(c) + Len(z) /\ Len(c) = 2 /\ Len(z) \in Nat
    BY <2>1, <2>2, <2>3, Concat, PlacesIn
  <2> QED BY <2>1, <2>3, <2>4
<1>2. ASSUME NEW r, Response(r) PROVE Sequence(extract_response_edges(r))
  BY Concat, Tuples, Whens DEF extract_response_edges
<1>3. PICK a, b, c :
         /\ a = extract_input_edges(data) /\ b = extract_execution_edges(result)
         /\ Sequence(c) /\ extract_edges(data, result) = (a \o b) \o c
  <2>1. CASE result.response_data = None
    BY <2>1, Tuples DEF extract_edges
  <2>2. CASE result.response_data # None
    <3>1. TheResponse(result) \in result.response_data
      BY <2>2 DEF TheResponse, None
    <3> QED BY <2>2, <3>1, <1>2 DEF extract_edges
  <2> QED BY <2>1, <2>2
<1>4. Sequence(a) /\ Len(a) \in Nat /\ Sequence(b) /\ Len(b) \in Nat /\ Len(b) >= 2
      /\ Len(c) \in Nat
  BY <1>1, <1>3, InputEdges, PlacesIn
<1>5. Sequence(a \o b) /\ Len(a \o b) = Len(a) + Len(b)
  BY <1>4, Concat
<1>6. Sequence((a \o b) \o c) /\ Len((a \o b) \o c) = Len(a \o b) + Len(c)
  BY <1>3, <1>5, Concat
<1> QED BY <1>3, <1>4, <1>5, <1>6

-----------------------------------------------------------------------------
\* The features of an execution (feature_coverage.rs), and how often its outcome
\* is among them.

\* The numbered features of the protocol are a sequence (dns.rs, mqtt.rs).
LEMMA ProtocolFeatures ==
    ASSUME NEW protocol, NEW data \in Seq(0..255), parse_questions(data) \in Seq(Nat)
    PROVE  Sequence(protocol_features(protocol, data))
<1>1. Sequence(dns_extract_features(data))
  <2>1. PICK f : f = [k \in 1..4 |-> u16(data, 2 * (k - 1))]
    OBVIOUS
  <2>2. Sequence(f)
    BY <2>1, Tabulated
  <2>3. Sequence(parse_questions(data))
    BY DEF Sequence
  <2>4. dns_extract_features(data) = IF Len(data) < 12 THEN <<0>>
                                      ELSE f \o <<Len(data)>> \o parse_questions(data)
    BY <2>1 DEF dns_extract_features
  <2> QED BY <2>2, <2>3, <2>4, Concat, Tuples
<1>2. Sequence(Mqtt!extract_features(data))
  <2>1. PICK t : Sequence(t) /\ t =
            CASE Mqtt!packet_type(data) = 1 /\ Len(data) >= 12 -> <<data[11] * 256 + data[12]>>
              [] Mqtt!packet_type(data) = 3 ->
                    <<(Mqtt!flags(data) \div 2) % 4, Mqtt!flags(data) % 2, Mqtt!flags(data) \div 8>>
              [] OTHER -> << >>
    BY Tuples
  <2> QED BY <2>1, Concat, Tuples DEF Mqtt!extract_features
<1>3. PICK numbers : Sequence(numbers) /\
         protocol_features(protocol, data) =
            [k \in DOMAIN numbers |-> <<"protocol_feature", k - 1, numbers[k]>>]
  BY <1>1, <1>2 DEF protocol_features
<1> QED BY <1>3, PlacesIn, Tabulated
ErrorFeatures == {<<"error", v>> : v \in {"connection", "timeout", "parse", "protocol", "unknown"}}
OutcomeFeatures == {<<"execution_success">>, <<"execution_failure">>} \cup ErrorFeatures

\* A feature with another tag is no outcome.
LEMMA OtherFeatures ==
    ASSUME NEW t, t \notin {"execution_success", "execution_failure", "error"}
    PROVE  /\ <<t>> \notin OutcomeFeatures
           /\ \A v : <<t, v>> \notin OutcomeFeatures
           /\ \A v, w : <<t, v, w>> \notin OutcomeFeatures
<1>1. \A f \in OutcomeFeatures : f[1] \in {"execution_success", "execution_failure", "error"}
  BY DEF OutcomeFeatures, ErrorFeatures
<1>2. <<t>>[1] = t /\ (\A v : <<t, v>>[1] = t) /\ (\A v, w : <<t, v, w>>[1] = t)
  OBVIOUS
<1> QED BY <1>1, <1>2

\* No feature of the packet itself is an outcome.
LEMMA GenericAvoids ==
    ASSUME NEW data \in Seq(0..255)
    PROVE  Avoids(generic_input_features(data), OutcomeFeatures)
<1>1. ASSUME NEW t \in {"empty_input", "input_size", "first_byte", "first_two_bytes",
                        "contains_null_bytes", "ascii_content", "binary_content",
                        "has_repeated_patterns"}
      PROVE  /\ <<t>> \notin OutcomeFeatures
             /\ \A v : <<t, v>> \notin OutcomeFeatures
  BY OtherFeatures
<1>2. /\ Avoids(<< >>, OutcomeFeatures) /\ Avoids(<< <<"empty_input">> >>, OutcomeFeatures)
      /\ \A v, w : Avoids(<< <<"input_size", v>>, <<"first_byte", w>> >>, OutcomeFeatures)
      /\ \A v : Avoids(<< <<"first_two_bytes", v>> >>, OutcomeFeatures)
      /\ \A c : Avoids(When(c, <<"contains_null_bytes">>), OutcomeFeatures)
      /\ Avoids(<< <<"ascii_content">> >>, OutcomeFeatures)
      /\ Avoids(<< <<"binary_content">> >>, OutcomeFeatures)
      /\ \A c : Avoids(When(c, <<"has_repeated_patterns">>), OutcomeFeatures)
  BY <1>1, AvoidsTuples, AvoidsWhen
<1> QED BY <1>2, AvoidsConcat DEF generic_input_features

\* No feature of a DNS packet is one.
LEMMA DnsInputAvoids ==
    ASSUME NEW data PROVE Avoids(dns_input_features(data), OutcomeFeatures)
<1>1. ASSUME NEW t \in {"dns_too_short", "dns_response", "dns_query", "dns_opcode",
                        "dns_authoritative", "dns_truncated", "dns_recursion_desired",
                        "dns_recursion_available", "dns_rcode", "dns_questions", "dns_answers"}
      PROVE  /\ <<t>> \notin OutcomeFeatures
             /\ \A v : <<t, v>> \notin OutcomeFeatures
  BY OtherFeatures
<1>2. /\ Avoids(<< <<"dns_too_short">> >>, OutcomeFeatures)
      /\ \A v : Avoids(<< <<"dns_response">>, <<"dns_opcode", v>> >>, OutcomeFeatures)
      /\ \A v : Avoids(<< <<"dns_query">>, <<"dns_opcode", v>> >>, OutcomeFeatures)
      /\ \A c : Avoids(When(c, <<"dns_authoritative">>), OutcomeFeatures)
      /\ \A c : Avoids(When(c, <<"dns_truncated">>), OutcomeFeatures)
      /\ \A c : Avoids(When(c, <<"dns_recursion_desired">>), OutcomeFeatures)
      /\ \A c : Avoids(When(c, <<"dns_recursion_available">>), OutcomeFeatures)
      /\ \A u, v, w : Avoids(<< <<"dns_rcode", u>>, <<"dns_questions", v>>,
                                <<"dns_answers", w>> >>, OutcomeFeatures)
  BY <1>1, AvoidsTuples, AvoidsWhen
<1> QED BY <1>2, AvoidsConcat DEF dns_input_features

\* No feature of a DNS response is one.
LEMMA DnsResponseAvoids ==
    ASSUME NEW data PROVE Avoids(dns_response_features(data), OutcomeFeatures)
<1>1. ASSUME NEW t \in {"dns_response_rcode", "valid_dns_response", "invalid_dns_response"}
      PROVE  /\ <<t>> \notin OutcomeFeatures
             /\ \A v : <<t, v>> \notin OutcomeFeatures
  BY OtherFeatures
<1> QED BY <1>1, AvoidsTuples DEF dns_response_features

\* No feature of an MQTT packet is one.
LEMMA MqttInputAvoids ==
    ASSUME NEW data PROVE Avoids(mqtt_input_features(data), OutcomeFeatures)
<1>1. ASSUME NEW t \in {"mqtt_empty", "mqtt_packet_type", "mqtt_flags", "mqtt_qos", "mqtt_retain",
                        "mqtt_dup", "mqtt_remaining_length_bytes"}
      PROVE  /\ <<t>> \notin OutcomeFeatures
             /\ \A v : <<t, v>> \notin OutcomeFeatures
  BY OtherFeatures
<1>2. ASSUME NEW word PROVE Avoids(mqtt_publish_features(word), OutcomeFeatures)
  BY <1>1, AvoidsConcat, AvoidsTuples, AvoidsWhen DEF mqtt_publish_features
<1> QED BY <1>1, <1>2, AvoidsConcat, AvoidsTuples DEF mqtt_input_features

\* No feature of an MQTT response is one.
LEMMA MqttResponseAvoids ==
    ASSUME NEW data PROVE Avoids(mqtt_response_features(data), OutcomeFeatures)
<1>1. ASSUME NEW t \in {"mqtt_response_type", "mqtt_connack_received", "mqtt_puback_received",
                        "mqtt_suback_received", "mqtt_pingresp_received", "mqtt_unknown_response"}
      PROVE  /\ <<t>> \notin OutcomeFeatures
             /\ \A v : <<t, v>> \notin OutcomeFeatures
  BY OtherFeatures
<1>2. \A type : <<mqtt_response_name(type)>> \notin OutcomeFeatures
  BY <1>1 DEF mqtt_response_name
<1> QED BY <1>1, <1>2, AvoidsTuples DEF mqtt_response_features

\* No numbered feature of the protocol is one.
LEMMA ProtocolAvoids ==
    ASSUME NEW protocol, NEW data \in Seq(0..255), parse_questions(data) \in Seq(Nat)
    PROVE  Avoids(protocol_features(protocol, data), OutcomeFeatures)
<1>1. PICK f : f = protocol_features(protocol, data)
  OBVIOUS
<1>2. Sequence(f)
  BY <1>1, ProtocolFeatures
<1>3. \A k \in DOMAIN f : f[k] \notin OutcomeFeatures
  <2>1. \A k \in DOMAIN f : \E v, w : f[k] = <<"protocol_feature", v, w>>
    BY <1>1 DEF protocol_features
  <2> QED BY <2>1, OtherFeatures
<1> QED BY <1>1, <1>2, <1>3 DEF Avoids

\* An execution with an error message, and the two features that tell how it ended.
Fails(result) == result.error_message # None
OutcomeFeature(result) == <<IF result.success THEN "execution_success" ELSE "execution_failure">>
ErrorFeature(result)   == <<"error", categorize_error(result.error_message)>>

\* The features of the execution: the outcome first, the error, if any, last, and nothing
\* in between that could be taken for one of them.
LEMMA ExecutionFeatures ==
    ASSUME NEW result
    PROVE  \E y, u : /\ y \notin OutcomeFeatures /\ Avoids(u, OutcomeFeatures)
                     /\ generic_execution_features(result) =
                          (<<OutcomeFeature(result), y>> \o u)
                             \o When(Fails(result), ErrorFeature(result))
<1>1. ASSUME NEW t \in {"timing", "no_response", "response_size", "response_first_byte"}
      PROVE  /\ <<t>> \notin OutcomeFeatures
             /\ \A v : <<t, v>> \notin OutcomeFeatures
  BY OtherFeatures
<1>2. /\ Avoids(<< >>, OutcomeFeatures) /\ Avoids(<< <<"no_response">> >>, OutcomeFeatures)
      /\ \A v : Avoids(<< <<"response_size", v>> >>, OutcomeFeatures)
      /\ \A v : Avoids(<< <<"response_first_byte", v>> >>, OutcomeFeatures)
  BY <1>1, AvoidsTuples
<1>3. \A r : Avoids(response_features(r), OutcomeFeatures)
  BY <1>2, AvoidsConcat DEF response_features
<1>4. PICK y, u : /\ y = <<"timing", categorize_timing(result.execution_time_ms)>>
                  /\ u = IF result.response_data = None THEN << <<"no_response">> >>
                         ELSE response_features(TheResponse(result))
  OBVIOUS
<1>5. y \notin OutcomeFeatures /\ Avoids(u, OutcomeFeatures)
  BY <1>1, <1>2, <1>3, <1>4
<1>6. generic_execution_features(result) =
         (<<OutcomeFeature(result), y>> \o u) \o When(Fails(result), ErrorFeature(result))
  BY <1>4 DEF generic_execution_features, OutcomeFeature, ErrorFeature, Fails
<1> QED BY <1>5, <1>6

\* The outcome is among the features once, the error once if there is one, whatever the
\* packet, the response and the protocol add.
LEMMA FeatureCounts ==
    ASSUME NEW protocol, NEW data \in Seq(0..255), parse_questions(data) \in Seq(Nat),
           NEW result, NEW x \in OutcomeFeatures
    PROVE  /\ Sequence(extract_all_features(protocol, data, result))
           /\ Cardinality(Places(extract_all_features(protocol, data, result), x)) =
                 Tick(OutcomeFeature(result) = x) + Tick(Fails(result) /\ ErrorFeature(result) = x)
<1>1. PICK y, u : /\ y \notin OutcomeFeatures /\ Avoids(u, OutcomeFeatures)
                  /\ generic_execution_features(result) =
                       (<<OutcomeFeature(result), y>> \o u)
                          \o When(Fails(result), ErrorFeature(result))
  BY ExecutionFeatures
<1>2. PICK b, f, p : b = OutcomeFeature(result) /\ f = ErrorFeature(result) /\ p = Fails(result)
  OBVIOUS
<1>3. PICK h : h = <<b, y>>
  OBVIOUS
<1>4. PICK head : head = h \o u
  OBVIOUS
<1>5. PICK a, c, d, e :
         /\ a = generic_input_features(data) /\ e = protocol_features(protocol, data)
         /\ Avoids(c, OutcomeFeatures) /\ Avoids(d, OutcomeFeatures)
         /\ extract_all_features(protocol, data, result) =
               (((a \o generic_execution_features(result)) \o c) \o d) \o e
  BY DnsInputAvoids, MqttInputAvoids, DnsResponseAvoids, MqttResponseAvoids, AvoidsTuples
     DEF extract_all_features
<1>6. Avoids(a, OutcomeFeatures) /\ Avoids(e, OutcomeFeatures)
  BY <1>5, GenericAvoids, ProtocolAvoids
<1>7. PICK s : s = a \o (head \o When(p, f))
  OBVIOUS
<1>8. Sequence(h) /\ Cardinality(Places(h, x)) = Tick(b = x)
  <2>1. y # x
    BY <1>1
  <2>2. Cardinality(Places(h, x)) = Tick(b = x)
    BY <1>3, <2>1, PairPlaces
  <2>3. Sequence(h)
    BY <1>3, Tuples
  <2> QED BY <2>2, <2>3
<1>9. Sequence(head) /\ Cardinality(Places(head, x)) = Tick(b = x)
  BY <1>1, <1>4, <1>8, Trailing
<1>10. Sequence(s) /\ Cardinality(Places(s, x)) = Tick(b = x) + Tick(p /\ f = x)
  <2>1. p \in BOOLEAN
    BY <1>2 DEF Fails
  <2> QED BY <1>9, <1>6, <1>7, <2>1, Counting
<1>11. PICK t : t = s \o c
  OBVIOUS
<1>12. PICK v : v = t \o d
  OBVIOUS
<1>13. Sequence(t) /\ Cardinality(Places(t, x)) = Cardinality(Places(s, x))
  BY <1>5, <1>10, <1>11, Trailing
<1>14. Sequence(v) /\ Cardinality(Places(v, x)) = Cardinality(Places(t, x))
  BY <1>5, <1>12, <1>13, Trailing
<1>15. Sequence(v \o e) /\ Cardinality(Places(v \o e, x)) = Cardinality(Places(v, x))
  BY <1>6, <1>14, Trailing
<1>16. extract_all_features(protocol, data, result) = v \o e
  BY <1>1, <1>2, <1>3, <1>4, <1>5, <1>7, <1>11, <1>12
<1> QED BY <1>2, <1>10, <1>13, <1>14, <1>15, <1>16

\* So the features are never none, and an execution never leaves the map of features empty.
LEMMA FeaturesAre ==
    ASSUME NEW protocol, NEW data \in Seq(0..255), parse_questions(data) \in Seq(Nat), NEW result
    PROVE  /\ Sequence(extract_all_features(protocol, data, result))
           /\ Len(extract_all_features(protocol, data, result)) > 0
<1>1. PICK s, x : s = extract_all_features(protocol, data, result) /\ x = OutcomeFeature(result)
  OBVIOUS
<1>2. x \in OutcomeFeatures
  BY <1>1 DEF OutcomeFeature, OutcomeFeatures
<1>3. /\ Sequence(s)
      /\ Cardinality(Places(s, x)) = Tick(x = x) + Tick(Fails(result) /\ ErrorFeature(result) = x)
  BY <1>1, <1>2, FeatureCounts
<1>4. Cardinality(Places(s, x)) # 0
  BY <1>3 DEF Tick
<1>5. Places(s, x) # {}
  BY <1>4, FS_EmptySet
<1>6. Len(s) > 0
  BY <1>3, <1>5, PlacesIn
<1> QED BY <1>1, <1>3, <1>6

-----------------------------------------------------------------------------
\* The map of edges and the paths it is made of.

\* The paths with one taken once more, and the occurrence of it that is new.
Counted(fr, path)    == fr (+) SetToBag({path})
Occurrence(fr, path) == <<path, Copies(path, fr) + 1>>

\* Taking a path once more adds one occurrence that was not there, and to the hits of an
\* edge those of that occurrence.
LEMMA PathCounted ==
    ASSUME NEW fr, IsBag(fr), NEW path
    PROVE  /\ IsBag(Counted(fr, path)) /\ DOMAIN Counted(fr, path) = DOMAIN fr \cup {path}
           /\ Occurrences(Counted(fr, path)) = Occurrences(fr) \cup {Occurrence(fr, path)}
           /\ Occurrence(fr, path) \notin Occurrences(fr)
           /\ \A e : /\ Hits(e, Counted(fr, path)) =
                           Hits(e, fr) \cup ({Occurrence(fr, path)} \X Places(path, e))
                     /\ Hits(e, fr) \cap ({Occurrence(fr, path)} \X Places(path, e)) = {}
<1>0. PICK fr2, o : /\ fr2 = Counted(fr, path) /\ fr2 = fr (+) SetToBag({path})
                    /\ o = Occurrence(fr, path) /\ o = <<path, Copies(path, fr) + 1>>
  BY DEF Counted, Occurrence
<1>1. IsBag(SetToBag({path})) /\ DOMAIN SetToBag({path}) = {path}
      /\ \A x : Copies(x, SetToBag({path})) = IF x = path THEN 1 ELSE 0
  <2>1. PICK b : b = SetToBag({path})
    OBVIOUS
  <2>2. b = [x \in {path} |-> 1]
    BY <2>1 DEF SetToBag
  <2>3. DOMAIN b = {path} /\ b[path] = 1 /\ b \in [{path} -> Nat \ {0}]
    BY <2>2
  <2>4. IsFiniteSet({path})
    BY FS_Singleton
  <2> QED BY <2>1, <2>3, <2>4 DEF IsBag, Copies
<1>2. IsBag(fr2) /\ DOMAIN fr2 = DOMAIN fr \cup {path}
  BY <1>0, <1>1, BagSum
<1>3. \A x : Copies(x, fr2) = Copies(x, fr) + Copies(x, SetToBag({path}))
  BY <1>0, <1>1, BagSum
<1>4. \A b : IsBag(b) => \A x, n : <<x, n>> \in Occurrences(b) <=> n \in 1..Copies(x, b)
  <2> SUFFICES ASSUME NEW b, IsBag(b), NEW x, NEW n
               PROVE  <<x, n>> \in Occurrences(b) <=> n \in 1..Copies(x, b)
    OBVIOUS
  <2>1. CASE x \in DOMAIN b
    BY <2>1 DEF Occurrences, Copies
  <2>2. CASE x \notin DOMAIN b
    BY <2>2 DEF Occurrences, Copies
  <2> QED BY <2>1, <2>2
<1>5. \A b : \A p \in Occurrences(b) : p = <<p[1], p[2]>>
  BY DEF Occurrences
<1>6. \A x : Copies(x, fr) \in Nat
  BY DEF IsBag, Copies
<1>7. \A x, n : <<x, n>> \in Occurrences(fr2) <=> <<x, n>> \in Occurrences(fr) \/ <<x, n>> = o
  <2> SUFFICES ASSUME NEW x, NEW n
               PROVE  n \in 1..Copies(x, fr2) <=> n \in 1..Copies(x, fr) \/ <<x, n>> = o
    BY <1>2, <1>4
  <2>1. CASE x = path
    <3>1. Copies(x, fr2) = Copies(x, fr) + 1
      BY <1>1, <1>3, <2>1
    <3> QED BY <1>0, <1>6, <2>1, <3>1
  <2>2. CASE x # path
    <3>1. Copies(x, fr2) = Copies(x, fr)
      BY <1>1, <1>3, <1>6, <2>2
    <3> QED BY <1>0, <2>2, <3>1
  <2> QED BY <2>1, <2>2
<1>8. Occurrences(fr2) = Occurrences(fr) \cup {o}
  BY <1>0, <1>5, <1>7
<1>9. o \notin Occurrences(fr)
  BY <1>0, <1>4, <1>6
<1>10. ASSUME NEW e
       PROVE  /\ Hits(e, fr2) = Hits(e, fr) \cup ({o} \X Places(path, e))
              /\ Hits(e, fr) \cap ({o} \X Places(path, e)) = {}
  <2>1. \A b, h : h \in Hits(e, b) <=> \E p \in Occurrences(b) : h \in {p} \X Places(p[1], e)
    BY DEF Hits, Places
  <2>2. o[1] = path
    BY <1>0
  <2>3. \A h : h \in Hits(e, fr2) <=> h \in Hits(e, fr) \/ h \in {o} \X Places(path, e)
    BY <1>8, <2>1, <2>2
  <2>4. \A h : h \in Hits(e, fr) => h \notin {o} \X Places(path, e)
    <3> SUFFICES ASSUME NEW h, NEW p \in Occurrences(fr), h \in {p} \X Places(p[1], e),
                        h \in {o} \X Places(path, e)
                 PROVE  FALSE
      BY <2>1
    <3>1. h[1] = p /\ h[1] = o
      OBVIOUS
    <3> QED BY <1>9, <3>1
  <2> QED BY <2>3, <2>4
<1> QED BY <1>0, <1>2, <1>8, <1>9, <1>10

\* The map of edges and the frequencies of the paths tell the same: the edges are those of
\* the paths, and hit as often as the paths have them and were taken.
Kept(map, fr) ==
    /\ IsBag(map) /\ IsBag(fr)
    /\ \A p \in DOMAIN fr : Sequence(p)
    /\ DOMAIN map = UNION {ToSet(p) : p \in DOMAIN fr}
    /\ \A e : IsFiniteSet(Hits(e, fr)) /\ Copies(e, map) = Cardinality(Hits(e, fr))
    /\ IsFiniteSet(Occurrences(fr))

\* What taking a path does to the two.
Taken(map, fr, path) ==
    /\ Kept(map (+) ToBag(path), Counted(fr, path))
    /\ Cardinality(Occurrences(Counted(fr, path))) = Cardinality(Occurrences(fr)) + 1
    /\ DOMAIN Counted(fr, path) = DOMAIN fr \cup {path}
    /\ DOMAIN (map (+) ToBag(path)) = DOMAIN map \cup ToSet(path)

\* Recording a path keeps them in step (edge_coverage.rs:269-291).
LEMMA KeptByPath ==
    ASSUME NEW map, NEW fr, Kept(map, fr), NEW path, Sequence(path)
    PROVE  Taken(map, fr, path)
<1>1. PICK map2 : map2 = map (+) ToBag(path)
  OBVIOUS
<1>2. IsBag(map) /\ IsBag(fr) /\ \A p \in DOMAIN fr : Sequence(p)
  BY DEF Kept
<1>3. /\ IsBag(Counted(fr, path)) /\ DOMAIN Counted(fr, path) = DOMAIN fr \cup {path}
      /\ Occurrences(Counted(fr, path)) = Occurrences(fr) \cup {Occurrence(fr, path)}
      /\ Occurrence(fr, path) \notin Occurrences(fr)
      /\ \A e : /\ Hits(e, Counted(fr, path)) =
                      Hits(e, fr) \cup ({Occurrence(fr, path)} \X Places(path, e))
                /\ Hits(e, fr) \cap ({Occurrence(fr, path)} \X Places(path, e)) = {}
  BY <1>2, PathCounted
<1>4. /\ IsBag(map2) /\ DOMAIN map2 = DOMAIN map \cup ToSet(path)
      /\ \A e : Copies(e, map2) = Copies(e, map) + Cardinality(Places(path, e))
  BY <1>1, <1>2, BagOf, BagSum
<1>5. DOMAIN map2 = UNION {ToSet(p) : p \in DOMAIN Counted(fr, path)}
  <2>1. DOMAIN map = UNION {ToSet(p) : p \in DOMAIN fr}
    BY DEF Kept
  <2> QED BY <1>3, <1>4, <2>1
<1>6. /\ IsFiniteSet(Occurrences(Counted(fr, path)))
      /\ Cardinality(Occurrences(Counted(fr, path))) = Cardinality(Occurrences(fr)) + 1
      /\ Cardinality(Occurrences(fr)) \in Nat
  <2>1. IsFiniteSet(Occurrences(fr))
    BY DEF Kept
  <2> QED BY <1>3, <2>1, FS_AddElement, FS_CardinalityType
<1>7. ASSUME NEW e
      PROVE  /\ IsFiniteSet(Hits(e, Counted(fr, path)))
             /\ Copies(e, map2) = Cardinality(Hits(e, Counted(fr, path)))
  <2>1. IsFiniteSet(Hits(e, fr)) /\ Copies(e, map) = Cardinality(Hits(e, fr))
    BY DEF Kept
  <2>2. IsFiniteSet({Occurrence(fr, path)}) /\ Cardinality({Occurrence(fr, path)}) = 1
    BY FS_Singleton
  <2>3. IsFiniteSet(Places(path, e)) /\ Cardinality(Places(path, e)) \in Nat
    BY PlacesIn
  <2>4. PICK new : new = {Occurrence(fr, path)} \X Places(path, e)
    OBVIOUS
  <2>5. /\ IsFiniteSet(new)
        /\ Cardinality(new) = Cardinality({Occurrence(fr, path)}) * Cardinality(Places(path, e))
    BY <2>2, <2>3, <2>4, FS_Product
  <2>6. Cardinality(new) = Cardinality(Places(path, e))
    BY <2>2, <2>3, <2>5
  <2>7. Hits(e, Counted(fr, path)) = Hits(e, fr) \cup new /\ Hits(e, fr) \cap new = {}
    BY <1>3, <2>4
  <2>8. /\ IsFiniteSet(Hits(e, fr) \cup new)
        /\ Cardinality(Hits(e, fr) \cup new) =
              Cardinality(Hits(e, fr)) + Cardinality(new) - Cardinality(Hits(e, fr) \cap new)
    BY <2>1, <2>5, FS_Union
  <2>9. Cardinality(Hits(e, fr) \cap new) = 0 /\ Cardinality(Hits(e, fr)) \in Nat
    BY <2>1, <2>7, FS_EmptySet, FS_CardinalityType
  <2>10. Cardinality(Hits(e, Counted(fr, path))) =
            Cardinality(Hits(e, fr)) + Cardinality(Places(path, e))
    BY <2>3, <2>6, <2>7, <2>8, <2>9
  <2> QED BY <1>4, <2>1, <2>7, <2>8, <2>10
<1>8. Kept(map2, Counted(fr, path))
  BY <1>2, <1>3, <1>4, <1>5, <1>6, <1>7 DEF Kept
<1> QED BY <1>1, <1>3, <1>4, <1>6, <1>8 DEF Taken

\* They are in step when both are empty.
LEMMA KeptFromStart == Kept(EmptyBag, EmptyBag) /\ Cardinality(Occurrences(EmptyBag)) = 0
<1>1. PICK b : b = EmptyBag
  OBVIOUS
<1>2. b = [x \in {} |-> 1]
  BY <1>1 DEF EmptyBag, SetToBag
<1>3. DOMAIN b = {} /\ b \in [{} -> Nat \ {0}]
  BY <1>2
<1>4. Occurrences(b) = {} /\ \A e : Hits(e, b) = {} /\ Copies(e, b) = 0
  BY <1>3 DEF Occurrences, Hits, Copies
<1> QED BY <1>1, <1>3, <1>4, FS_EmptySet DEF Kept, IsBag

-----------------------------------------------------------------------------
\* The inductive invariant of the composite collector.

\* What a snapshot can be: both shares are a hundred percent by then.
Snapshot == [execution_count: Nat, edge_coverage: {100}, feature_coverage: {100}]

\* SnapshotsLatest of a history, after so many snapshots were taken.
Latest(history, taken) ==
    /\ Len(history) <= HistoryCap
    /\ taken <= HistoryCap => Len(history) = taken
    /\ taken > HistoryCap => Len(history) > HistoryCap - HistoryDrop
    /\ \A k \in 1..Len(history) :
          history[k].execution_count = SnapshotEvery * (taken - Len(history) + k)

\* The executions recorded to the end: the one that panicked was not.
Recorded == IF panicked THEN execution_count - 1 ELSE execution_count

\* A map is empty exactly as long as nothing was executed.
Covered(map) == DOMAIN map = {} <=> execution_count = 0
CoverageTypeOK ==
    /\ protocol_type \in DOMAIN Executions
    /\ execution_count \in Nat /\ panicked \in BOOLEAN
    /\ panicked => execution_count > 0
    /\ {"feature_map", "total_executions"} \subseteq DOMAIN feature_collector
    /\ IsBag(feature_collector.feature_map)
    /\ coverage_history \in Seq(Snapshot)

\* CountsConcur and what keeps it: the map of edges is in step with the paths, neither map
\* is empty after an execution, the history is the latest part of what was taken.
CoverageInv ==
    /\ CoverageTypeOK
    /\ CountsConcur
    /\ Kept(edge_collector.edge_map, edge_collector.path_frequencies)
    /\ Covered(edge_collector.edge_map)
    /\ ~panicked => Covered(feature_collector.feature_map)
    /\ Latest(coverage_history, Recorded \div SnapshotEvery)

\* Whatever is in a map has been covered, so the share of the covered is all or nothing.
LEMMA Covering ==
    ASSUME NEW map, IsBag(map)
    PROVE  Percentage(map) = IF DOMAIN map = {} THEN 0 ELSE 100
<1>1. {x \in DOMAIN map : map[x] > 0} = DOMAIN map
  BY DEF IsBag
<1>2. Cardinality(DOMAIN map) \in Nat /\ (DOMAIN map # {} => Cardinality(DOMAIN map) # 0)
  BY FS_CardinalityType, FS_EmptySet DEF IsBag
<1>3. \A n \in Nat : n # 0 => (100 * n) \div n = 100
  BY SMT
<1> QED BY <1>1, <1>2, <1>3 DEF Percentage

\* A snapshot more: the history is still the latest part, cut back at its cap or not.
LEMMA HistoryKept ==
    ASSUME NEW h \in Seq(Snapshot), NEW taken \in Nat, Latest(h, taken), NEW x \in Snapshot,
           x.execution_count = SnapshotEvery * (taken + 1)
    PROVE  /\ trimmed(Append(h, x)) \in Seq(Snapshot)
           /\ Latest(trimmed(Append(h, x)), taken + 1)
<1>1. PICK app \in Seq(Snapshot), n \in Nat :
         /\ app = Append(h, x) /\ Len(h) = n /\ Len(app) = n + 1
         /\ \A k \in 1..n : app[k] = h[k]
         /\ app[n + 1] = x
  <2>1. PICK T : T = Snapshot
    OBVIOUS
  <2>2. h \in Seq(T) /\ x \in T
    BY <2>1
  <2>3. PICK n, app : n = Len(h) /\ app = Append(h, x)
    OBVIOUS
  <2>4. Len(app) = n + 1 /\ app[n + 1] = x /\ \A k \in 1..n : app[k] = h[k]
    BY <2>2, <2>3, AppendProperties
  <2>5. n \in Nat /\ app \in Seq(T)
    BY <2>2, <2>3, AppendProperties
  <2> QED BY <2>1, <2>3, <2>4, <2>5
<1>2. PICK cap \in Nat, drop \in Nat : cap = HistoryCap /\ drop = HistoryDrop /\ drop \in 1..cap
  BY CoverageAssumption
<1>3. ASSUME NEW k \in 1..(n + 1)
      PROVE  app[k].execution_count = SnapshotEvery * ((taken + 1) - (n + 1) + k)
  <2>1. CASE k \in 1..n
    <3>1. (taken + 1) - (n + 1) + k = taken - n + k
      BY <2>1
    <3>2. h[k].execution_count = SnapshotEvery * (taken - n + k)
      BY <1>1, <2>1 DEF Latest
    <3> QED BY <1>1, <2>1, <3>1, <3>2
  <2>2. CASE k = n + 1
    <3>1. (taken + 1) - (n + 1) + k = taken + 1
      BY <2>2
    <3> QED BY <1>1, <2>2, <3>1
  <2> QED BY <2>1, <2>2
<1>4. /\ n <= cap
      /\ taken <= cap => n = taken
      /\ taken > cap => n > cap - drop
  BY <1>1, <1>2 DEF Latest
<1>5. CASE n + 1 <= cap
  <2>1. trimmed(app) = app
    <3>1. ~(Len(app) > HistoryCap)
      BY <1>1, <1>2, <1>5
    <3> QED BY <3>1 DEF trimmed
  <2>2. Latest(app, taken + 1)
    <3>1. taken + 1 <= cap => n + 1 = taken + 1
      BY <1>4
    <3>2. taken + 1 > cap => n + 1 > cap - drop
      BY <1>4, <1>5
    <3> QED BY <1>1, <1>2, <1>3, <1>5, <3>1, <3>2 DEF Latest
  <2> QED BY <1>1, <2>1, <2>2
<1>6. CASE n + 1 > cap
  <2>1. n = cap /\ taken >= cap
    BY <1>4, <1>6
  <2>2. PICK t : t = SubSeq(app, drop + 1, cap + 1)
    OBVIOUS
  <2>3. trimmed(app) = t
    <3>1. Len(app) > HistoryCap /\ Len(app) = cap + 1
      BY <1>1, <1>2, <2>1
    <3> QED BY <1>2, <2>2, <3>1 DEF trimmed
  <2>4. /\ t \in Seq(Snapshot) /\ Len(t) = cap + 1 - drop
        /\ \A k \in 1..(cap + 1 - drop) : t[k] = app[drop + k]
    <3>1. PICK T : T = Snapshot
      OBVIOUS
    <3>2. app \in Seq(T) /\ drop + 1 \in 1..Len(app) /\ cap + 1 \in 1..Len(app)
      BY <1>1, <1>2, <2>1, <3>1
    <3>3. drop + 1 <= cap + 2 /\ \A i \in (drop + 1)..(cap + 1) : i \in DOMAIN app
      BY <1>2, <3>2
    <3>4. t \in Seq(T) /\ Len(t) = cap + 1 - drop
      BY <1>2, <2>2, <3>2
    <3>5. \A k \in 1..(cap + 1 - drop) : t[k] = app[drop + k]
      BY <1>2, <2>2, <3>2
    <3> QED BY <3>1, <3>4, <3>5
  <2>5. ASSUME NEW k \in 1..(cap + 1 - drop)
        PROVE  t[k].execution_count = SnapshotEvery * ((taken + 1) - (cap + 1 - drop) + k)
    <3>1. drop + k \in 1..(n + 1)
      BY <2>1
    <3>2. app[drop + k].execution_count = SnapshotEvery * ((taken + 1) - (n + 1) + (drop + k))
      BY <1>3, <3>1
    <3>3. (taken + 1) - (n + 1) + (drop + k) = (taken + 1) - (cap + 1 - drop) + k
      BY <2>1
    <3> QED BY <2>4, <3>2, <3>3
  <2>6. Latest(t, taken + 1)
    <3>1. cap + 1 - drop <= cap /\ ~(taken + 1 <= cap) /\ cap + 1 - drop > cap - drop
      BY <1>2, <2>1
    <3> QED BY <1>2, <2>4, <2>5, <3>1 DEF Latest
  <2> QED BY <1>1, <2>3, <2>4, <2>6
<1> QED BY <1>1, <1>5, <1>6

\* What one execution more does to the number of snapshots taken.
LEMMA Divided ==
    ASSUME NEW s \in Nat \ {0}, NEW c \in Nat
    PROVE  /\ c \div s \in Nat
           /\ (c + 1) % s = 0 => /\ (c + 1) \div s = (c \div s) + 1
                                 /\ c + 1 = s * ((c + 1) \div s)
           /\ (c + 1) % s # 0 => (c + 1) \div s = c \div s
<1>1. PICK q \in Int, r \in 0..(s - 1) : q = c \div s /\ c = s * q + r
  BY SMT
<1>2. PICK p \in Int, t \in 0..(s - 1) : p = (c + 1) \div s /\ t = (c + 1) % s /\ c + 1 = s * p + t
  BY SMT
<1>3. \A i, j, a, b \in Int : s * i + a = s * j + b /\ 0 <= a /\ a < s /\ 0 <= b /\ b < s
                               => i = j
  <2>1. \A d \in Int : d >= 1 => s * d >= s
    BY SMT
  <2> SUFFICES ASSUME NEW i \in Int, NEW j \in Int, NEW a \in Int, NEW b \in Int,
                      s * i + a = s * j + b, 0 <= a, a < s, 0 <= b, b < s
               PROVE  i = j
    OBVIOUS
  <2>2. s * (i - j) = b - a /\ s * (j - i) = a - b
    BY SMT
  <2>3. ~(i - j >= 1) /\ ~(j - i >= 1)
    BY <2>1, <2>2
  <2> QED BY <2>3
<1>4. q >= 0
  <2>1. \A d \in Int : d <= -1 => s * d <= -s
    BY SMT
  <2> QED BY <1>1, <2>1
<1>5. CASE r = s - 1
  <2>1. c + 1 = s * (q + 1) + 0
    BY <1>1, <1>5
  <2>2. q + 1 = p
    BY <1>2, <1>3, <2>1
  <2>3. t = 0
    BY <1>2, <2>1, <2>2
  <2> QED BY <1>1, <1>2, <1>4, <2>1, <2>2, <2>3
<1>6. CASE r # s - 1
  <2>1. c + 1 = s * q + (r + 1) /\ r + 1 < s /\ 0 <= r + 1
    BY <1>1, <1>6
  <2>2. q = p
    BY <1>2, <1>3, <2>1
  <2>3. t = r + 1
    BY <1>2, <2>1, <2>2
  <2> QED BY <1>1, <1>2, <1>4, <2>2, <2>3
<1> QED BY <1>5, <1>6

\* The invariant holds at the start.
LEMMA FromStart == Init => CoverageInv
<1> SUFFICES ASSUME Init PROVE CoverageInv
  OBVIOUS
<1>1. PICK none : none = EmptyBag /\ DOMAIN none = {} /\ IsBag(none)
  BY KeptFromStart DEF EmptyBag, SetToBag, Kept
<1>2. /\ edge_collector.edge_map = none /\ edge_collector.path_frequencies = none
      /\ edge_collector.unique_paths = {} /\ edge_collector.total_executions = 0
  BY <1>1 DEF Init, NewEdgeCollector
<1>3. /\ feature_collector.feature_map = none /\ feature_collector.total_executions = 0
      /\ {"feature_map", "total_executions"} \subseteq DOMAIN feature_collector
  BY <1>1 DEF Init, NewFeatureCollector
<1>4. /\ execution_count = 0 /\ panicked = FALSE /\ coverage_history = << >>
      /\ protocol_type \in DOMAIN Executions
  BY DEF Init
<1>5. CoverageTypeOK
  <2>1. PICK T : T = Snapshot
    OBVIOUS
  <2>2. << >> \in Seq(T)
    OBVIOUS
  <2> QED BY <1>1, <1>3, <1>4, <2>1, <2>2 DEF CoverageTypeOK
<1>6. CountsConcur /\ Kept(none, none)
  BY <1>1, <1>2, <1>3, <1>4, KeptFromStart DEF CountsConcur, BagToSet
<1>7. Latest(coverage_history, Recorded \div SnapshotEvery)
  <2>1. \A s \in Nat \ {0} : 0 \div s = 0
    BY SMT
  <2> QED BY <1>4, <2>1, CoverageAssumption DEF Latest, Recorded
<1> QED BY <1>1, <1>2, <1>3, <1>4, <1>5, <1>6, <1>7 DEF CoverageInv, Covered

\* What the invariant says of the edge collector.
EdgesConcur ==
    /\ edge_collector.total_executions = execution_count
    /\ Cardinality(Occurrences(edge_collector.path_frequencies)) = execution_count
    /\ edge_collector.unique_paths = BagToSet(edge_collector.path_frequencies)
    /\ Kept(edge_collector.edge_map, edge_collector.path_frequencies)
    /\ Covered(edge_collector.edge_map)

\* Recording a path keeps that, whatever becomes of the features.
LEMMA EdgesRecorded ==
    ASSUME CoverageInv, NEW path, Sequence(path), Len(path) > 0,
           edge_collector' = edge_record(edge_collector, path),
           execution_count' = execution_count + 1
    PROVE  EdgesConcur'
<1>1. PICK map, fr, map2, fr2 :
         /\ map = edge_collector.edge_map /\ fr = edge_collector.path_frequencies
         /\ map2 = map (+) ToBag(path) /\ fr2 = Counted(fr, path)
  OBVIOUS
<1>2. /\ edge_collector'.edge_map = map2 /\ edge_collector'.path_frequencies = fr2
      /\ edge_collector'.unique_paths = edge_collector.unique_paths \cup {path}
      /\ edge_collector'.total_executions = edge_collector.total_executions + 1
  BY <1>1 DEF edge_record, Counted
<1>3. /\ Kept(map, fr) /\ Cardinality(Occurrences(fr)) = execution_count
      /\ edge_collector.total_executions = execution_count /\ execution_count \in Nat
      /\ edge_collector.unique_paths = DOMAIN fr
  BY <1>1 DEF CoverageInv, CoverageTypeOK, CountsConcur, BagToSet
<1>4. /\ Kept(map2, fr2) /\ Cardinality(Occurrences(fr2)) = Cardinality(Occurrences(fr)) + 1
      /\ DOMAIN fr2 = DOMAIN fr \cup {path} /\ DOMAIN map2 = DOMAIN map \cup ToSet(path)
  <2>1. Taken(map, fr, path)
    BY <1>3, KeptByPath
  <2> QED BY <1>1, <2>1 DEF Taken
<1>5. DOMAIN map2 # {}
  <2>1. 1 \in DOMAIN path
    BY PlacesIn
  <2> QED BY <1>4, <2>1 DEF ToSet
<1>6. execution_count' # 0
  BY <1>3
<1> QED BY <1>2, <1>3, <1>4, <1>5, <1>6 DEF EdgesConcur, Covered, BagToSet

\* Recording the features keeps what the invariant says of the feature collector.
LEMMA FeaturesRecorded ==
    ASSUME CoverageInv, NEW features, Sequence(features), Len(features) > 0,
           feature_collector' = feature_record(feature_collector, features),
           execution_count' = execution_count + 1
    PROVE  /\ {"feature_map", "total_executions"} \subseteq DOMAIN feature_collector'
           /\ IsBag(feature_collector'.feature_map)
           /\ feature_collector'.total_executions = execution_count'
           /\ Covered(feature_collector.feature_map)'
<1>1. PICK map, map2 : map = feature_collector.feature_map /\ map2 = map (+) ToBag(features)
  OBVIOUS
<1>2. /\ feature_collector'.feature_map = map2
      /\ feature_collector'.total_executions = feature_collector.total_executions + 1
      /\ {"feature_map", "total_executions"} \subseteq DOMAIN feature_collector'
  BY <1>1 DEF feature_record
<1>3. /\ IsBag(map) /\ feature_collector.total_executions = execution_count
      /\ execution_count \in Nat
  BY <1>1 DEF CoverageInv, CoverageTypeOK, CountsConcur
<1>4. IsBag(map2) /\ DOMAIN map2 = DOMAIN map \cup ToSet(features)
  BY <1>1, <1>3, BagOf, BagSum
<1>5. DOMAIN map2 # {}
  <2>1. 1 \in DOMAIN features
    BY PlacesIn
  <2> QED BY <1>4, <2>1 DEF ToSet
<1>6. execution_count' # 0
  BY <1>3
<1> QED BY <1>2, <1>3, <1>4, <1>5, <1>6 DEF Covered

\* Whatever can be executed has edges and features to record.
LEMMA Recordable ==
    ASSUME CoverageInv, NEW e \in Executions[protocol_type]
    PROVE  /\ Sequence(extract_edges(e[1], e[2])) /\ Len(extract_edges(e[1], e[2])) > 0
           /\ Sequence(extract_all_features(protocol_type, e[1], e[2]))
           /\ Len(extract_all_features(protocol_type, e[1], e[2])) > 0
<1>1. /\ e[1] \in Seq(0..255) /\ parse_questions(e[1]) \in Seq(Nat)
      /\ \A r \in e[2].response_data : Response(r)
  BY CoverageAssumption DEF CoverageInv, CoverageTypeOK, Response
<1> QED BY <1>1, PathsAre, FeaturesAre

\* An execution keeps the invariant.
LEMMA RecordKeeps ==
    ASSUME CoverageInv, NEW e \in Executions[protocol_type], RecordExecution(e[1], e[2])
    PROVE  CoverageInv'
<1>1. /\ panicked = FALSE /\ panicked' = panicked /\ protocol_type' = protocol_type
      /\ execution_count' = execution_count + 1 /\ execution_count \in Nat
  BY DEF RecordExecution, CoverageInv, CoverageTypeOK
<1>2. EdgesConcur'
  BY <1>1, Recordable, EdgesRecorded DEF RecordExecution
<1>3. /\ {"feature_map", "total_executions"} \subseteq DOMAIN feature_collector'
      /\ IsBag(feature_collector'.feature_map)
      /\ feature_collector'.total_executions = execution_count'
      /\ Covered(feature_collector.feature_map)'
  BY <1>1, Recordable, FeaturesRecorded DEF RecordExecution
<1>4. PICK taken : /\ taken = execution_count \div SnapshotEvery
                   /\ Latest(coverage_history, taken)
  BY <1>1 DEF CoverageInv, Recorded
<1>5. coverage_history \in Seq(Snapshot)
  BY DEF CoverageInv, CoverageTypeOK
<1>6. /\ taken \in Nat
      /\ (execution_count + 1) % SnapshotEvery = 0 =>
            /\ (execution_count + 1) \div SnapshotEvery = taken + 1
            /\ execution_count + 1 = SnapshotEvery * ((execution_count + 1) \div SnapshotEvery)
      /\ (execution_count + 1) % SnapshotEvery # 0 =>
            (execution_count + 1) \div SnapshotEvery = taken
  BY <1>1, <1>4, Divided, CoverageAssumption
<1>7. coverage_history' \in Seq(Snapshot)
      /\ Latest(coverage_history', (execution_count + 1) \div SnapshotEvery)
  <2>1. CASE (execution_count + 1) % SnapshotEvery = 0
    <3>1. PICK x : x = snapshot(execution_count + 1, edge_collector', feature_collector')
      OBVIOUS
    <3>2. coverage_history' = trimmed(Append(coverage_history, x))
      BY <1>1, <2>1, <3>1 DEF RecordExecution
    <3>3. x \in Snapshot /\ x.execution_count = SnapshotEvery * (taken + 1)
      <4>1. Percentage(edge_collector'.edge_map) = 100
        <5>1. PICK map : map = edge_collector'.edge_map
          OBVIOUS
        <5>2. IsBag(map) /\ DOMAIN map # {}
          BY <1>1, <1>2, <5>1 DEF EdgesConcur, Covered, Kept
        <5> QED BY <5>1, <5>2, Covering
      <4>2. Percentage(feature_collector'.feature_map) = 100
        BY <1>1, <1>3, Covering DEF Covered
      <4>3. x = [execution_count |-> execution_count + 1, edge_coverage |-> 100,
                 feature_coverage |-> 100]
        BY <3>1, <4>1, <4>2 DEF snapshot
      <4>4. execution_count + 1 \in Nat
        BY <1>1
      <4> QED BY <1>6, <2>1, <4>3, <4>4 DEF Snapshot
    <3>4. /\ trimmed(Append(coverage_history, x)) \in Seq(Snapshot)
          /\ Latest(trimmed(Append(coverage_history, x)), taken + 1)
      BY <1>4, <1>5, <1>6, <3>3, HistoryKept
    <3> QED BY <1>6, <2>1, <3>2, <3>4
  <2>2. CASE (execution_count + 1) % SnapshotEvery # 0
    <3>1. coverage_history' = coverage_history
      BY <1>1, <2>2 DEF RecordExecution
    <3> QED BY <1>4, <1>5, <1>6, <2>2, <3>1
  <2> QED BY <2>1, <2>2
<1>8. Latest(coverage_history, Recorded \div SnapshotEvery)'
  <2>1. Recorded' = execution_count + 1
    BY <1>1 DEF Recorded
  <2> QED BY <1>7, <2>1 DEF Latest
<1>9. CoverageTypeOK'
  <2>1. execution_count' \in Nat
    BY <1>1
  <2> QED BY <1>1, <1>3, <1>7, <2>1 DEF CoverageTypeOK, CoverageInv
<1>10. CountsConcur'
  BY <1>2, <1>3 DEF CountsConcur, EdgesConcur
<1> QED BY <1>2, <1>3, <1>8, <1>9, <1>10 DEF CoverageInv, EdgesConcur

\* So does one whose features panic, after its edges were recorded.
LEMMA PanicKeeps ==
    ASSUME CoverageInv, NEW e \in Executions[protocol_type], RecordPanics(e[1], e[2])
    PROVE  CoverageInv'
<1>1. /\ panicked = FALSE /\ panicked' = TRUE /\ protocol_type' = protocol_type
      /\ execution_count' = execution_count + 1 /\ execution_count \in Nat
      /\ coverage_history' = coverage_history
  BY DEF RecordPanics, CoverageInv, CoverageTypeOK
<1>2. EdgesConcur'
  BY <1>1, Recordable, EdgesRecorded DEF RecordPanics
<1>3. /\ {"feature_map", "total_executions"} \subseteq DOMAIN feature_collector'
      /\ IsBag(feature_collector'.feature_map)
      /\ feature_collector'.total_executions = execution_count'
  <2>1. /\ {"feature_map", "total_executions"} \subseteq DOMAIN feature_collector
        /\ IsBag(feature_collector.feature_map)
        /\ feature_collector.total_executions = execution_count
    BY DEF CoverageInv, CoverageTypeOK, CountsConcur
  <2>2. feature_collector' = [feature_collector EXCEPT !.total_executions = @ + 1]
    BY DEF RecordPanics, feature_record_panicking
  <2> QED BY <1>1, <2>1, <2>2
<1>4. Latest(coverage_history, Recorded \div SnapshotEvery)'
  <2>1. Recorded' = execution_count /\ Recorded = execution_count
    BY <1>1 DEF Recorded
  <2>2. Latest(coverage_history, execution_count \div SnapshotEvery)
    BY <2>1 DEF CoverageInv
  <2> QED BY <1>1, <2>1, <2>2 DEF Latest
<1>5. CoverageTypeOK'
  <2>1. execution_count' \in Nat /\ execution_count' > 0
    BY <1>1
  <2> QED BY <1>1, <1>3, <2>1 DEF CoverageTypeOK, CoverageInv
<1>6. CountsConcur'
  BY <1>2, <1>3 DEF CountsConcur, EdgesConcur
<1> QED BY <1>1, <1>2, <1>4, <1>5, <1>6 DEF CoverageInv, EdgesConcur

\* So does a reset.
LEMMA ResetKeeps == ASSUME CoverageInv, ResetAll PROVE CoverageInv'
<1>1. PICK none : none = EmptyBag /\ DOMAIN none = {} /\ Kept(none, none)
                  /\ Cardinality(Occurrences(none)) = 0
  BY KeptFromStart DEF EmptyBag, SetToBag
<1>2. /\ edge_collector'.edge_map = none /\ edge_collector'.path_frequencies = none
      /\ edge_collector'.unique_paths = {} /\ edge_collector'.total_executions = 0
  BY <1>1 DEF ResetAll, NewEdgeCollector
<1>3. /\ feature_collector'.feature_map = none /\ feature_collector'.total_executions = 0
      /\ {"feature_map", "total_executions"} \subseteq DOMAIN feature_collector'
  BY <1>1 DEF ResetAll, NewFeatureCollector
<1>4. /\ execution_count' = 0 /\ panicked' = FALSE /\ coverage_history' = << >>
      /\ protocol_type' = protocol_type /\ protocol_type \in DOMAIN Executions
  BY DEF ResetAll, CoverageInv, CoverageTypeOK
<1>5. CoverageTypeOK'
  <2>1. PICK T : T = Snapshot
    OBVIOUS
  <2>2. << >> \in Seq(T)
    OBVIOUS
  <2>3. IsBag(none)
    BY <1>1 DEF Kept
  <2> QED BY <1>3, <1>4, <2>1, <2>2, <2>3 DEF CoverageTypeOK
<1>6. CountsConcur' /\ Kept(edge_collector.edge_map, edge_collector.path_frequencies)'
  BY <1>1, <1>2, <1>3, <1>4 DEF CountsConcur, BagToSet
<1>7. Latest(coverage_history, Recorded \div SnapshotEvery)'
  <2>1. \A s \in Nat \ {0} : 0 \div s = 0
    BY SMT
  <2> QED BY <1>4, <2>1, CoverageAssumption DEF Latest, Recorded
<1> QED BY <1>1, <1>2, <1>3, <1>4, <1>5, <1>6, <1>7 DEF CoverageInv, Covered

\* The invariant holds in every reachable state.
LEMMA CoverageInvAlways == Spec => []CoverageInv
<1>1. Init => CoverageInv
  BY FromStart
<1>2. CoverageInv /\ [Next]_vars => CoverageInv'
  <2> SUFFICES ASSUME CoverageInv, [Next]_vars PROVE CoverageInv'
    OBVIOUS
  <2>1. ASSUME NEW e \in Executions[protocol_type], RecordExecution(e[1], e[2]) PROVE CoverageInv'
    BY <2>1, RecordKeeps
  <2>2. ASSUME NEW e \in Executions[protocol_type], RecordPanics(e[1], e[2]) PROVE CoverageInv'
    BY <2>2, PanicKeeps
  <2>3. CASE ResetAll
    BY <2>3, ResetKeeps
  <2>4. CASE UNCHANGED vars
    BY <2>4 DEF vars, CoverageInv, CoverageTypeOK, CountsConcur, Covered, Latest, Recorded
  <2> QED BY <2>1, <2>2, <2>3, <2>4 DEF Next
<1> QED BY <1>1, <1>2, PTL DEF Spec

-----------------------------------------------------------------------------
\* The theorems on the counts, on the history and on the figures of the report.

\* The executions are counted three times over and the counts agree, also after a panic half
\* way; the set of the paths is kept in step with their frequencies (mod.rs:331-335,
\* edge_coverage.rs:269-291).
THEOREM CountsConcurAlways == Spec => []CountsConcur
<1>1. CoverageInv => CountsConcur
  BY DEF CoverageInv
<1> QED BY <1>1, CoverageInvAlways, PTL

\* The hits of an edge are those of the paths it is on, as often as it is on them and as
\* often as they were taken, whatever the hash function confuses (edge_coverage.rs:276-291).
THEOREM EdgeCountsArePathsAlways == Spec => []EdgeCountsArePaths
<1>1. CoverageInv => EdgeCountsArePaths
  BY DEF CoverageInv, Kept, EdgeCountsArePaths, Copies
<1> QED BY <1>1, CoverageInvAlways, PTL

\* The history of snapshots is bounded, and holds the latest ones, evenly spaced and in
\* order, so that mod.rs:241 never underflows.
THEOREM SnapshotsLatestAlways == Spec => []SnapshotsLatest
<1>1. CoverageInv => SnapshotsLatest
  BY DEF CoverageInv, Latest, Recorded, SnapshotsLatest
<1> QED BY <1>1, CoverageInvAlways, PTL

\* The moving average over nothing but zeros is zero.
LEMMA MeanOfZeros ==
    ASSUME NEW n \in Nat, NEW ema,
           \A k \in 0..n : ema[k] = IF k = 0 THEN 0 ELSE (0 + 9 * ema[k - 1]) \div 10
    PROVE  \A k \in 0..n : ema[k] = 0
<1> SUFFICES ASSUME NEW j \in 0..n, ema[j] # 0 PROVE FALSE
  OBVIOUS
<1>1. PICK T : T = {k \in 0..n : ema[k] # 0}
  OBVIOUS
<1>2. PICK k \in T : \A i \in T : k <= i
  <2>1. T \in SUBSET Nat /\ T # {}
    BY <1>1
  <2> QED BY <2>1, Smallest
<1>3. k \in 0..n /\ ema[k] # 0
  BY <1>1, <1>2
<1>4. k # 0
  BY <1>3
<1>5. ema[k - 1] = 0
  <2>1. k - 1 \in 0..n /\ ~(k <= k - 1)
    BY <1>3, <1>4
  <2>2. k - 1 \notin T
    BY <1>2, <2>1
  <2> QED BY <1>1, <2>1, <2>2
<1>6. ema[k] = (0 + 9 * ema[k - 1]) \div 10
  BY <1>3, <1>4
<1> QED BY <1>3, <1>5, <1>6

\* The larger of two numbers is one of them and not less than the first.
LEMMA LargerOfTwo == \A p, q \in Int : Max({p, q}) \in {p, q} /\ Max({p, q}) >= p
<1> SUFFICES ASSUME NEW p \in Int, NEW q \in Int
             PROVE  Max({p, q}) \in {p, q} /\ Max({p, q}) >= p
  OBVIOUS
<1>1. \E x \in {p, q} : \A y \in {p, q} : x >= y
  BY SMT
<1> QED BY <1>1 DEF Max

\* With every snapshot at a hundred percent, no rate of the report is anything but zero.
LEMMA Blind == CoverageInv => DiscoveryRateBlind
<1> SUFFICES ASSUME CoverageInv PROVE DiscoveryRateBlind
  OBVIOUS
<1>1. PICK held : held = Len(coverage_history) /\ held \in Nat
  BY DEF CoverageInv, CoverageTypeOK
<1>2. \A i, j \in 1..held : increase(coverage_history[i], coverage_history[j]) = 0
  <2> SUFFICES ASSUME NEW i \in 1..held, NEW j \in 1..held
               PROVE  increase(coverage_history[i], coverage_history[j]) = 0
    OBVIOUS
  <2>1. PICK T : T = Snapshot
    OBVIOUS
  <2>2. coverage_history[i] \in T /\ coverage_history[j] \in T
    BY <1>1, <2>1 DEF CoverageInv, CoverageTypeOK
  <2>3. coverage_history[i].edge_coverage = 100 /\ coverage_history[j].edge_coverage = 100
    BY <2>1, <2>2 DEF Snapshot
  <2> QED BY <2>3 DEF increase
<1>3. ~panicked => coverage_percentage = IF execution_count = 0 THEN 0 ELSE 100
  <2> SUFFICES ASSUME ~panicked
               PROVE  coverage_percentage = IF execution_count = 0 THEN 0 ELSE 100
    OBVIOUS
  <2>1. /\ IsBag(edge_collector.edge_map) /\ IsBag(feature_collector.feature_map)
        /\ Covered(edge_collector.edge_map) /\ Covered(feature_collector.feature_map)
    BY DEF CoverageInv, CoverageTypeOK, Kept
  <2>2. /\ Percentage(edge_collector.edge_map) = IF execution_count = 0 THEN 0 ELSE 100
        /\ Percentage(feature_collector.feature_map) = IF execution_count = 0 THEN 0 ELSE 100
    BY <2>1, Covering DEF Covered
  <2> QED BY <2>2 DEF coverage_percentage
<1>4. ToSet(calculate_edge_discovery_rate) \subseteq {0}
  <2>1. ASSUME NEW k \in 1..(held - WindowSize + 1)
        PROVE  Max({0, increase(coverage_history[k], coverage_history[k + WindowSize - 1])
                          \div WindowSize}) = 0
    <3>1. k \in 1..held /\ k + WindowSize - 1 \in 1..held
      BY <1>1, CoverageAssumption
    <3>2. increase(coverage_history[k], coverage_history[k + WindowSize - 1]) = 0
      BY <1>2, <3>1
    <3>3. 0 \div WindowSize = 0
      BY CoverageAssumption
    <3>4. Max({0, 0}) = 0
      BY DEF Max
    <3> QED BY <3>2, <3>3, <3>4
  <2> QED BY <1>1, <2>1 DEF calculate_edge_discovery_rate, ToSet
<1>5. ASSUME held >= 2 PROVE calculate_discovery_rate = 0
  <2>1. PICK m : m = Max({1, held - WindowSize + 1})
    OBVIOUS
  <2>2. m \in 1..(held - 1)
    <3>1. held - WindowSize + 1 \in Int /\ held - WindowSize + 1 <= held - 1
      BY <1>1, CoverageAssumption
    <3>2. m \in {1, held - WindowSize + 1} /\ m >= 1
      <4>1. \A p, q \in Int : Max({p, q}) \in {p, q} /\ Max({p, q}) >= p
        BY LargerOfTwo
      <4> QED BY <2>1, <3>1, <4>1
    <3> QED BY <1>1, <1>5, <3>1, <3>2
  <2>3. PICK recent : recent = recent_snapshots /\ recent = SubSeq(coverage_history, m, held)
    BY <1>1, <2>1 DEF recent_snapshots
  <2>4. /\ Len(recent) = held - m + 1 /\ \E T : recent \in Seq(T)
        /\ recent[1] = coverage_history[m]
        /\ recent[held - m + 1] = coverage_history[held]
    <3>1. PICK T : T = Snapshot
      OBVIOUS
    <3>2. coverage_history \in Seq(T)
      BY <3>1 DEF CoverageInv, CoverageTypeOK
    <3>3. /\ Len(recent) = held - m + 1 /\ recent[1] = coverage_history[m]
          /\ recent[held - m + 1] = coverage_history[held]
      BY <1>1, <2>2, <2>3, <3>2
    <3>4. recent \in Seq(T)
      BY <1>1, <2>2, <2>3, <3>2
    <3> QED BY <3>3, <3>4
  <2>5. Head(recent) = coverage_history[m] /\ Last(recent) = coverage_history[held]
    BY <2>2, <2>3, <2>4 DEF Last
  <2>6. increase(Head(recent), Last(recent)) = 0
    BY <1>1, <1>2, <2>2, <2>5
  <2>7. PICK d \in Nat \ {0} : d = Last(recent).execution_count - Head(recent).execution_count
    <3>1. PICK taken \in Nat : Latest(coverage_history, taken)
      <4>1. Recorded \in Nat
        BY DEF Recorded, CoverageInv, CoverageTypeOK
      <4>2. Recorded \div SnapshotEvery \in Nat
        BY <4>1, Divided, CoverageAssumption
      <4> QED BY <4>2 DEF CoverageInv
    <3>2. /\ coverage_history[m].execution_count = SnapshotEvery * (taken - held + m)
          /\ coverage_history[held].execution_count = SnapshotEvery * (taken - held + held)
      BY <1>1, <2>2, <3>1 DEF Latest
    <3>3. \A s \in Nat \ {0}, p, q \in Int : p < q => s * q - s * p \in Nat \ {0}
      BY SMT
    <3>4. taken - held + m < taken - held + held
      BY <1>1, <2>2
    <3> QED BY <1>1, <2>2, <2>5, <3>2, <3>3, <3>4, CoverageAssumption
  <2>8. 0 \div d = 0
    OBVIOUS
  <2> QED BY <1>1, <1>5, <2>3, <2>6, <2>7, <2>8 DEF calculate_discovery_rate
<1>6. ASSUME held >= GrowthMin PROVE calculate_coverage_growth_rate = 0
  <2> DEFINE mean(e) == [k \in 0..(held - 1) |->
                            IF k = 0 THEN 0
                            ELSE (increase(coverage_history[k], coverage_history[k + 1])
                                     + 9 * e[k - 1]) \div 10]
             ema == CHOOSE e : e = mean(e)
  <2>1. \A e : mean(e) = [k \in 0..(held - 1) |-> IF k = 0 THEN 0 ELSE (0 + 9 * e[k - 1]) \div 10]
    <3>1. \A k \in 0..(held - 1) : k # 0 =>
             increase(coverage_history[k], coverage_history[k + 1]) = 0
      BY <1>1, <1>2
    <3> QED BY <3>1
  <2> HIDE DEF mean
  <2>2. ema = mean(ema)
    <3>1. PICK z : z = [k \in 0..(held - 1) |-> 0]
      OBVIOUS
    <3>2. \A k \in 0..(held - 1) : k # 0 => (0 + 9 * z[k - 1]) \div 10 = 0
      <4> SUFFICES ASSUME NEW k \in 0..(held - 1), k # 0 PROVE (0 + 9 * z[k - 1]) \div 10 = 0
        OBVIOUS
      <4>1. k - 1 \in 0..(held - 1)
        BY <1>1
      <4>2. z[k - 1] = 0
        BY <3>1, <4>1
      <4> QED BY <4>2
    <3>3. z = mean(z)
      BY <2>1, <3>1, <3>2
    <3> QED BY <3>3
  <2> HIDE DEF ema
  <2>3. \A k \in 0..(held - 1) : ema[k] = 0
    <3>1. \A k \in 0..(held - 1) : ema[k] = IF k = 0 THEN 0 ELSE (0 + 9 * ema[k - 1]) \div 10
      BY <2>1, <2>2
    <3>2. held - 1 \in Nat
      BY <1>1, <1>6, CoverageAssumption
    <3> QED BY <3>1, <3>2, MeanOfZeros
  <2>4. calculate_coverage_growth_rate = ema[held - 1]
    BY <1>1, <1>6, CoverageAssumption DEF calculate_coverage_growth_rate, mean, ema
  <2> QED BY <1>1, <1>6, <2>3, <2>4, CoverageAssumption
<1>7. /\ held < 2 => calculate_discovery_rate = 0
      /\ held < GrowthMin => calculate_coverage_growth_rate = 0
  BY <1>1 DEF calculate_discovery_rate, calculate_coverage_growth_rate
<1> QED BY <1>1, <1>3, <1>4, <1>5, <1>6, <1>7, CoverageAssumption DEF DiscoveryRateBlind

\* Coverage is a hundred percent from the first execution on and every rate of discovery or
\* growth is zero, whatever is executed (mod.rs:176-290, edge_coverage.rs:254-316).
THEOREM DiscoveryRateBlindAlways == Spec => []DiscoveryRateBlind
  BY Blind, CoverageInvAlways, PTL

-----------------------------------------------------------------------------
\* The two collectors against each other.

\* What the edge collector can make of an error message.
Verdicts == {"connection_error", "timeout_error", "parse_error", "network_error",
             "protocol_error", "unknown_error"}

\* Edges before they are hashed: those of an outcome or an error, ...
OutcomeNames == {<<"execution", "success">>, <<"execution", "failure">>}
                \cup {<<"error_type", v>> : v \in Verdicts}

\* ... those of a packet, ...
InputNames(d) ==
    ({"empty_input"} \X {0})
    \cup ({"input_size"} \X {categorize_size(Len(d))})
    \cup ({"first_byte", "header_u16", "header_u32"}
             \X {Prefix(d, n) : n \in {1, 2, 4} \cap 1..Len(d)})
    \cup ({"most_common_byte"} \X {most_common_byte(x) : x \in {d} \ {<< >>}})
    \cup ({"entropy"} \X {entropy_category(d)})
    \cup ({"repeated_pattern"}
             \X {Block(d, k, 4) : k \in {j \in 1..Len(d) : RepeatsAt(d, j, 4)}})

\* ... those of a response, ...
ResponseNames(d) ==
    ({"response"} \X {"empty"})
    \cup ({"response_size"} \X {categorize_size(Len(d))})
    \cup ({"response_first_byte", "response_header"}
             \X {Prefix(d, n) : n \in {1, 2} \cap 1..Len(d)})
    \cup ({"response_protocol"} \X {response_protocol(d)})

\* ... that of the time it took, ...
TimingName(result) == <<"execution_time", categorize_timing(result.execution_time_ms)>>

\* ... and all that an execution leaves beside its outcome.
OtherNamesOf(e) ==
    (InputNames(e[1]) \cup UNION {ResponseNames(r) : r \in e[2].response_data})
       \cup {TimingName(e[2])}
AllExecutions == UNION {Executions[p] : p \in DOMAIN Executions}
OtherNames == UNION {OtherNamesOf(e) : e \in AllExecutions}

\* No two outcomes have the same hash, nor has an outcome the hash of another edge that an
\* execution can leave.  The hashes of the other edges may collide with one another.
OutcomesTold == \A o \in OutcomeNames, n \in OutcomeNames \cup OtherNames :
                   hash_edge(n[1], n[2]) = hash_edge(o[1], o[2]) => n = o
OutcomeEdges == {hash_edge(o[1], o[2]) : o \in OutcomeNames}

\* An outcome differs from any other edge before they are hashed, ...
LEMMA NamesApart == OtherNames \cap OutcomeNames = {}
<1> SUFFICES ASSUME NEW n \in OtherNames PROVE n \notin OutcomeNames
  OBVIOUS
<1>1. PICK e \in AllExecutions :
         \/ n \in InputNames(e[1])
         \/ \E r \in e[2].response_data : n \in ResponseNames(r)
         \/ n = TimingName(e[2])
  BY DEF OtherNames, OtherNamesOf
<1>2. ASSUME NEW d, NEW x \in InputNames(d)
      PROVE  x[1] \in {"empty_input", "input_size", "most_common_byte", "entropy", "first_byte",
                       "header_u16", "header_u32", "repeated_pattern"}
  BY DEF InputNames
<1>3. ASSUME NEW d, NEW x \in ResponseNames(d)
      PROVE  x[1] \in {"response", "response_size", "response_first_byte", "response_header",
                       "response_protocol"}
  BY DEF ResponseNames
<1>4. n[1] \notin {"execution", "error_type"}
  BY <1>1, <1>2, <1>3 DEF TimingName
<1> QED BY <1>4 DEF OutcomeNames

\* ... and so after.
LEMMA OtherEdges ==
    ASSUME OutcomesTold, NEW t, NEW v, <<t, v>> \in OtherNames
    PROVE  hash_edge(t, v) \notin OutcomeEdges
<1>1. PICK n \in OtherNames : n[1] = t /\ n[2] = v
  OBVIOUS
<1> QED BY <1>1, NamesApart DEF OutcomesTold, OutcomeEdges

\* The members of a finite set of numbers are numbered in their order: repeated_patterns
\* is defined.
LEMMA Ranked ==
    ASSUME NEW n \in Nat, NEW S \in SUBSET (1..n), NEW i \in 1..Cardinality(S)
    PROVE  \E k \in S : Cardinality({j \in S : j <= k}) = i
<1> DEFINE upto(k) == {j \in S : j <= k}
<1>0. \A j \in S : j \in 1..n
  OBVIOUS
<1>1. \A k \in Nat : IsFiniteSet(upto(k)) /\ Cardinality(upto(k)) \in Nat
  <2> SUFFICES ASSUME NEW k \in Nat PROVE IsFiniteSet(upto(k)) /\ Cardinality(upto(k)) \in Nat
    OBVIOUS
  <2>1. IsFiniteSet(1..n) /\ upto(k) \subseteq 1..n
    <3>1. IsFiniteSet(1..n)
      BY FS_Interval
    <3> QED BY <3>1
  <2>2. IsFiniteSet(upto(k))
    BY <2>1, FS_Subset
  <2> QED BY <2>2, FS_CardinalityType
<1>2. PICK T : T = {k \in Nat : Cardinality(upto(k)) >= i}
  OBVIOUS
<1>3. n \in T
  <2>1. upto(n) = S
    <3>1. \A j \in S : j <= n
      BY <1>0
    <3> QED BY <3>1
  <2>2. Cardinality(upto(n)) = Cardinality(S)
    BY <2>1
  <2>3. Cardinality(upto(n)) \in Nat
    BY <1>1
  <2> QED BY <1>2, <2>2, <2>3
<1>4. PICK k \in T : \A m \in T : k <= m
  <2>1. T \in SUBSET Nat /\ T # {}
    BY <1>2, <1>3
  <2> QED BY <2>1, Smallest
<1>5. k \in Nat /\ Cardinality(upto(k)) >= i
  BY <1>2, <1>4
<1>6. k # 0
  <2>1. upto(0) = {}
    <3>1. \A j \in S : ~(j <= 0)
      BY <1>0
    <3> QED BY <3>1
  <2>2. Cardinality(upto(0)) = 0
    BY <2>1, FS_EmptySet
  <2>3. ~(0 >= i)
    OBVIOUS
  <2> QED BY <1>5, <2>2, <2>3
<1>7. k - 1 \in Nat /\ ~(Cardinality(upto(k - 1)) >= i)
  <2>1. k - 1 \in Nat /\ ~(k <= k - 1)
    BY <1>5, <1>6
  <2> QED BY <1>2, <1>4, <2>1
<1>8. k \in S /\ upto(k) = upto(k - 1) \cup {k}
  <2>1. CASE k \in S
    <3>1. \A j \in S : j <= k <=> j <= k - 1 \/ j = k
      BY <1>5, <1>6
    <3> QED BY <2>1, <3>1
  <2>2. CASE k \notin S
    <3>1. \A j \in S : j <= k <=> j <= k - 1
      BY <1>5, <1>6, <2>2
    <3>2. upto(k) = upto(k - 1)
      BY <3>1
    <3> QED BY <1>5, <1>7, <3>2
  <2> QED BY <2>1, <2>2
<1>9. Cardinality(upto(k)) = Cardinality(upto(k - 1)) + 1
  <2>1. k \notin upto(k - 1) /\ IsFiniteSet(upto(k - 1))
    <3>1. ~(k <= k - 1)
      BY <1>5
    <3>2. IsFiniteSet(upto(k - 1))
      BY <1>1, <1>7
    <3> QED BY <3>1, <3>2
  <2> HIDE DEF upto
  <2> QED BY <1>8, <2>1, FS_AddElement
<1>10. Cardinality(upto(k)) = i
  <2> HIDE DEF upto
  <2> QED BY <1>1, <1>5, <1>7, <1>9
<1> QED BY <1>8, <1>10

\* No edge of a packet is an outcome.
LEMMA InputAvoids ==
    ASSUME OutcomesTold, NEW data \in Seq(0..255), InputNames(data) \subseteq OtherNames
    PROVE  Avoids(extract_input_edges(data), OutcomeEdges)
<1>1. \A t, v : <<t, v>> \in InputNames(data) => hash_edge(t, v) \notin OutcomeEdges
  BY OtherEdges
<1>2. Avoids(repeated_patterns(data), OutcomeEdges)
  <2> DEFINE starts == {k \in 1..Len(data) : RepeatsAt(data, k, 4)}
             nth(n) == CHOOSE k \in starts : Cardinality({j \in starts : j <= k}) = n
  <2>1. Cardinality(starts) \in Nat
    <3>1. IsFiniteSet(1..Len(data))
      BY FS_Interval
    <3>2. IsFiniteSet(starts)
      BY <3>1, FS_Subset
    <3> QED BY <3>2, FS_CardinalityType
  <2>2. repeated_patterns(data) = [n \in 1..Cardinality(starts) |->
                                     hash_edge("repeated_pattern", Block(data, nth(n), 4))]
    BY DEF repeated_patterns
  <2>3. \A k \in starts : <<"repeated_pattern", Block(data, k, 4)>> \in InputNames(data)
    BY DEF InputNames
  <2>4. \A n \in 1..Cardinality(starts) : nth(n) \in starts
    <3>1. starts \in SUBSET (1..Len(data)) /\ Len(data) \in Nat
      OBVIOUS
    <3> HIDE DEF starts
    <3>2. \A n \in 1..Cardinality(starts) :
             \E k \in starts : Cardinality({j \in starts : j <= k}) = n
      BY <3>1, Ranked
    <3> QED BY <3>2
  <2> HIDE DEF starts, nth
  <2>5. PICK f : /\ f = repeated_patterns(data) /\ DOMAIN f = 1..Cardinality(starts)
                 /\ f = [k \in 1..Cardinality(starts) |-> f[k]]
                 /\ \A n \in 1..Cardinality(starts) :
                       f[n] = hash_edge("repeated_pattern", Block(data, nth(n), 4))
    BY <2>2
  <2>6. \A n \in 1..Cardinality(starts) : f[n] \notin OutcomeEdges
    BY <1>1, <2>3, <2>4, <2>5
  <2>7. Avoids(f, OutcomeEdges)
    BY <2>1, <2>5, <2>6, AvoidsTabulated
  <2> QED BY <2>5, <2>7
<1>3. \A t \in {"first_byte", "header_u16", "header_u32"}, n \in {1, 2, 4} :
         Len(data) >= n => hash_edge(t, Prefix(data, n)) \notin OutcomeEdges
  <2> SUFFICES ASSUME NEW t \in {"first_byte", "header_u16", "header_u32"}, NEW n \in {1, 2, 4},
                      Len(data) >= n
               PROVE  <<t, Prefix(data, n)>> \in InputNames(data)
    BY <1>1
  <2>1. n \in {1, 2, 4} \cap 1..Len(data)
    OBVIOUS
  <2> QED BY <2>1 DEF InputNames
<1>4. /\ hash_edge("empty_input", 0) \notin OutcomeEdges
      /\ hash_edge("input_size", categorize_size(Len(data))) \notin OutcomeEdges
      /\ data # << >> => hash_edge("most_common_byte", most_common_byte(data)) \notin OutcomeEdges
      /\ hash_edge("entropy", entropy_category(data)) \notin OutcomeEdges
  BY <1>1 DEF InputNames
<1>5. data # << >> => Len(data) >= 1
  OBVIOUS
<1>6. /\ data # << >> => Avoids(<<hash_edge("input_size", categorize_size(Len(data))),
                                  hash_edge("first_byte", Prefix(data, 1))>>, OutcomeEdges)
      /\ Avoids(<<hash_edge("empty_input", 0)>>, OutcomeEdges)
      /\ data # << >> => Avoids(<<hash_edge("most_common_byte", most_common_byte(data)),
                                  hash_edge("entropy", entropy_category(data))>>, OutcomeEdges)
      /\ Avoids(When(Len(data) >= 2, hash_edge("header_u16", Prefix(data, 2))), OutcomeEdges)
      /\ Avoids(When(Len(data) >= 4, hash_edge("header_u32", Prefix(data, 4))), OutcomeEdges)
      /\ Avoids(<< >>, OutcomeEdges)
  BY <1>3, <1>4, <1>5, AvoidsTuples DEF When
<1> QED BY <1>2, <1>6, AvoidsConcat DEF extract_input_edges

\* No edge of a response is one.
LEMMA ResponseAvoids ==
    ASSUME OutcomesTold, NEW data \in Seq(0..255), ResponseNames(data) \subseteq OtherNames
    PROVE  Avoids(extract_response_edges(data), OutcomeEdges)
<1>1. \A t, v : <<t, v>> \in ResponseNames(data) => hash_edge(t, v) \notin OutcomeEdges
  BY OtherEdges
<1>2. \A t \in {"response_first_byte", "response_header"}, n \in {1, 2} :
         Len(data) >= n => hash_edge(t, Prefix(data, n)) \notin OutcomeEdges
  <2> SUFFICES ASSUME NEW t \in {"response_first_byte", "response_header"}, NEW n \in {1, 2},
                      Len(data) >= n
               PROVE  <<t, Prefix(data, n)>> \in ResponseNames(data)
    BY <1>1
  <2>1. n \in {1, 2} \cap 1..Len(data)
    OBVIOUS
  <2> QED BY <2>1 DEF ResponseNames
<1>3. /\ hash_edge("response", "empty") \notin OutcomeEdges
      /\ hash_edge("response_size", categorize_size(Len(data))) \notin OutcomeEdges
      /\ hash_edge("response_protocol", response_protocol(data)) \notin OutcomeEdges
  BY <1>1 DEF ResponseNames
<1>4. data # << >> => Len(data) >= 1
  OBVIOUS
<1>5. /\ data # << >> => Avoids(<<hash_edge("response_size", categorize_size(Len(data))),
                                  hash_edge("response_first_byte", Prefix(data, 1))>>, OutcomeEdges)
      /\ Avoids(<<hash_edge("response", "empty")>>, OutcomeEdges)
      /\ Avoids(<<hash_edge("response_protocol", response_protocol(data))>>, OutcomeEdges)
      /\ Avoids(When(Len(data) >= 2, hash_edge("response_header", Prefix(data, 2))), OutcomeEdges)
  BY <1>2, <1>3, <1>4, AvoidsTuples DEF When
<1> QED BY <1>5, AvoidsConcat DEF extract_response_edges

\* The row of the table that decides is the first that the message mentions.
LEMMA FirstRowIs ==
    ASSUME NEW table, NEW error, NEW n \in Nat, DOMAIN table = 1..n
    PROVE  \/ /\ FirstRow(table, error) = 0
              /\ \A k \in 1..n : ~Mentions(error, table[k][1])
           \/ /\ FirstRow(table, error) \in 1..n
              /\ Mentions(error, table[FirstRow(table, error)][1])
              /\ \A k \in 1..n : k < FirstRow(table, error) => ~Mentions(error, table[k][1])
<1>1. PICK hits : hits = {k \in 1..n : Mentions(error, table[k][1])}
  OBVIOUS
<1>2. FirstRow(table, error) = IF hits = {} THEN 0 ELSE CHOOSE k \in hits : \A j \in hits : k <= j
  BY <1>1 DEF FirstRow
<1>3. CASE hits = {}
  BY <1>1, <1>2, <1>3
<1>4. CASE hits # {}
  <2>1. hits \in SUBSET Nat
    BY <1>1
  <2>2. \E k \in hits : \A j \in hits : k <= j
    BY <1>4, <2>1, Smallest
  <2>3. PICK row : row = FirstRow(table, error) /\ row \in hits /\ \A j \in hits : row <= j
    BY <1>2, <1>4, <2>2
  <2>4. \A k \in 1..n : k < row => k \notin hits
    BY <2>1, <2>3
  <2> QED BY <1>1, <2>3, <2>4
<1> QED BY <1>3, <1>4

\* Two chains of tests on the error message, one verdict where both have it: both ask for a
\* connection error first and for a timeout second (edge_coverage.rs:236-252,
\* feature_coverage.rs:438-452).
LEMMA OneVerdict ==
    ASSUME NEW error
    PROVE  /\ classify_error(error) \in Verdicts
           /\ categorize_error(error) \in {"connection", "timeout", "parse", "protocol", "unknown"}
           /\ classify_error(error) = "connection_error" <=> categorize_error(error) = "connection"
           /\ classify_error(error) = "timeout_error" <=> categorize_error(error) = "timeout"
<1>1. PICK i, j : i = FirstRow(EdgeErrorTable, error) /\ j = FirstRow(FeatureErrorTable, error)
  OBVIOUS
<1>2. /\ DOMAIN EdgeErrorTable = 1..5
      /\ EdgeErrorTable[1] = <<{"connection"}, "connection_error">>
      /\ EdgeErrorTable[2] = <<{"timeout"}, "timeout_error">>
      /\ EdgeErrorTable[3][2] = "parse_error" /\ EdgeErrorTable[4][2] = "network_error"
      /\ EdgeErrorTable[5][2] = "protocol_error"
  BY DEF EdgeErrorTable
<1>3. /\ DOMAIN FeatureErrorTable = 1..4
      /\ FeatureErrorTable[1] = <<{"connection"}, "connection">>
      /\ FeatureErrorTable[2] = <<{"timeout"}, "timeout">>
      /\ FeatureErrorTable[3][2] = "parse" /\ FeatureErrorTable[4][2] = "protocol"
  BY DEF FeatureErrorTable
<1>4. \/ i = 0 /\ \A k \in 1..5 : ~Mentions(error, EdgeErrorTable[k][1])
      \/ /\ i \in 1..5 /\ Mentions(error, EdgeErrorTable[i][1])
         /\ \A k \in 1..5 : k < i => ~Mentions(error, EdgeErrorTable[k][1])
  BY <1>1, <1>2, FirstRowIs
<1>5. \/ j = 0 /\ \A k \in 1..4 : ~Mentions(error, FeatureErrorTable[k][1])
      \/ /\ j \in 1..4 /\ Mentions(error, FeatureErrorTable[j][1])
         /\ \A k \in 1..4 : k < j => ~Mentions(error, FeatureErrorTable[k][1])
  BY <1>1, <1>3, FirstRowIs
<1>6. PICK p, q : /\ p = Mentions(error, {"connection"}) /\ q = Mentions(error, {"timeout"})
  OBVIOUS
<1>7. /\ i \in 0..5 /\ (i = 1 <=> p) /\ (i = 2 <=> ~p /\ q)
  BY <1>2, <1>4, <1>6
<1>8. /\ j \in 0..4 /\ (j = 1 <=> p) /\ (j = 2 <=> ~p /\ q)
  BY <1>3, <1>5, <1>6
<1>9. classify_error(error) = IF i # 0 THEN EdgeErrorTable[i][2] ELSE "unknown_error"
  BY <1>1 DEF classify_error
<1>10. categorize_error(error) = IF j # 0 THEN FeatureErrorTable[j][2] ELSE "unknown"
  BY <1>1 DEF categorize_error
<1> QED BY <1>2, <1>3, <1>7, <1>8, <1>9, <1>10 DEF Verdicts

\* The outcome is on the path once, the error once if there is one, and nothing else that
\* an execution leaves on its path is taken for them.
LEMMA PathCounts ==
    ASSUME OutcomesTold, NEW protocol \in DOMAIN Executions, NEW e \in Executions[protocol]
    PROVE  /\ Cardinality(Places(extract_edges(e[1], e[2]), hash_edge("execution", "success"))) =
                 Tick(e[2].success)
           /\ Cardinality(Places(extract_edges(e[1], e[2]), hash_edge("execution", "failure"))) =
                 Tick(~e[2].success)
           /\ \A value \in Verdicts :
                 Cardinality(Places(extract_edges(e[1], e[2]), hash_edge("error_type", value))) =
                    Tick(Fails(e[2]) /\ classify_error(e[2].error_message) = value)
<1>0. PICK data, result : data = e[1] /\ result = e[2]
  OBVIOUS
<1>1. /\ data \in Seq(0..255) /\ result.success \in BOOLEAN
      /\ \A r \in result.response_data : Response(r)
  BY <1>0, CoverageAssumption DEF Response
<1>names. InputNames(data) \subseteq OtherNames /\ TimingName(result) \in OtherNames
      /\ \A r \in result.response_data : ResponseNames(r) \subseteq OtherNames
  <2>1. OtherNamesOf(e) \subseteq OtherNames
    BY DEF OtherNames, AllExecutions
  <2>2. /\ InputNames(data) \subseteq OtherNamesOf(e)
        /\ \A r \in result.response_data : ResponseNames(r) \subseteq OtherNamesOf(e)
        /\ TimingName(result) \in OtherNamesOf(e)
    BY <1>0 DEF OtherNamesOf
  <2> QED BY <2>1, <2>2
<1>2. PICK a, s : /\ Avoids(a, OutcomeEdges) /\ Avoids(s, OutcomeEdges)
                  /\ extract_edges(data, result) = (a \o extract_execution_edges(result)) \o s
  <2>1. Avoids(extract_input_edges(data), OutcomeEdges)
    BY <1>1, <1>names, InputAvoids
  <2>2. CASE result.response_data = None
    BY <2>1, <2>2, AvoidsTuples DEF extract_edges
  <2>3. CASE result.response_data # None
    <3>1. TheResponse(result) \in result.response_data
      BY <2>3 DEF TheResponse, None
    <3>2. Avoids(extract_response_edges(TheResponse(result)), OutcomeEdges)
      BY <1>1, <1>names, <3>1, ResponseAvoids DEF Response
    <3> QED BY <2>1, <2>3, <3>2 DEF extract_edges
  <2> QED BY <2>2, <2>3
<1>3. PICK b, c, d, p :
         /\ b = hash_edge("execution", IF result.success THEN "success" ELSE "failure")
         /\ c = hash_edge("execution_time", categorize_timing(result.execution_time_ms))
         /\ d = hash_edge("error_type", classify_error(result.error_message))
         /\ p \in BOOLEAN /\ p = Fails(result)
         /\ extract_execution_edges(result) = <<b, c>> \o When(p, d)
  BY DEF extract_execution_edges, Fails
<1>4. PICK h : h = <<b, c>> /\ Sequence(h)
  BY Tuples
<1>5. ASSUME NEW x \in OutcomeEdges
      PROVE  Cardinality(Places(extract_edges(data, result), x)) = Tick(b = x) + Tick(p /\ d = x)
  <2>1. c # x
    <3>1. PICK n : n = TimingName(result) /\ n \in OtherNames
      BY <1>names
    <3>2. n[1] = "execution_time" /\ n[2] = categorize_timing(result.execution_time_ms)
      BY <3>1 DEF TimingName
    <3>3. hash_edge(n[1], n[2]) \notin OutcomeEdges
      BY <3>1, NamesApart DEF OutcomesTold, OutcomeEdges
    <3> QED BY <1>3, <3>2, <3>3
  <2>2. Cardinality(Places(h, x)) = Tick(b = x)
    BY <1>4, <2>1, PairPlaces
  <2>3. PICK q : q = a \o (h \o When(p, d))
    OBVIOUS
  <2>4. Sequence(q) /\ Cardinality(Places(q, x)) = Tick(b = x) + Tick(p /\ d = x)
    BY <1>2, <1>3, <1>4, <2>2, <2>3, Counting
  <2>5. Cardinality(Places(q \o s, x)) = Cardinality(Places(q, x))
    BY <1>2, <2>4, Trailing
  <2> QED BY <1>2, <1>3, <1>4, <2>3, <2>4, <2>5
<1>6. \A m, n \in OutcomeNames :
         /\ hash_edge(m[1], m[2]) \in OutcomeEdges
         /\ hash_edge(m[1], m[2]) = hash_edge(n[1], n[2]) => m[1] = n[1] /\ m[2] = n[2]
  BY DEF OutcomesTold, OutcomeEdges
<1>7. \A t, v, u, w : <<t, v>> \in OutcomeNames /\ <<u, w>> \in OutcomeNames =>
         /\ hash_edge(t, v) \in OutcomeEdges
         /\ hash_edge(t, v) = hash_edge(u, w) => t = u /\ v = w
  <2> SUFFICES ASSUME NEW t, NEW v, NEW u, NEW w,
                      <<t, v>> \in OutcomeNames, <<u, w>> \in OutcomeNames
               PROVE  /\ hash_edge(t, v) \in OutcomeEdges
                      /\ hash_edge(t, v) = hash_edge(u, w) => t = u /\ v = w
    OBVIOUS
  <2>1. PICK m, n : m = <<t, v>> /\ n = <<u, w>>
    OBVIOUS
  <2>2. m \in OutcomeNames /\ n \in OutcomeNames /\ m[1] = t /\ m[2] = v /\ n[1] = u /\ n[2] = w
    BY <2>1
  <2> QED BY <1>6, <2>2
<1>8. PICK o, k : /\ o = (IF result.success THEN "success" ELSE "failure")
                  /\ k = classify_error(result.error_message)
                  /\ k \in Verdicts
  BY OneVerdict
<1>9. /\ b = hash_edge("execution", o) /\ d = hash_edge("error_type", k)
      /\ <<"execution", o>> \in OutcomeNames /\ <<"error_type", k>> \in OutcomeNames
  BY <1>3, <1>8 DEF OutcomeNames
<1>10. \A v \in {"success", "failure"} :
         /\ hash_edge("execution", v) \in OutcomeEdges
         /\ d # hash_edge("execution", v)
         /\ b = hash_edge("execution", v) <=> o = v
  <2>1. \A v \in {"success", "failure"} : <<"execution", v>> \in OutcomeNames
    BY DEF OutcomeNames
  <2> QED BY <1>7, <1>9, <2>1
<1>11. \A v \in Verdicts :
         /\ hash_edge("error_type", v) \in OutcomeEdges
         /\ b # hash_edge("error_type", v)
         /\ d = hash_edge("error_type", v) <=> k = v
  <2>1. \A v \in Verdicts : <<"error_type", v>> \in OutcomeNames
    BY DEF OutcomeNames
  <2> QED BY <1>7, <1>9, <2>1
<1>12. ASSUME NEW v \in {"success", "failure"}
       PROVE  Cardinality(Places(extract_edges(data, result), hash_edge("execution", v))) =
                 Tick(o = v)
  BY <1>5, <1>10 DEF Tick
<1>13. ASSUME NEW v \in Verdicts
       PROVE  Cardinality(Places(extract_edges(data, result), hash_edge("error_type", v))) =
                 Tick(Fails(result) /\ k = v)
  BY <1>3, <1>5, <1>11 DEF Tick
<1>14. Tick(o = "success") = Tick(result.success) /\ Tick(o = "failure") = Tick(~result.success)
  BY <1>8 DEF Tick
<1> QED BY <1>0, <1>8, <1>12, <1>13, <1>14

\* FeatureCounts, feature by feature.
LEMMA FeatureCount ==
    ASSUME NEW protocol, NEW data \in Seq(0..255), parse_questions(data) \in Seq(Nat),
           NEW result, result.success \in BOOLEAN,
           NEW features, features = extract_all_features(protocol, data, result)
    PROVE  /\ Cardinality(Places(features, <<"execution_success">>)) = Tick(result.success)
           /\ Cardinality(Places(features, <<"execution_failure">>)) = Tick(~result.success)
           /\ \A f \in {"connection", "timeout", "parse", "protocol", "unknown"} :
                 Cardinality(Places(features, <<"error", f>>)) =
                    Tick(Fails(result) /\ categorize_error(result.error_message) = f)
<1>1. PICK b, d : b = OutcomeFeature(result) /\ d = ErrorFeature(result)
  OBVIOUS
<1>2. \A x \in OutcomeFeatures :
         Cardinality(Places(features, x)) = Tick(b = x) + Tick(Fails(result) /\ d = x)
  BY <1>1, FeatureCounts
<1>3. /\ b = <<IF result.success THEN "execution_success" ELSE "execution_failure">>
      /\ d = <<"error", categorize_error(result.error_message)>>
  BY <1>1 DEF OutcomeFeature, ErrorFeature
<1>4. /\ b = <<"execution_success">> <=> result.success
      /\ b = <<"execution_failure">> <=> ~result.success
      /\ d # <<"execution_success">> /\ d # <<"execution_failure">>
  BY <1>3
<1>5. \A f : b # <<"error", f>>
             /\ (d = <<"error", f>> <=> categorize_error(result.error_message) = f)
  BY <1>3
<1>6. /\ <<"execution_success">> \in OutcomeFeatures /\ <<"execution_failure">> \in OutcomeFeatures
      /\ \A f \in {"connection", "timeout", "parse", "protocol", "unknown"} :
            <<"error", f>> \in OutcomeFeatures
  BY DEF OutcomeFeatures, ErrorFeatures
<1>7. /\ Cardinality(Places(features, <<"execution_success">>)) = Tick(result.success)
      /\ Cardinality(Places(features, <<"execution_failure">>)) = Tick(~result.success)
  <2>1. /\ Tick(b = <<"execution_success">>) = Tick(result.success)
        /\ Tick(b = <<"execution_failure">>) = Tick(~result.success)
        /\ Tick(Fails(result) /\ d = <<"execution_success">>) = 0
        /\ Tick(Fails(result) /\ d = <<"execution_failure">>) = 0
        /\ Tick(result.success) \in Nat /\ Tick(~result.success) \in Nat
    BY <1>4 DEF Tick
  <2>2. Cardinality(Places(features, <<"execution_success">>)) =
           Tick(b = <<"execution_success">>) + Tick(Fails(result) /\ d = <<"execution_success">>)
    BY <1>2, <1>6, Zenon
  <2>3. Cardinality(Places(features, <<"execution_failure">>)) =
           Tick(b = <<"execution_failure">>) + Tick(Fails(result) /\ d = <<"execution_failure">>)
    BY <1>2, <1>6, Zenon
  <2> QED BY <2>1, <2>2, <2>3
<1>8. ASSUME NEW f \in {"connection", "timeout", "parse", "protocol", "unknown"}
      PROVE  Cardinality(Places(features, <<"error", f>>)) =
                Tick(Fails(result) /\ categorize_error(result.error_message) = f)
  <2>1. /\ Tick(b = <<"error", f>>) = 0
        /\ Tick(Fails(result) /\ d = <<"error", f>>) =
              Tick(Fails(result) /\ categorize_error(result.error_message) = f)
        /\ Tick(Fails(result) /\ categorize_error(result.error_message) = f) \in Nat
    BY <1>5 DEF Tick
  <2>2. Cardinality(Places(features, <<"error", f>>)) =
           Tick(b = <<"error", f>>) + Tick(Fails(result) /\ d = <<"error", f>>)
    BY <1>2, <1>6, Zenon
  <2> QED BY <2>1, <2>2
<1> QED BY <1>7, <1>8

\* The verdicts that one collector tells apart and the other does not add up.
LEMMA FinerVerdicts ==
    ASSUME NEW error, NEW p \in BOOLEAN
    PROVE  LET edge(v)    == Tick(p /\ classify_error(error) = v)
               feature(v) == Tick(p /\ categorize_error(error) = v)
           IN  /\ edge("connection_error") = feature("connection")
               /\ edge("timeout_error") = feature("timeout")
               /\ edge("parse_error") + edge("network_error") + edge("protocol_error")
                     + edge("unknown_error") =
                  feature("parse") + feature("protocol") + feature("unknown")
<1>1. PICK c, k : c = classify_error(error) /\ k = categorize_error(error)
  OBVIOUS
<1>2. /\ c \in Verdicts /\ k \in {"connection", "timeout", "parse", "protocol", "unknown"}
      /\ c = "connection_error" <=> k = "connection"
      /\ c = "timeout_error" <=> k = "timeout"
  BY <1>1, OneVerdict
<1>3. Tick(p /\ c = "connection_error") = Tick(p /\ k = "connection")
      /\ Tick(p /\ c = "timeout_error") = Tick(p /\ k = "timeout")
  BY <1>2 DEF Tick
<1>4. Tick(p /\ c = "parse_error") + Tick(p /\ c = "network_error")
        + Tick(p /\ c = "protocol_error") + Tick(p /\ c = "unknown_error") =
      Tick(p /\ k = "parse") + Tick(p /\ k = "protocol") + Tick(p /\ k = "unknown")
  BY <1>2 DEF Tick, Verdicts
<1> QED BY <1>1, <1>3, <1>4

\* An execution counts alike for both collectors.
LEMMA RecordKeepsConcur ==
    ASSUME OutcomesTold, CoverageInv, CollectorsConcur, ~panicked,
           NEW e \in Executions[protocol_type], RecordExecution(e[1], e[2])
    PROVE  CollectorsConcur'
<1>1. PICK path, features, map, fmap, map2, fmap2 :
         /\ path = extract_edges(e[1], e[2])
         /\ features = extract_all_features(protocol_type, e[1], e[2])
         /\ map = edge_collector.edge_map /\ map2 = map (+) ToBag(path)
         /\ fmap = feature_collector.feature_map /\ fmap2 = fmap (+) ToBag(features)
  OBVIOUS
<1>2. edge_collector'.edge_map = map2 /\ feature_collector'.feature_map = fmap2
  BY <1>1 DEF RecordExecution, edge_record, feature_record
<1>3. /\ protocol_type \in DOMAIN Executions
      /\ e[1] \in Seq(0..255) /\ parse_questions(e[1]) \in Seq(Nat) /\ e[2].success \in BOOLEAN
  BY CoverageAssumption DEF CoverageInv, CoverageTypeOK
<1>4. IsBag(map) /\ IsBag(fmap) /\ Sequence(path) /\ Sequence(features)
  BY <1>1, Recordable DEF CoverageInv, CoverageTypeOK, Kept
<1>5. /\ IsBag(ToBag(path)) /\ \A x : Copies(x, ToBag(path)) = Cardinality(Places(path, x))
      /\ IsBag(ToBag(features))
      /\ \A x : Copies(x, ToBag(features)) = Cardinality(Places(features, x))
  BY <1>4, BagOf
<1>6. /\ \A x : Copies(x, map2) = Copies(x, map) + Cardinality(Places(path, x))
      /\ \A x : Copies(x, fmap2) = Copies(x, fmap) + Cardinality(Places(features, x))
  <2>1. PICK b, f : b = ToBag(path) /\ f = ToBag(features)
    OBVIOUS
  <2>2. \A x : Copies(x, map (+) b) = Copies(x, map) + Copies(x, b)
    BY <1>4, <1>5, <2>1, BagSum
  <2>3. \A x : Copies(x, fmap (+) f) = Copies(x, fmap) + Copies(x, f)
    BY <1>4, <1>5, <2>1, BagSum
  <2> QED BY <1>1, <1>5, <2>1, <2>2, <2>3
<1>7. \A x : Copies(x, map) \in Nat /\ Copies(x, fmap) \in Nat
  BY <1>4 DEF Copies, IsBag
<1>8. \A q : Tick(q) \in Nat
  BY DEF Tick
<1> DEFINE edges(v)    == Copies(hash_edge("execution", v), map)
           errors(v)   == Copies(hash_edge("error_type", v), map)
           edges2(v)   == Copies(hash_edge("execution", v), map2)
           errors2(v)  == Copies(hash_edge("error_type", v), map2)
           E(v)        == Tick(Fails(e[2]) /\ classify_error(e[2].error_message) = v)
           F(v)        == Tick(Fails(e[2]) /\ categorize_error(e[2].error_message) = v)
<1>9. /\ edges2("success") = edges("success") + Tick(e[2].success)
      /\ edges2("failure") = edges("failure") + Tick(~e[2].success)
      /\ \A v \in Verdicts : errors2(v) = errors(v) + E(v)
  BY <1>1, <1>3, <1>6, PathCounts
<1>10. /\ Copies(<<"execution_success">>, fmap2) =
             Copies(<<"execution_success">>, fmap) + Tick(e[2].success)
       /\ Copies(<<"execution_failure">>, fmap2) =
             Copies(<<"execution_failure">>, fmap) + Tick(~e[2].success)
       /\ \A f \in {"connection", "timeout", "parse", "protocol", "unknown"} :
             Copies(<<"error", f>>, fmap2) = Copies(<<"error", f>>, fmap) + F(f)
  BY <1>1, <1>3, <1>6, FeatureCount
<1>11. /\ E("connection_error") = F("connection") /\ E("timeout_error") = F("timeout")
       /\ E("parse_error") + E("network_error") + E("protocol_error") + E("unknown_error") =
            F("parse") + F("protocol") + F("unknown")
  <2>1. Fails(e[2]) \in BOOLEAN
    BY DEF Fails
  <2> QED BY <2>1, FinerVerdicts
<1>12. /\ edges("success") = Copies(<<"execution_success">>, fmap)
       /\ edges("failure") = Copies(<<"execution_failure">>, fmap)
       /\ errors("connection_error") = Copies(<<"error", "connection">>, fmap)
       /\ errors("timeout_error") = Copies(<<"error", "timeout">>, fmap)
       /\ errors("parse_error") + errors("network_error")
             + errors("protocol_error") + errors("unknown_error") =
          Copies(<<"error", "parse">>, fmap) + Copies(<<"error", "protocol">>, fmap)
             + Copies(<<"error", "unknown">>, fmap)
  BY <1>1 DEF CollectorsConcur
<1>13. /\ edges2("success") = Copies(<<"execution_success">>, fmap2)
       /\ edges2("failure") = Copies(<<"execution_failure">>, fmap2)
       /\ errors2("connection_error") = Copies(<<"error", "connection">>, fmap2)
       /\ errors2("timeout_error") = Copies(<<"error", "timeout">>, fmap2)
  BY <1>9, <1>10, <1>11, <1>12 DEF Verdicts
<1>14. errors2("parse_error") + errors2("network_error")
             + errors2("protocol_error") + errors2("unknown_error") =
          Copies(<<"error", "parse">>, fmap2) + Copies(<<"error", "protocol">>, fmap2)
             + Copies(<<"error", "unknown">>, fmap2)
  <2>1. \A v : errors(v) \in Nat /\ E(v) \in Nat /\ F(v) \in Nat
    BY <1>7, <1>8
  <2>2. \A v \in Verdicts : errors2(v) = errors(v) + E(v)
    BY <1>9
  <2>3. \A f \in {"parse", "protocol", "unknown"} :
           Copies(<<"error", f>>, fmap2) = Copies(<<"error", f>>, fmap) + F(f)
    BY <1>10
  <2>4. \A f : Copies(<<"error", f>>, fmap) \in Nat
    BY <1>7
  <2>5. E("parse_error") + E("network_error") + E("protocol_error") + E("unknown_error") =
           F("parse") + F("protocol") + F("unknown")
    BY <1>11
  <2>6. errors("parse_error") + errors("network_error")
             + errors("protocol_error") + errors("unknown_error") =
          Copies(<<"error", "parse">>, fmap) + Copies(<<"error", "protocol">>, fmap)
             + Copies(<<"error", "unknown">>, fmap)
    BY <1>12
  <2> HIDE DEF errors, errors2, E, F
  <2>7. PICK p, n, q, u, pe, ne, qe, ue :
           /\ p = errors("parse_error") /\ n = errors("network_error")
           /\ q = errors("protocol_error") /\ u = errors("unknown_error")
           /\ pe = E("parse_error") /\ ne = E("network_error")
           /\ qe = E("protocol_error") /\ ue = E("unknown_error")
    OBVIOUS
  <2>8. PICK a, b, c, af, bf, cf :
           /\ a = Copies(<<"error", "parse">>, fmap) /\ b = Copies(<<"error", "protocol">>, fmap)
           /\ c = Copies(<<"error", "unknown">>, fmap)
           /\ af = F("parse") /\ bf = F("protocol") /\ cf = F("unknown")
    OBVIOUS
  <2>9. /\ p \in Nat /\ n \in Nat /\ q \in Nat /\ u \in Nat
        /\ pe \in Nat /\ ne \in Nat /\ qe \in Nat /\ ue \in Nat
    BY <2>1, <2>7
  <2>10. /\ a \in Nat /\ b \in Nat /\ c \in Nat /\ af \in Nat /\ bf \in Nat /\ cf \in Nat
    BY <2>1, <2>4, <2>8
  <2>11. p + n + q + u = a + b + c /\ pe + ne + qe + ue = af + bf + cf
    BY <2>5, <2>6, <2>7, <2>8
  <2>12. (p + pe) + (n + ne) + (q + qe) + (u + ue) = (a + af) + (b + bf) + (c + cf)
    BY <2>9, <2>10, <2>11
  <2>13. /\ errors2("parse_error") = p + pe /\ errors2("network_error") = n + ne
         /\ errors2("protocol_error") = q + qe /\ errors2("unknown_error") = u + ue
    BY <2>2, <2>7 DEF Verdicts
  <2>14. /\ Copies(<<"error", "parse">>, fmap2) = a + af
         /\ Copies(<<"error", "protocol">>, fmap2) = b + bf
         /\ Copies(<<"error", "unknown">>, fmap2) = c + cf
    BY <2>3, <2>8
  <2> QED BY <2>12, <2>13, <2>14
<1> QED BY <1>2, <1>13, <1>14 DEF CollectorsConcur

\* Every step keeps them in agreement, as far as nothing panics.
LEMMA CollectorsConcurStep ==
    ASSUME OutcomesTold, CoverageInv, CollectorsConcur, [Next]_vars PROVE CollectorsConcur'
<1>1. ASSUME NEW e \in Executions[protocol_type], RecordExecution(e[1], e[2])
      PROVE  CollectorsConcur'
  BY <1>1, RecordKeepsConcur DEF RecordExecution
<1>2. ASSUME NEW e \in Executions[protocol_type], RecordPanics(e[1], e[2])
      PROVE  CollectorsConcur'
  BY <1>2 DEF RecordPanics, CollectorsConcur
<1>3. CASE ResetAll
  <2>1. PICK none : none = EmptyBag /\ DOMAIN none = {}
    BY DEF EmptyBag, SetToBag
  <2>2. edge_collector'.edge_map = none /\ feature_collector'.feature_map = none
    BY <1>3, <2>1 DEF ResetAll, NewEdgeCollector, NewFeatureCollector
  <2>3. \A x : Copies(x, none) = 0
    BY <2>1 DEF Copies
  <2> QED BY <2>2, <2>3 DEF CollectorsConcur
<1>4. CASE UNCHANGED vars
  BY <1>4 DEF vars, CollectorsConcur
<1> QED BY <1>1, <1>2, <1>3, <1>4 DEF Next

\* If the hash tells the outcomes from what else the executions leave, both collectors
\* count the successes, the failures, the connection errors and the timeouts alike,
\* and the sums of the finer verdicts agree (edge_coverage.rs:200-252, feature_coverage.rs:400-452).
THEOREM CollectorsConcurAlways == ASSUME OutcomesTold PROVE Spec => []CollectorsConcur
<1>1. Init => CollectorsConcur
  <2> SUFFICES ASSUME Init PROVE CollectorsConcur
    OBVIOUS
  <2>1. PICK none : none = EmptyBag /\ DOMAIN none = {}
    BY DEF EmptyBag, SetToBag
  <2>2. edge_collector.edge_map = none /\ feature_collector.feature_map = none
    BY <2>1 DEF Init, NewEdgeCollector, NewFeatureCollector
  <2>3. \A x : Copies(x, none) = 0
    BY <2>1 DEF Copies
  <2> QED BY <2>2, <2>3 DEF CollectorsConcur
<1>2. CoverageInv /\ CollectorsConcur /\ [Next]_vars => CollectorsConcur'
  BY CollectorsConcurStep
<1> QED BY <1>1, <1>2, CoverageInvAlways, PTL DEF Spec

-----------------------------------------------------------------------------
(***************************************************************************)
(* The loop of has_repeated_bytes.  While it goes on, it has found nothing *)
(* of the widths before and nothing at the positions before (ScanInv); and *)
(* a repeated block of three or four bytes begins with a repeated pair, so *)
(* that the first width decides.                                           *)
(***************************************************************************)

Bytes == 0..255

\* The bytes of a block, one by one.
LEMMA BlockOf ==
    ASSUME NEW d \in Seq(Bytes), NEW k \in 1..Len(d), NEW w \in 2..4, k + w <= Len(d) + 1
    PROVE  /\ Len(Block(d, k, w)) = w
           /\ Block(d, k, w)[1] = d[k] /\ Block(d, k, w)[2] = d[k + 1]
           /\ w = 2 => Block(d, k, w) = <<d[k], d[k + 1]>>
<1>1. PICK n \in Nat : n = Len(d)
  OBVIOUS
<1>2. PICK m \in Nat : m = k + w - 1 /\ m <= n /\ m >= k + 1
  BY <1>1
<1>3. PICK b : b = Block(d, k, w) /\ b = SubSeq(d, k, m)
  BY <1>2 DEF Block
<1>4. /\ b \in Seq(Bytes) /\ Len(b) = w
      /\ \A j \in 1..w : b[j] = d[k + j - 1]
  <2>1. k \in Nat /\ k \in 1..(Len(d) + 1) /\ m \in (k - 1)..Len(d) /\ m - k + 1 = w
    BY <1>1, <1>2
  <2>2. SubSeq(d, k, m) \in Seq(Bytes)
    BY <2>1
  <2>3. Len(SubSeq(d, k, m)) = m - k + 1
    BY <2>1
  <2>4. \A j \in 1..(m - k + 1) : SubSeq(d, k, m)[j] = d[k + j - 1]
    BY <2>1
  <2> QED BY <1>3, <2>1, <2>2, <2>3, <2>4
<1>5. b[1] = d[k] /\ b[2] = d[k + 1]
  <2>1. 1 \in 1..w /\ 2 \in 1..w /\ k + 1 - 1 = k /\ k + 2 - 1 = k + 1
    OBVIOUS
  <2>2. b[1] = d[k + 1 - 1] /\ b[2] = d[k + 2 - 1]
    BY <1>4, <2>1, Zenon
  <2> QED BY <2>1, <2>2
<1>6. ASSUME w = 2 PROVE b = <<d[k], d[k + 1]>>
  BY <1>4, <1>5, <1>6
<1> QED BY <1>3, <1>4, <1>5, <1>6

\* A repeated block begins with a repeated pair.
LEMMA PairsDecide ==
    ASSUME NEW d \in Seq(Bytes), NEW w \in 2..4, Repeats(d, w)
    PROVE  Repeats(d, 2)
<1>1. PICK n \in Nat : n = Len(d) /\ DOMAIN d = 1..n
  OBVIOUS
<1>2. PICK k \in 1..n : RepeatsAt(d, k, w)
  BY <1>1 DEF Repeats
<1>3. PICK j \in (k + w)..(n - w + 1) : Block(d, j, w) = Block(d, k, w)
  BY <1>1, <1>2 DEF RepeatsAt
<1>4. j \in 1..n /\ j + w <= n + 1 /\ k + w <= n + 1 /\ j + 2 <= n + 1 /\ k + 2 <= n + 1
      /\ j \in (k + 2)..(n - 2 + 1) /\ 2 \in 2..4
  BY <1>2, <1>3
<1>5. d[j] = d[k] /\ d[j + 1] = d[k + 1]
  <2>1. Block(d, j, w)[1] = d[j] /\ Block(d, j, w)[2] = d[j + 1]
    BY <1>1, <1>4, BlockOf
  <2>2. Block(d, k, w)[1] = d[k] /\ Block(d, k, w)[2] = d[k + 1]
    BY <1>1, <1>4, BlockOf
  <2> QED BY <1>3, <2>1, <2>2
<1>6. Block(d, j, 2) = Block(d, k, 2)
  <2>1. Block(d, j, 2) = <<d[j], d[j + 1]>>
    BY <1>1, <1>4, BlockOf
  <2>2. Block(d, k, 2) = <<d[k], d[k + 1]>>
    BY <1>1, <1>4, BlockOf
  <2> QED BY <1>5, <2>1, <2>2
<1>7. RepeatsAt(d, k, 2)
  BY <1>1, <1>4, <1>6 DEF RepeatsAt
<1> QED BY <1>1, <1>7 DEF Repeats

\* No block is repeated whose second occurrence would not fit.
LEMMA NoneBeyond ==
    ASSUME NEW d \in Seq(Bytes), NEW w \in 2..4,
           \A k \in 1..(Len(d) - w * 2 + 1) : ~RepeatsAt(d, k, w)
    PROVE  ~Repeats(d, w)
<1>1. PICK n \in Nat : n = Len(d) /\ DOMAIN d = 1..n
  OBVIOUS
<1>2. SUFFICES ASSUME NEW k \in 1..n PROVE ~RepeatsAt(d, k, w)
  BY <1>1 DEF Repeats
<1>3. CASE k <= n - w * 2 + 1
  <2>1. k \in 1..(n - w * 2 + 1)
    BY <1>3
  <2> QED BY <1>1, <2>1
<1>4. CASE k > n - w * 2 + 1
  <2>1. (k + w)..(n - w + 1) = {}
    BY <1>4
  <2> QED BY <1>1, <2>1 DEF RepeatsAt
<1> QED BY <1>3, <1>4

\* The answer is right for all three widths.
Answered ==
    /\ answer = has_repeated_bytes(scanned)
    /\ answer = "yes" => \E w \in 2..4 : Repeats(scanned, w)
    /\ answer = "no"  => \A w \in 2..4 : ~Repeats(scanned, w)

\* Nothing was found so far.
Searching ==
    /\ Len(scanned) >= 4 /\ position \in Nat
    /\ window_size > 2 => ~Repeats(scanned, 2)
    /\ window_size > 3 => ~Repeats(scanned, 3)
    /\ Len(scanned) >= window_size * 2 => position <= Positions
    /\ \A k \in 1..position : ~RepeatsAt(scanned, k, window_size)

ScanInv == /\ scanned \in Seq(Bytes) /\ window_size \in 2..4
           /\ IF answer = "scanning" THEN Searching ELSE Answered

\* Every step of the search keeps what it has found.
LEMMA ScanStep == ASSUME ScanInv, [ScanNext]_scan_vars PROVE ScanInv'
<1>1. PICK n \in Nat : n = Len(scanned) /\ scanned \in Seq(Bytes) /\ window_size \in 2..4
  BY DEF ScanInv
<1>2. CASE Underflow
  <2>1. /\ answer = "scanning" /\ n < window_size * 2 /\ answer' = "panic"
        /\ scanned' = scanned /\ window_size' = window_size
    BY <1>1, <1>2 DEF Underflow
  <2>2. Searching
    BY <2>1 DEF ScanInv
  <2>3. window_size > 2 /\ n >= 4 /\ n < 8
    BY <1>1, <2>1, <2>2 DEF Searching
  <2>4. ~Repeats(scanned, 2)
    BY <2>2, <2>3 DEF Searching
  <2>5. has_repeated_bytes(scanned) = "panic"
    BY <1>1, <2>3, <2>4 DEF has_repeated_bytes
  <2> QED BY <1>1, <2>1, <2>5 DEF ScanInv, Answered
<1>3. CASE Compare
  <2>1. /\ answer = "scanning" /\ n >= window_size * 2 /\ position < Positions
        /\ position' = position + 1 /\ scanned' = scanned /\ window_size' = window_size
    BY <1>1, <1>3 DEF Compare
  <2>2. Searching
    BY <2>1 DEF ScanInv
  <2>3. position \in Nat /\ position < n - window_size * 2 + 1
    BY <1>1, <2>1, <2>2 DEF Searching, Positions
  <2>4. RepeatsAt(scanned, position + 1, window_size)
           <=> \E j \in (position + window_size)..(n - window_size) :
                  Block(scanned, j + 1, window_size) = Block(scanned, position + 1, window_size)
    <3>1. ASSUME RepeatsAt(scanned, position + 1, window_size)
          PROVE  \E j \in (position + window_size)..(n - window_size) :
                    Block(scanned, j + 1, window_size) = Block(scanned, position + 1, window_size)
      <4>1. PICK j \in (position + 1 + window_size)..(n - window_size + 1) :
                Block(scanned, j, window_size) = Block(scanned, position + 1, window_size)
        BY <1>1, <3>1 DEF RepeatsAt
      <4>2. PICK l \in (position + window_size)..(n - window_size) : j = l + 1
        <5>1. j - 1 \in (position + window_size)..(n - window_size) /\ j = (j - 1) + 1
          BY <1>1, <2>3
        <5> QED BY <5>1
      <4> QED BY <4>1, <4>2
    <3>2. ASSUME NEW j \in (position + window_size)..(n - window_size),
                 Block(scanned, j + 1, window_size) = Block(scanned, position + 1, window_size)
          PROVE  RepeatsAt(scanned, position + 1, window_size)
      <4>1. j + 1 \in (position + 1 + window_size)..(n - window_size + 1)
        BY <1>1, <2>3
      <4> QED BY <1>1, <3>2, <4>1 DEF RepeatsAt
    <3> QED BY <3>1, <3>2
  <2>5. CASE RepeatsAt(scanned, position + 1, window_size)
    <3>1. answer' = "yes"
      BY <1>1, <1>3, <2>4, <2>5 DEF Compare
    <3>2. Repeats(scanned, window_size)
      <4>1. position + 1 \in DOMAIN scanned
        BY <1>1, <2>3
      <4> QED BY <2>5, <4>1 DEF Repeats
    <3>3. Repeats(scanned, 2)
      BY <1>1, <3>2, PairsDecide
    <3>4. has_repeated_bytes(scanned) = "yes"
      BY <1>1, <2>2, <3>3 DEF has_repeated_bytes, Searching
    <3>5. \E w \in 2..4 : Repeats(scanned, w)
      BY <1>1, <3>2
    <3> QED BY <1>1, <2>1, <3>1, <3>4, <3>5 DEF ScanInv, Answered
  <2>6. CASE ~RepeatsAt(scanned, position + 1, window_size)
    <3>1. answer' = "scanning"
      BY <1>1, <1>3, <2>4, <2>6 DEF Compare
    <3>2. \A k \in 1..(position + 1) : ~RepeatsAt(scanned, k, window_size)
      <4> TAKE k \in 1..(position + 1)
      <4>1. k \in 1..position \/ k = position + 1
        BY <2>3
      <4> QED BY <2>2, <2>6, <4>1 DEF Searching
    <3>3. Searching'
      <4>1. position' \in Nat /\ position' <= n - window_size * 2 + 1
        BY <1>1, <2>1, <2>3
      <4>2. \A k \in 1..position' : ~RepeatsAt(scanned', k, window_size')
        BY <2>1, <3>2
      <4> QED BY <1>1, <2>1, <2>2, <4>1, <4>2 DEF Searching, Positions
    <3> QED BY <1>1, <2>1, <3>1, <3>3 DEF ScanInv
  <2> QED BY <2>5, <2>6
<1>4. CASE NextWindow
  <2>1. /\ answer = "scanning" /\ n >= window_size * 2 /\ position = Positions
        /\ scanned' = scanned
    BY <1>1, <1>4 DEF NextWindow
  <2>2. Searching
    BY <2>1 DEF ScanInv
  <2>3. ~Repeats(scanned, window_size)
    BY <1>1, <2>1, <2>2, NoneBeyond DEF Searching, Positions
  <2>4. CASE window_size < 4
    <3>1. window_size' = window_size + 1 /\ position' = 0 /\ answer' = "scanning"
      BY <1>4, <2>1, <2>4 DEF NextWindow
    <3>2. window_size \in {2, 3} /\ window_size' \in 2..4
      BY <1>1, <2>4, <3>1
    <3>3. window_size' > 2 => ~Repeats(scanned', 2)
      BY <2>1, <2>2, <2>3, <3>1, <3>2 DEF Searching
    <3>4. window_size' > 3 => ~Repeats(scanned', 3)
      BY <2>1, <2>3, <3>1, <3>2
    <3>5. Len(scanned') >= window_size' * 2 => 0 <= Len(scanned') - window_size' * 2 + 1
      BY <1>1, <2>1, <3>2
    <3>6. Len(scanned') >= 4 /\ position' \in Nat
      BY <2>1, <2>2, <3>1 DEF Searching
    <3>7. \A k \in 1..position' : ~RepeatsAt(scanned', k, window_size')
      BY <3>1
    <3>8. Searching'
      BY <3>1, <3>3, <3>4, <3>5, <3>6, <3>7 DEF Searching, Positions
    <3> QED BY <1>1, <2>1, <3>1, <3>2, <3>8 DEF ScanInv
  <2>5. CASE ~(window_size < 4)
    <3>1. answer' = "no" /\ window_size' = window_size /\ window_size = 4
      BY <1>1, <1>4, <2>5 DEF NextWindow
    <3>2. ~Repeats(scanned, 2) /\ ~Repeats(scanned, 3) /\ ~Repeats(scanned, 4)
      BY <2>2, <2>3, <3>1 DEF Searching
    <3>3. has_repeated_bytes(scanned) = "no"
      BY <1>1, <2>1, <3>1, <3>2 DEF has_repeated_bytes
    <3>4. \A w \in 2..4 : ~Repeats(scanned, w)
      <4> TAKE w \in 2..4
      <4>1. w = 2 \/ w = 3 \/ w = 4
        OBVIOUS
      <4> QED BY <3>2, <4>1
    <3> QED BY <1>1, <2>1, <3>1, <3>3, <3>4 DEF ScanInv, Answered
  <2> QED BY <2>4, <2>5
<1>5. CASE UNCHANGED scan_vars
  <2>1. scanned' = scanned /\ window_size' = window_size /\ position' = position /\ answer' = answer
    BY <1>5 DEF scan_vars
  <2> QED BY <2>1 DEF ScanInv, Searching, Answered, Positions
<1> QED BY <1>2, <1>3, <1>4, <1>5 DEF ScanNext

\* The loop answers what has_repeated_bytes is taken to answer, of any packets: the widths 3
\* and 4 never decide, and four to seven bytes without a repeated pair make it panic
\* (coverage/feature_coverage.rs:454-474).
THEOREM ScanAnswersAlways == ScanSpec => []ScanAnswers
<1>1. ScanInit => ScanInv
  <2> SUFFICES ASSUME ScanInit PROVE ScanInv
    OBVIOUS
  <2>1. /\ scanned \in Seq(Bytes) /\ window_size = 2 /\ position = 0
        /\ answer = IF Len(scanned) < 4 THEN "no" ELSE "scanning"
    BY DataAssumption DEF ScanInit, Bytes
  <2>2. PICK n \in Nat : n = Len(scanned) /\ DOMAIN scanned = 1..n
    BY <2>1
  <2>3. CASE n < 4
    <3>1. \A w \in 2..4 : ~Repeats(scanned, w)
      <4> TAKE w \in 2..4
      <4>1. 1..(n - w * 2 + 1) = {}
        BY <2>3
      <4> QED BY <2>1, <2>2, <4>1, NoneBeyond
    <3>2. has_repeated_bytes(scanned) = "no"
      BY <2>2, <2>3 DEF has_repeated_bytes
    <3> QED BY <2>1, <2>2, <2>3, <3>1, <3>2 DEF ScanInv, Answered
  <2>4. CASE ~(n < 4)
    BY <2>1, <2>2, <2>4 DEF ScanInv, Searching, Positions
  <2> QED BY <2>3, <2>4
<1>2. ScanInv /\ [ScanNext]_scan_vars => ScanInv'
  BY ScanStep
<1>3. ScanInv => ScanAnswers
  BY DEF ScanInv, Answered, ScanAnswers
<1> QED BY <1>1, <1>2, <1>3, PTL DEF ScanSpec
=============================================================================
