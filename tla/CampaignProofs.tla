---------------------------- MODULE CampaignProofs -----------------------------
(***************************************************************************)
(* Theorems about the crash detector, for every set of inputs, protocols   *)
(* and messages and every hash function, colliding or not.                 *)
(*                                                                         *)
(* Then invariants of the campaign that owns it, for any corpus capacity,  *)
(* seeds, outcomes of executions, numbers of iterations and of runs in one *)
(* directory, and any of the faults of Campaign: first those of the loop   *)
(* (CampaignInv), then the detector's, then those of the files (DiskInv),  *)
(* whose strengthening says how far through its plan of files a run that   *)
(* is saving has come.                                                     *)
(***************************************************************************)
EXTENDS Campaign, FiniteSetTheorems, SequenceTheorems, TLAPS

\* A chain of five tests that has a match has a first match.
LEMMA LeastOfFive ==
    ASSUME NEW S, S \subseteq 1..5, S # {}
    PROVE  \E k \in S : \A j \in S : k <= j
<1>1. CASE 1 \in S
  BY <1>1
<1>2. CASE 1 \notin S /\ 2 \in S
  BY <1>2
<1>3. CASE 1 \notin S /\ 2 \notin S /\ 3 \in S
  BY <1>3
<1>4. CASE 1 \notin S /\ 2 \notin S /\ 3 \notin S /\ 4 \in S
  BY <1>4
<1>5. CASE 1 \notin S /\ 2 \notin S /\ 3 \notin S /\ 4 \notin S
  <2>1. \A j \in S : j \in 1..5
    OBVIOUS
  <2>2. \A j \in S : j = 5
    <3>1. TAKE j \in S
    <3>2. j \in 1..5 /\ j # 1 /\ j # 2 /\ j # 3 /\ j # 4
      BY <1>5, <2>1
    <3>3. QED BY <3>2
  <2>3. PICK k \in S : k = 5
    BY <2>2
  <2>4. \A j \in S : k <= j
    BY <2>2, <2>3
  <2>5. QED BY <2>4
<1>6. QED BY <1>1, <1>2, <1>3, <1>4, <1>5

\* The tables give every message a type and every type a severity: none of the
\* match arms of crash_detector.rs:191-263 is missing.
LEMMA ClassifyType ==
    ASSUME NEW error, NEW slow
    PROVE  classify_crash(error, slow) \in CrashTypes
<1> DEFINE hits == {k \in DOMAIN TypeTable : Mentions(error, TypeTable[k][1])}
<1>1. DOMAIN TypeTable = 1..5
  BY DEF TypeTable
<1>2. \A k \in 1..5 : TypeTable[k][2] \in CrashTypes
  <2>1. /\ TypeTable[1][2] = "ConnectionRefused"
        /\ TypeTable[2][2] = "ConnectionTimeout"
        /\ TypeTable[3][2] = "NetworkError"
        /\ TypeTable[4][2] = "ProtocolViolation"
        /\ TypeTable[5][2] = "MalformedResponse"
    BY DEF TypeTable
  <2>2. TAKE k \in 1..5
  <2>3. k = 1 \/ k = 2 \/ k = 3 \/ k = 4 \/ k = 5
    OBVIOUS
  <2>4. QED BY <2>1, <2>3 DEF CrashTypes
<1>3. ASSUME hits # {} PROVE \E k \in hits : \A j \in hits : k <= j
  BY <1>1, <1>3, LeastOfFive
<1>4. FirstRow(TypeTable, error) = 0 \/ FirstRow(TypeTable, error) \in 1..5
  <2>1. CASE hits = {}
    BY <2>1 DEF FirstRow
  <2>2. CASE hits # {}
    <3>1. FirstRow(TypeTable, error) = CHOOSE k \in hits : \A j \in hits : k <= j
      BY <2>2 DEF FirstRow
    <3>2. hits \subseteq 1..5
      BY <1>1
    <3> HIDE DEF hits
    <3>3. QED BY <2>2, <1>3, <3>1, <3>2
  <2>3. QED BY <2>1, <2>2
<1>5. {"Unknown", "ExecutionTimeout", "ServerCrash"} \subseteq CrashTypes
  BY DEF CrashTypes
<1>6. QED BY <1>2, <1>4, <1>5 DEF classify_crash

\* Every crash type is given a severity, whatever the message and the size of the input
\* (crash_detector.rs:215-263).
LEMMA SeverityType ==
    ASSUME NEW type \in CrashTypes, NEW error, NEW size
    PROVE  determine_severity(type, error, size) \in Severities
BY DEF determine_severity, CrashTypes, Severities

\* The crash built from a report is a well-typed record (crash_detector.rs:84-107).
LEMMA NewCrashType ==
    ASSUME NEW data \in Inputs, NEW error \in ErrorMessages,
           NEW slow \in BOOLEAN, NEW protocol \in Protocols
    PROVE  /\ new_crash(data, error, slow, protocol) \in CrashInfo
           /\ new_crash(data, error, slow, protocol).input_hash = calculate_hash(data)
           /\ new_crash(data, error, slow, protocol).input_data = data
           /\ new_crash(data, error, slow, protocol).error_message = error
<1>1. classify_crash(error, slow) \in CrashTypes
  BY ClassifyType
<1>2. determine_severity(classify_crash(error, slow), error, InputSize[data]) \in Severities
  BY <1>1, SeverityType
<1>3. calculate_hash(data) \in Hashes
  BY HashAssumption DEF calculate_hash
<1>4. QED BY <1>1, <1>2, <1>3 DEF new_crash, CrashInfo

(***************************************************************************)
(* What keeping a crash does to the list, the index and the counters.      *)
(* Cardinality(crash_hashes) = Len(crashes) is the strengthening that      *)
(* makes unique_crashes, read from the hash set, a position of the list.   *)
(***************************************************************************)
DetectorInv(d) ==
    /\ d \in Detectors
    /\ IndexAgrees(d)
    /\ IsFiniteSet(d.crash_hashes)
    /\ Cardinality(d.crash_hashes) = Len(d.crashes)
    /\ d.last_crash_count <= Len(d.crashes)

\* What kept_crash changes in a detector, field by field (crash_detector.rs:108-120).
LEMMA KeptFields ==
    ASSUME NEW d \in Detectors, NEW crash \in CrashInfo
    PROVE  /\ kept_crash(d, crash).crashes = Append(d.crashes, crash)
           /\ kept_crash(d, crash).crash_hashes = d.crash_hashes \cup {crash.input_hash}
           /\ kept_crash(d, crash).last_crash_count = d.last_crash_count
           /\ DOMAIN kept_crash(d, crash).crashes = DOMAIN d.crashes \cup {Len(d.crashes) + 1}
           /\ Len(d.crashes) + 1 \notin DOMAIN d.crashes
           /\ \A k \in DOMAIN d.crashes : kept_crash(d, crash).crashes[k] = d.crashes[k]
           /\ kept_crash(d, crash).crashes[Len(d.crashes) + 1] = crash
<1>1. /\ kept_crash(d, crash).crashes = Append(d.crashes, crash)
      /\ kept_crash(d, crash).crash_hashes = d.crash_hashes \cup {crash.input_hash}
      /\ kept_crash(d, crash).last_crash_count = d.last_crash_count
  BY DEF kept_crash, Detectors
<1>2. d.crashes \in Seq(CrashInfo)
  BY DEF Detectors
<1>3. DOMAIN d.crashes = 1..Len(d.crashes) /\ Len(d.crashes) \in Nat
  BY <1>2
<1>4. /\ Len(Append(d.crashes, crash)) = Len(d.crashes) + 1
      /\ DOMAIN Append(d.crashes, crash) = 1..(Len(d.crashes) + 1)
      /\ \A k \in 1..Len(d.crashes) : Append(d.crashes, crash)[k] = d.crashes[k]
      /\ Append(d.crashes, crash)[Len(d.crashes) + 1] = crash
  BY <1>2, AppendProperties
<1>5. 1..(Len(d.crashes) + 1) = 1..Len(d.crashes) \cup {Len(d.crashes) + 1}
  BY <1>3
<1>6. QED BY <1>1, <1>3, <1>4, <1>5

\* Keeping a crash whose hash is not yet known preserves the invariant of the detector
\* (crash_detector.rs:84-123).
LEMMA KeepingPreserves ==
    ASSUME NEW d, DetectorInv(d), NEW crash \in CrashInfo,
           crash.input_hash = calculate_hash(crash.input_data),
           crash.input_hash \notin d.crash_hashes
    PROVE  DetectorInv(kept_crash(d, crash))
<1> DEFINE e == kept_crash(d, crash)
           hashes == d.crash_hashes \cup {crash.input_hash}
<1>1. d \in Detectors /\ IndexAgrees(d)
  BY DEF DetectorInv
<1>2. /\ e.crashes = Append(d.crashes, crash)
      /\ e.crash_hashes = hashes
      /\ DOMAIN e.crashes = DOMAIN d.crashes \cup {Len(d.crashes) + 1}
      /\ \A k \in DOMAIN d.crashes : e.crashes[k] = d.crashes[k]
      /\ e.crashes[Len(d.crashes) + 1] = crash
  <2> HIDE DEF e
  <2>1. QED BY <1>1, KeptFields DEF e
<1>3. IsFiniteSet(hashes) /\ Cardinality(hashes) = Len(d.crashes) + 1
  BY FS_AddElement DEF DetectorInv
<1>4. e \in Detectors
  <2>1. d.crashes \in Seq(CrashInfo) /\ Len(d.crashes) \in Nat
    BY <1>1 DEF Detectors
  <2>2. /\ crash.protocol \in Protocols /\ crash.crash_type \in CrashTypes
        /\ crash.severity \in Severities /\ crash.input_hash \in Hashes
    BY DEF CrashInfo
  <2>3. d.protocol_stats[crash.protocol] \in Stats
    BY <1>1, <2>2 DEF Detectors
  <2>4. updated_stats(d.protocol_stats[crash.protocol], crash, hashes) \in Stats
    <3> DEFINE stats == d.protocol_stats[crash.protocol]
    <3>1. /\ stats.total_crashes + 1 \in Nat
          /\ Cardinality(hashes) \in Nat
      BY <1>3, <2>1, <2>3 DEF Stats
    <3>2. [stats.crash_types EXCEPT ![crash.crash_type] = @ + 1] \in [CrashTypes -> Nat]
      BY <2>2, <2>3 DEF Stats
    <3>3. [stats.severity_counts EXCEPT ![crash.severity] = @ + 1] \in [Severities -> Nat]
      BY <2>2, <2>3 DEF Stats
    <3>4. QED BY <3>1, <3>2, <3>3 DEF updated_stats, Stats
  <2>5. [d.protocol_stats EXCEPT ![crash.protocol] = updated_stats(@, crash, hashes)]
          \in [Protocols -> Stats]
    BY <1>1, <2>2, <2>4 DEF Detectors
  <2>6. Append(d.crashes, crash) \in Seq(CrashInfo)
    BY <2>1
  <2>7. /\ hashes \in SUBSET Hashes
        /\ d.last_crash_count \in Nat
    BY <1>1, <2>2 DEF Detectors
  <2>8. QED BY <2>5, <2>6, <2>7 DEF Detectors, kept_crash
<1>5. IndexAgrees(e)
  <2> HIDE DEF e
  <2>1. d.crash_hashes = {d.crashes[k].input_hash : k \in DOMAIN d.crashes}
    BY <1>1 DEF IndexAgrees
  <2>2. e.crash_hashes = {e.crashes[k].input_hash : k \in DOMAIN e.crashes}
    BY <1>2, <2>1
  <2>3. \A k \in DOMAIN e.crashes :
           e.crashes[k].input_hash = calculate_hash(e.crashes[k].input_data)
    BY <1>1, <1>2 DEF IndexAgrees
  <2>4. \A k \in DOMAIN d.crashes : d.crashes[k].input_hash # crash.input_hash
    BY <2>1
  <2>5. \A j, k \in DOMAIN e.crashes :
           e.crashes[j].input_hash = e.crashes[k].input_hash => j = k
    BY <1>1, <1>2, <2>4 DEF IndexAgrees
  <2>6. QED BY <2>2, <2>3, <2>5 DEF IndexAgrees
<1>6. Len(e.crashes) = Len(d.crashes) + 1 /\ e.last_crash_count <= Len(e.crashes)
  <2>1. d.crashes \in Seq(CrashInfo) /\ Len(d.crashes) \in Nat /\ d.last_crash_count \in Nat
    BY <1>1 DEF Detectors
  <2>2. Len(e.crashes) = Len(d.crashes) + 1
    <3> HIDE DEF e
    <3>1. QED BY <1>2, <2>1, AppendProperties
  <2>3. e.last_crash_count = d.last_crash_count /\ d.last_crash_count <= Len(d.crashes)
    BY DEF kept_crash, DetectorInv
  <2>4. QED BY <2>1, <2>2, <2>3
<1>7. QED BY <1>2, <1>3, <1>4, <1>5, <1>6 DEF DetectorInv

\* record_crash preserves the invariant of the detector, also when it drops the report
\* (crash_detector.rs:70-123).
LEMMA RecordPreserves ==
    ASSUME NEW d, DetectorInv(d), NEW data \in Inputs, NEW error \in ErrorMessages,
           NEW slow \in BOOLEAN, NEW protocol \in Protocols
    PROVE  DetectorInv(record_crash(d, data, error, slow, protocol))
<1> DEFINE crash == new_crash(data, error, slow, protocol)
<1>1. crash \in CrashInfo /\ crash.input_hash = calculate_hash(data) /\ crash.input_data = data
  BY NewCrashType
<1>2. CASE calculate_hash(data) \in d.crash_hashes
  BY <1>2 DEF record_crash
<1>3. CASE calculate_hash(data) \notin d.crash_hashes
  <2>1. record_crash(d, data, error, slow, protocol) = kept_crash(d, crash)
    BY <1>3 DEF record_crash
  <2> HIDE DEF crash
  <2>2. QED BY <1>1, <1>3, <2>1, KeepingPreserves
<1>4. QED BY <1>2, <1>3

\* crash_count moves only the count last read, to the present length of the list
\* (crash_detector.rs:129-132).
LEMMA CountingPreserves ==
    ASSUME NEW d, DetectorInv(d)
    PROVE  /\ DetectorInv(crash_count(d))
           /\ crash_count(d).crashes = d.crashes
           /\ crash_count(d).crash_hashes = d.crash_hashes
           /\ crash_count(d).protocol_stats = d.protocol_stats
           /\ crash_count(d).last_crash_count = Len(d.crashes)
<1>1. d \in Detectors /\ Len(d.crashes) \in Nat
  BY DEF DetectorInv, Detectors
<1>2. /\ crash_count(d).crashes = d.crashes
      /\ crash_count(d).crash_hashes = d.crash_hashes
      /\ crash_count(d).protocol_stats = d.protocol_stats
      /\ crash_count(d).last_crash_count = Len(d.crashes)
      /\ crash_count(d) \in Detectors
  BY <1>1 DEF crash_count, Detectors
<1>3. IndexAgrees(crash_count(d))
  BY <1>2 DEF DetectorInv, IndexAgrees
<1>4. QED BY <1>1, <1>2, <1>3 DEF DetectorInv

\* A new detector satisfies the invariant (crash_detector.rs:61-68).
LEMMA NewDetectorInv == DetectorInv(NewDetector)
<1>1. NoStats \in Stats
  BY DEF NoStats, Stats
<1>2. NewDetector \in Detectors
  BY <1>1 DEF NewDetector, Detectors
<1>3. /\ NewDetector.crashes = << >> /\ NewDetector.crash_hashes = {}
      /\ NewDetector.last_crash_count = 0
      /\ DOMAIN NewDetector.crashes = {} /\ Len(NewDetector.crashes) = 0
  BY DEF NewDetector
<1>4. IsFiniteSet({}) /\ Cardinality({}) = 0
  BY FS_EmptySet
<1>5. IndexAgrees(NewDetector)
  BY <1>3 DEF IndexAgrees
<1>6. QED BY <1>2, <1>3, <1>4, <1>5 DEF DetectorInv

(***************************************************************************)
(* The counters.                                                           *)
(***************************************************************************)
\* Keeping a crash moves the counters of its protocol as a recount of the longer list would
\* (crash_detector.rs:111-120).
LEMMA KeepingCounts ==
    ASSUME NEW d, DetectorInv(d), CountersAgree(d), NEW crash \in CrashInfo,
           crash.input_hash \notin d.crash_hashes
    PROVE  CountersAgree(kept_crash(d, crash))
<1> DEFINE e == kept_crash(d, crash)
           n == Len(d.crashes) + 1
           q == crash.protocol
<1>1. /\ d \in Detectors /\ d.crashes \in Seq(CrashInfo) /\ Len(d.crashes) \in Nat
      /\ DOMAIN d.crashes = 1..Len(d.crashes) /\ d.protocol_stats \in [Protocols -> Stats]
  BY DEF DetectorInv, Detectors
<1>2. /\ DOMAIN e.crashes = DOMAIN d.crashes \cup {n}
      /\ n \notin DOMAIN d.crashes
      /\ \A k \in DOMAIN d.crashes : e.crashes[k] = d.crashes[k]
      /\ e.crashes[n] = crash
  <2> HIDE DEF e
  <2>1. QED BY <1>1, KeptFields DEF e
<1>3. /\ q \in Protocols /\ crash.crash_type \in CrashTypes /\ crash.severity \in Severities
  BY DEF CrashInfo
<1>4. Cardinality(d.crash_hashes \cup {crash.input_hash}) = n
  BY FS_AddElement DEF DetectorInv
<1>5. /\ \A p \in Protocols : p # q => e.protocol_stats[p] = d.protocol_stats[p]
      /\ e.protocol_stats[q].total_crashes = d.protocol_stats[q].total_crashes + 1
      /\ e.protocol_stats[q].unique_crashes = n
      /\ e.protocol_stats[q].crash_types =
            [d.protocol_stats[q].crash_types EXCEPT ![crash.crash_type] = @ + 1]
      /\ e.protocol_stats[q].severity_counts =
            [d.protocol_stats[q].severity_counts EXCEPT ![crash.severity] = @ + 1]
  BY <1>1, <1>3, <1>4 DEF kept_crash, updated_stats
<1>6. \A p : /\ CrashesOf(d, p) \subseteq DOMAIN d.crashes
             /\ IsFiniteSet(CrashesOf(d, p))
  <2>1. IsFiniteSet(DOMAIN d.crashes)
    BY <1>1, FS_Interval
  <2>2. \A p : CrashesOf(d, p) \subseteq DOMAIN d.crashes
    BY DEF CrashesOf
  <2>3. QED BY <2>1, <2>2, FS_Subset
<1>7. /\ \A p : p # q => CrashesOf(e, p) = CrashesOf(d, p)
      /\ CrashesOf(e, q) = CrashesOf(d, q) \cup {n}
  <2> HIDE DEF e
  <2>1. QED BY <1>2 DEF CrashesOf
<1>8. /\ \A p, t : p # q \/ t # crash.crash_type => CrashesTyped(e, p, t) = CrashesTyped(d, p, t)
      /\ CrashesTyped(e, q, crash.crash_type) = CrashesTyped(d, q, crash.crash_type) \cup {n}
  <2> HIDE DEF e
  <2>1. QED BY <1>2, <1>6, <1>7 DEF CrashesTyped
<1>9. /\ \A p, s : p # q \/ s # crash.severity => CrashesGraded(e, p, s) = CrashesGraded(d, p, s)
      /\ CrashesGraded(e, q, crash.severity) = CrashesGraded(d, q, crash.severity) \cup {n}
  <2> HIDE DEF e
  <2>1. QED BY <1>2, <1>6, <1>7 DEF CrashesGraded
<1>10. ASSUME NEW S, S \subseteq CrashesOf(d, q)
       PROVE  Cardinality(S \cup {n}) = Cardinality(S) + 1
  <2>1. IsFiniteSet(S) /\ n \notin S
    BY <1>2, <1>6, <1>10, FS_Subset
  <2>2. QED BY <2>1, FS_AddElement
<1>11. /\ CrashesTyped(d, q, crash.crash_type) \subseteq CrashesOf(d, q)
       /\ CrashesGraded(d, q, crash.severity) \subseteq CrashesOf(d, q)
  BY DEF CrashesTyped, CrashesGraded
<1>12. ASSUME NEW p \in Protocols
       PROVE  /\ e.protocol_stats[p].total_crashes = Cardinality(CrashesOf(e, p))
              /\ \A t \in CrashTypes :
                    e.protocol_stats[p].crash_types[t] = Cardinality(CrashesTyped(e, p, t))
              /\ \A s \in Severities :
                    e.protocol_stats[p].severity_counts[s] = Cardinality(CrashesGraded(e, p, s))
              /\ IF CrashesOf(e, p) = {} THEN e.protocol_stats[p].unique_crashes = 0
                 ELSE /\ e.protocol_stats[p].unique_crashes \in CrashesOf(e, p)
                      /\ \A k \in CrashesOf(e, p) : k <= e.protocol_stats[p].unique_crashes
  <2> HIDE DEF e
  <2>0. /\ d.protocol_stats[p].total_crashes = Cardinality(CrashesOf(d, p))
        /\ \A t \in CrashTypes :
              d.protocol_stats[p].crash_types[t] = Cardinality(CrashesTyped(d, p, t))
        /\ \A s \in Severities :
              d.protocol_stats[p].severity_counts[s] = Cardinality(CrashesGraded(d, p, s))
        /\ IF CrashesOf(d, p) = {} THEN d.protocol_stats[p].unique_crashes = 0
           ELSE /\ d.protocol_stats[p].unique_crashes \in CrashesOf(d, p)
                /\ \A k \in CrashesOf(d, p) : k <= d.protocol_stats[p].unique_crashes
    BY DEF CountersAgree
  <2>1. CASE p # q
    <3>1. /\ e.protocol_stats[p] = d.protocol_stats[p]
          /\ CrashesOf(e, p) = CrashesOf(d, p)
          /\ \A t : CrashesTyped(e, p, t) = CrashesTyped(d, p, t)
          /\ \A s : CrashesGraded(e, p, s) = CrashesGraded(d, p, s)
      BY <1>5, <1>7, <1>8, <1>9, <2>1
    <3>2. QED BY <2>0, <3>1
  <2>2. CASE p = q
    <3>1. e.protocol_stats[p].total_crashes = Cardinality(CrashesOf(e, p))
      BY <1>5, <1>7, <1>10, <2>0, <2>2
    <3>2. d.protocol_stats[p].crash_types \in [CrashTypes -> Nat]
          /\ d.protocol_stats[p].severity_counts \in [Severities -> Nat]
      BY <1>1 DEF Stats
    <3>3. ASSUME NEW t \in CrashTypes
          PROVE  e.protocol_stats[p].crash_types[t] = Cardinality(CrashesTyped(e, p, t))
      <4>1. CASE t = crash.crash_type
        <5>1. e.protocol_stats[p].crash_types[t] = d.protocol_stats[p].crash_types[t] + 1
          BY <1>5, <2>2, <3>2, <4>1
        <5>2. Cardinality(CrashesTyped(e, p, t)) = Cardinality(CrashesTyped(d, p, t)) + 1
          BY <1>8, <1>10, <1>11, <2>2, <4>1
        <5>3. QED BY <2>0, <5>1, <5>2
      <4>2. CASE t # crash.crash_type
        BY <1>5, <1>8, <2>0, <2>2, <3>2, <4>2
      <4>3. QED BY <4>1, <4>2
    <3>4. ASSUME NEW s \in Severities
          PROVE  e.protocol_stats[p].severity_counts[s] = Cardinality(CrashesGraded(e, p, s))
      <4>1. CASE s = crash.severity
        <5>1. e.protocol_stats[p].severity_counts[s] = d.protocol_stats[p].severity_counts[s] + 1
          BY <1>5, <2>2, <3>2, <4>1
        <5>2. Cardinality(CrashesGraded(e, p, s)) = Cardinality(CrashesGraded(d, p, s)) + 1
          BY <1>9, <1>10, <1>11, <2>2, <4>1
        <5>3. QED BY <2>0, <5>1, <5>2
      <4>2. CASE s # crash.severity
        BY <1>5, <1>9, <2>0, <2>2, <3>2, <4>2
      <4>3. QED BY <4>1, <4>2
    <3>5. /\ CrashesOf(e, p) # {}
          /\ e.protocol_stats[p].unique_crashes \in CrashesOf(e, p)
      BY <1>5, <1>7, <2>2
    <3>6. \A k \in CrashesOf(e, p) : k <= e.protocol_stats[p].unique_crashes
      BY <1>1, <1>5, <1>6, <1>7, <2>2
    <3>7. QED BY <3>1, <3>3, <3>4, <3>5, <3>6
  <2>3. QED BY <2>1, <2>2
<1>13. QED BY <1>12 DEF CountersAgree

\* The counters of a new detector are those of its empty list (crash_detector.rs:61-68).
LEMMA NewDetectorCounts == CountersAgree(NewDetector)
<1>1. \A p : /\ CrashesOf(NewDetector, p) = {}
             /\ \A t : CrashesTyped(NewDetector, p, t) = {}
             /\ \A s : CrashesGraded(NewDetector, p, s) = {}
  BY DEF NewDetector, CrashesOf, CrashesTyped, CrashesGraded
<1>2. Cardinality({}) = 0
  BY FS_EmptySet
<1>3. \A p \in Protocols : NewDetector.protocol_stats[p] = NoStats
  BY DEF NewDetector
<1>4. /\ NoStats.total_crashes = 0 /\ NoStats.unique_crashes = 0
      /\ \A t \in CrashTypes : NoStats.crash_types[t] = 0
      /\ \A s \in Severities : NoStats.severity_counts[s] = 0
  BY DEF NoStats
<1>5. QED BY <1>1, <1>2, <1>3, <1>4 DEF CountersAgree

(***************************************************************************)
(* The inductive invariant and the theorems that follow from it.           *)
(***************************************************************************)
Accounted(d, reports) ==
    /\ d.crash_hashes = {calculate_hash(r[1]) : r \in reports}
    /\ \A k \in DOMAIN d.crashes :
          <<d.crashes[k].input_data, d.crashes[k].error_message>> \in reports

Sound(d, reports) == /\ DetectorInv(d)
                     /\ CountersAgree(d)
                     /\ Accounted(d, reports)
                     /\ reports \subseteq Inputs \X ErrorMessages
IInv == Sound(detector, reported)

\* A report preserves the inductive invariant (crash_detector.rs:70-123).
LEMMA RecordingSound ==
    ASSUME NEW d, NEW reports, Sound(d, reports),
           NEW data \in Inputs, NEW error \in ErrorMessages, NEW slow \in BOOLEAN,
           NEW protocol \in Protocols,
           NEW e, e = record_crash(d, data, error, slow, protocol),
           NEW more, more = reports \cup {<<data, error>>}
    PROVE  Sound(e, more)
<1> DEFINE crash == new_crash(data, error, slow, protocol)
<1>1. /\ crash \in CrashInfo /\ crash.input_hash = calculate_hash(data)
      /\ crash.input_data = data /\ crash.error_message = error
  BY NewCrashType
<1>2. DetectorInv(e)
  BY RecordPreserves DEF Sound
<1>3. more = reports \cup {<<data, error>>} /\ more \subseteq Inputs \X ErrorMessages
  BY DEF Sound
<1>4. CASE calculate_hash(data) \in d.crash_hashes
  <2>1. e = d
    BY <1>4 DEF record_crash
  <2>2. Accounted(d, more)
    BY <1>3, <1>4 DEF Sound, Accounted
  <2>3. QED BY <1>2, <1>3, <2>1, <2>2 DEF Sound
<1>5. CASE calculate_hash(data) \notin d.crash_hashes
  <2> HIDE DEF crash
  <2>1. e = kept_crash(d, crash)
    BY <1>5 DEF record_crash, crash
  <2>2. CountersAgree(e)
    BY <1>1, <1>5, <2>1, KeepingCounts DEF Sound
  <2>3. /\ e.crash_hashes = d.crash_hashes \cup {calculate_hash(data)}
        /\ DOMAIN e.crashes = DOMAIN d.crashes \cup {Len(d.crashes) + 1}
        /\ \A k \in DOMAIN d.crashes : e.crashes[k] = d.crashes[k]
        /\ e.crashes[Len(d.crashes) + 1] = crash
    <3>1. d \in Detectors
      BY DEF Sound, DetectorInv
    <3>2. QED BY <1>1, <2>1, <3>1, KeptFields
  <2>4. Accounted(e, more)
    <3>1. e.crash_hashes = {calculate_hash(r[1]) : r \in more}
      <4>1. d.crash_hashes = {calculate_hash(r[1]) : r \in reports}
        BY DEF Sound, Accounted
      <4>2. calculate_hash(<<data, error>>[1]) = calculate_hash(data)
        OBVIOUS
      <4>3. {calculate_hash(r[1]) : r \in more}
              = {calculate_hash(r[1]) : r \in reports} \cup {calculate_hash(data)}
        BY <1>3, <4>2
      <4>4. QED BY <2>3, <4>1, <4>3
    <3>2. \A k \in DOMAIN e.crashes :
             <<e.crashes[k].input_data, e.crashes[k].error_message>> \in more
      BY <1>1, <1>3, <2>3 DEF Sound, Accounted
    <3>3. QED BY <3>1, <3>2 DEF Accounted
  <2>5. QED BY <1>2, <1>3, <2>2, <2>4 DEF Sound
<1>6. QED BY <1>4, <1>5

\* Reading the count preserves the inductive invariant (crash_detector.rs:129-132).
LEMMA CountingSound ==
    ASSUME NEW d, NEW reports, Sound(d, reports), NEW e, e = crash_count(d)
    PROVE  Sound(e, reports)
<1>1. /\ DetectorInv(e) /\ e.crashes = d.crashes
      /\ e.crash_hashes = d.crash_hashes
      /\ e.protocol_stats = d.protocol_stats
  BY CountingPreserves DEF Sound
<1>2. CountersAgree(e)
  <2>1. \A p : CrashesOf(e, p) = CrashesOf(d, p)
    BY <1>1 DEF CrashesOf
  <2>2. \A p : /\ \A t : CrashesTyped(e, p, t) = CrashesTyped(d, p, t)
               /\ \A s : CrashesGraded(e, p, s) = CrashesGraded(d, p, s)
    BY <1>1, <2>1 DEF CrashesTyped, CrashesGraded
  <2>3. QED BY <1>1, <2>1, <2>2 DEF Sound, CountersAgree
<1>3. QED BY <1>1, <1>2 DEF Sound, Accounted

\* A new detector, with nothing reported to it, is sound (crash_detector.rs:61-68).
LEMMA NewDetectorSound == Sound(NewDetector, {})
<1>1. NewDetector.crash_hashes = {} /\ DOMAIN NewDetector.crashes = {}
  BY DEF NewDetector
<1>2. Accounted(NewDetector, {})
  BY <1>1 DEF Accounted
<1>3. QED BY <1>2, NewDetectorInv, NewDetectorCounts DEF Sound

\* The inductive invariant holds in every reachable state: it is what the theorems below
\* read their properties off.
LEMMA InductiveInvariant == DetectorSpec => []IInv
<1>1. DetectorInit => IInv
  BY NewDetectorSound DEF DetectorInit, IInv
<1>2. IInv /\ [DetectorNext]_detectorVars => IInv'
  <2> SUFFICES ASSUME IInv, [DetectorNext]_detectorVars PROVE IInv'
    OBVIOUS
  <2>1. ASSUME NEW data \in Inputs, NEW error \in ErrorMessages, NEW slow \in BOOLEAN,
               NEW protocol \in Protocols, RecordCrash(data, error, slow, protocol)
        PROVE  IInv'
    BY <2>1, RecordingSound DEF IInv, RecordCrash
  <2>2. CASE CrashCount
    BY <2>2, CountingSound DEF IInv, CrashCount
  <2>3. CASE UNCHANGED detectorVars
    BY <2>3 DEF detectorVars, IInv
  <2>4. QED BY <2>1, <2>2, <2>3 DEF DetectorNext
<1>3. QED BY <1>1, <1>2, PTL DEF DetectorSpec

\* The detector keeps its type: the list only ever holds classified crashes, and
\* the count last read never exceeds the list (crash_detector.rs:125-132).
THEOREM DetectorTypeCorrect == DetectorSpec => []DetectorTypeOK
<1>1. IInv => DetectorTypeOK
  BY DEF IInv, Sound, DetectorInv, DetectorTypeOK
<1>2. QED BY <1>1, InductiveInvariant, PTL

\* The hash set and the crash list stay in step: no crash without its hash, no
\* hash without its crash, no duplicate (crash_detector.rs:81 and :109-110).
THEOREM IndexAgreesAlways == DetectorSpec => []HashIndexAgrees
<1>1. IInv => HashIndexAgrees
  BY DEF IInv, Sound, DetectorInv, HashIndexAgrees
<1>2. QED BY <1>1, InductiveInvariant, PTL

\* Every report ever made is on file under its hash, and nothing else is
\* (crash_detector.rs:70-110).
THEOREM AccountedAlways == DetectorSpec => []EveryReportAccounted
<1>1. IInv => EveryReportAccounted
  BY DEF IInv, Sound, Accounted, EveryReportAccounted
<1>2. QED BY <1>1, InductiveInvariant, PTL

\* The counters kept step by step are those a recount of the list would give,
\* for each protocol, type and severity (crash_detector.rs:113-117).
THEOREM StatsAgreeAlways == DetectorSpec => []StatsAgree
<1>1. IInv => StatsAgree
  BY DEF IInv, Sound, StatsAgree
<1>2. QED BY <1>1, InductiveInvariant, PTL

(***************************************************************************)
(* The detector implements the abstract crash log.                         *)
(***************************************************************************)
\* The abstraction of a detector to its log is well defined: a hash on file has exactly one
\* entry in the list (crash_detector.rs:81 and :109).
LEMMA FirstReportIs ==
    ASSUME NEW d, IndexAgrees(d), NEW k \in DOMAIN d.crashes
    PROVE  /\ d.crashes[k].input_hash \in d.crash_hashes
           /\ FirstReport(d)[d.crashes[k].input_hash] = d.crashes[k]
<1> DEFINE h == d.crashes[k].input_hash
           j == CHOOSE i \in DOMAIN d.crashes : d.crashes[i].input_hash = h
<1>1. h \in d.crash_hashes
  BY DEF IndexAgrees
<1>2. j \in DOMAIN d.crashes /\ d.crashes[j].input_hash = h
  OBVIOUS
<1>3. j = k
  BY <1>2 DEF IndexAgrees
<1>4. QED BY <1>1, <1>3 DEF FirstReport

\* Keeping a crash is, in the log, the filing of a first report (crash_detector.rs:109-110).
LEMMA KeepingFiles ==
    ASSUME NEW d, DetectorInv(d), NEW crash \in CrashInfo,
           crash.input_hash = calculate_hash(crash.input_data),
           crash.input_hash \notin d.crash_hashes
    PROVE  FirstReport(kept_crash(d, crash)) =
             [h \in d.crash_hashes \cup {crash.input_hash} |->
                IF h = crash.input_hash THEN crash ELSE FirstReport(d)[h]]
<1> DEFINE e == kept_crash(d, crash)
           n == Len(d.crashes) + 1
<1> HIDE DEF e
<1>1. d \in Detectors /\ IndexAgrees(d) /\ IndexAgrees(e)
  BY KeepingPreserves DEF DetectorInv, e
<1>2. /\ e.crash_hashes = d.crash_hashes \cup {crash.input_hash}
      /\ DOMAIN e.crashes = DOMAIN d.crashes \cup {n}
      /\ \A k \in DOMAIN d.crashes : e.crashes[k] = d.crashes[k]
      /\ e.crashes[n] = crash
  BY <1>1, KeptFields DEF e
<1>3. FirstReport(e)[crash.input_hash] = crash
  <2>1. n \in DOMAIN e.crashes
    BY <1>2
  <2>2. QED BY <1>1, <1>2, <2>1, FirstReportIs
<1>4. ASSUME NEW h \in d.crash_hashes PROVE FirstReport(e)[h] = FirstReport(d)[h]
  <2>1. PICK k \in DOMAIN d.crashes : d.crashes[k].input_hash = h
    BY <1>1 DEF IndexAgrees
  <2>2. FirstReport(d)[h] = d.crashes[k]
    BY <1>1, <2>1, FirstReportIs
  <2>3. k \in DOMAIN e.crashes /\ e.crashes[k].input_hash = h /\ e.crashes[k] = d.crashes[k]
    BY <1>2, <2>1
  <2>4. FirstReport(e)[h] = e.crashes[k]
    BY <1>1, <2>3, FirstReportIs
  <2>5. QED BY <2>2, <2>3, <2>4
<1>5. FirstReport(e) = [h \in e.crash_hashes |-> FirstReport(e)[h]]
  BY DEF FirstReport
<1>6. QED BY <1>2, <1>3, <1>4, <1>5 DEF e

\* What is proved of the refinement: the first report of every input hash stays
\* on file, as it was classified when it was made, whatever is reported later
\* (crash_detector.rs:81-83 and :109).
THEOREM DetectorImplementsLog == DetectorSpec => ImplementsLog
<1>1. DetectorInit => Log!LogInit
  <2>1. NewDetector.crash_hashes = {}
    BY DEF NewDetector
  <2>2. FirstReport(NewDetector) = [h \in {} |-> {}]
    BY <2>1 DEF FirstReport
  <2>3. QED BY <2>2 DEF DetectorInit, Log!LogInit
<1>2. IInv /\ [DetectorNext]_detectorVars => [Log!LogNext]_(FirstReport(detector))
  <2> SUFFICES ASSUME IInv, [DetectorNext]_detectorVars
               PROVE  Log!LogNext \/ UNCHANGED FirstReport(detector)
    OBVIOUS
  <2>1. ASSUME NEW data \in Inputs, NEW error \in ErrorMessages, NEW slow \in BOOLEAN,
               NEW protocol \in Protocols, RecordCrash(data, error, slow, protocol)
        PROVE  Log!LogNext \/ UNCHANGED FirstReport(detector)
    <3> DEFINE crash == new_crash(data, error, slow, protocol)
    <3>1. /\ crash \in CrashInfo /\ crash.input_hash = calculate_hash(data)
          /\ crash.input_data = data
      BY NewCrashType
    <3>2. CASE calculate_hash(data) \in detector.crash_hashes
      BY <2>1, <3>2 DEF RecordCrash, record_crash
    <3>3. CASE calculate_hash(data) \notin detector.crash_hashes
      <4>1. detector' = kept_crash(detector, crash)
        BY <2>1, <3>3 DEF RecordCrash, record_crash
      <4>2. crash \in PossibleCrashes
        BY DEF PossibleCrashes
      <4> HIDE DEF crash
      <4>3. FirstReport(detector') =
              [h \in detector.crash_hashes \cup {crash.input_hash} |->
                 IF h = crash.input_hash THEN crash ELSE FirstReport(detector)[h]]
        BY <3>1, <3>3, <4>1, KeepingFiles DEF IInv, Sound
      <4>4. DOMAIN FirstReport(detector) = detector.crash_hashes
        BY DEF FirstReport
      <4>5. Log!File(crash)
        BY <3>1, <3>3, <4>3, <4>4 DEF Log!File, HashOfCrash
      <4>6. QED BY <4>2, <4>5 DEF Log!LogNext
    <3>4. QED BY <3>2, <3>3
  <2>2. CASE CrashCount
    <3>1. /\ detector'.crashes = detector.crashes
          /\ detector'.crash_hashes = detector.crash_hashes
      BY <2>2, CountingPreserves DEF IInv, Sound, CrashCount
    <3>2. QED BY <3>1 DEF FirstReport
  <2>3. CASE UNCHANGED detectorVars
    BY <2>3 DEF detectorVars
  <2>4. QED BY <2>1, <2>2, <2>3 DEF DetectorNext
<1>3. QED BY <1>1, <1>2, InductiveInvariant, PTL DEF DetectorSpec, ImplementsLog, Log!LogSpec

-----------------------------------------------------------------------------
(***************************************************************************)
(* The campaign.                                                           *)
(***************************************************************************)

\* A case is only at hand while it is executed, or when its execution was cut short.
CaseAtHand == pc \in {"testing", "seeding", "fuzzing", "saving"} => mutated_case = None

\* The seeds and every case kept since.
data_of(cases) == [k \in DOMAIN cases |-> cases[k].data]
all_cases == Seeds[protocol_type] \o data_of(kept)

NothingKept == pc \in {"testing", "seeding"} => kept = << >>

CampaignInv == /\ TypeOK /\ DetectorInv(detector) /\ CaseAtHand /\ NothingKept
               /\ CountsAgree /\ CrashesKept /\ CorpusIsLatest

-----------------------------------------------------------------------------
(* What is read of a result *)

\* Every failure is interesting.
LEMMA FailuresAreInteresting ==
    ASSUME NEW p \in Protocols, NEW r \in Outcomes[p], ~r.success
    PROVE  is_interesting(r) /\ r.error_message \in ErrorMessages
<1>1. r.error_message \in ErrorMessages \ {None} /\ UdpTimeout \notin r.error_message
  BY CampaignAssumption
<1>2. r.error_message # Some(UdpTimeout)
  BY <1>1 DEF Some
<1> QED BY <1>1, <1>2 DEF is_interesting

fresh_crash(case, e, p) == new_crash(case, e, FALSE, p)
detected(case, e, p)    == crash_count(record_crash(detector, case, e, FALSE, p))

\* record_crash and crash_count together: the list grows by the report or stays as it is.
LEMMA Detected ==
    ASSUME DetectorInv(detector), NEW case \in Inputs, NEW e \in ErrorMessages,
           NEW p \in Protocols, NEW d, d = detected(case, e, p)
    PROVE  /\ DetectorInv(d) /\ d \in Detectors
           /\ d.last_crash_count = Len(d.crashes) /\ Len(d.crashes) \in Nat
           /\ \/ d.crashes = detector.crashes
              \/ /\ d.crashes = Append(detector.crashes, fresh_crash(case, e, p))
                 /\ fresh_crash(case, e, p).input_data = case
                 /\ fresh_crash(case, e, p).error_message = e
<1> USE DEF fresh_crash, detected
<1> DEFINE r == record_crash(detector, case, e, FALSE, p)
           crash == new_crash(case, e, FALSE, p)
<1>1. DetectorInv(r)
  BY RecordPreserves
<1>2. DetectorInv(d) /\ d.crashes = r.crashes /\ d.last_crash_count = Len(r.crashes)
  <2> HIDE DEF r
  <2> QED BY <1>1, CountingPreserves DEF r
<1>3. crash \in CrashInfo /\ crash.input_data = case /\ crash.error_message = e
  BY NewCrashType
<1>4. r.crashes = detector.crashes \/ r.crashes = Append(detector.crashes, crash)
  <2>1. detector \in Detectors
    BY DEF DetectorInv
  <2>2. r = detector \/ r = kept_crash(detector, crash)
    BY DEF record_crash
  <2> HIDE DEF r, crash
  <2> QED BY <1>3, <2>1, <2>2, KeptFields
<1>5. d \in Detectors /\ Len(d.crashes) \in Nat
  BY <1>2 DEF DetectorInv, Detectors
<1> QED BY <1>2, <1>3, <1>4, <1>5

\* The crashes on the list after an execution are kept cases, if those before it were.
LEMMA DetectAndGrow ==
    ASSUME CampaignInv, NEW case \in Inputs, NEW r \in Outcomes[protocol_type],
           Detect(case, r), Grow(case, r)
    PROVE  /\ DetectorInv(detector)' /\ DetectorTypeOK'
           /\ crashes_found' = Len(detector.crashes)' /\ crashes_found' \in Nat
           /\ ~has_new_crashes(detector)'
           /\ CrashesKept'
<1>1. /\ protocol_type \in Protocols /\ r.success \in BOOLEAN
      /\ kept \in Seq([data: Inputs, result: Outcomes[protocol_type]])
      /\ reported \subseteq Inputs \X ErrorMessages /\ detector \in Detectors
      /\ DetectorInv(detector) /\ CrashesKept
      /\ crashes_found = Len(detector.crashes) /\ crashes_found \in Nat
      /\ ~has_new_crashes(detector)
      /\ detector.last_crash_count <= Len(detector.crashes)
  BY CampaignAssumption DEF CampaignInv, TypeOK, DetectorTypeOK, CountsAgree
<1> DEFINE new == [data |-> case, result |-> r]
<1>2. \/ kept' = kept /\ r.success
      \/ kept' = Append(kept, new)
  BY <1>1, FailuresAreInteresting DEF Grow
<1>3. \A k \in DOMAIN kept : k \in DOMAIN kept' /\ kept'[k] = kept[k]
  <2>1. new \in [data: Inputs, result: Outcomes[protocol_type]]
    OBVIOUS
  <2> HIDE DEF new
  <2>2. CASE kept' = Append(kept, new)
    BY <1>1, <2>1, <2>2, AppendProperties
  <2> QED BY <1>2, <2>2
<1>4. ASSUME detector' = detector, crashes_found' = crashes_found, reported' = reported
      PROVE  /\ DetectorInv(detector)' /\ DetectorTypeOK'
             /\ crashes_found' = Len(detector.crashes)' /\ crashes_found' \in Nat
             /\ ~has_new_crashes(detector)'
  BY <1>1, <1>4 DEF DetectorTypeOK
<1>5. ASSUME detector'.crashes = detector.crashes PROVE CrashesKept'
  BY <1>1, <1>3, <1>5 DEF CrashesKept
<1>6. CASE r.success
  BY <1>4, <1>5, <1>6 DEF Detect, detectorVars
<1>7. CASE ~r.success
  <2> DEFINE crash == fresh_crash(case, r.error_message, protocol_type)
  <2>1. /\ detector' = detected(case, r.error_message, protocol_type)
        /\ reported' = reported \cup {<<case, r.error_message>>}
        /\ crashes_found' = Len(detector'.crashes)
    BY <1>7 DEF Detect, detected
  <2>2. r.error_message \in ErrorMessages
    BY <1>1, <1>7, FailuresAreInteresting
  <2>3. /\ DetectorInv(detector') /\ detector' \in Detectors
        /\ detector'.last_crash_count = Len(detector'.crashes) /\ Len(detector'.crashes) \in Nat
        /\ \/ detector'.crashes = detector.crashes
           \/ /\ detector'.crashes = Append(detector.crashes, crash)
              /\ crash.input_data = case /\ crash.error_message = r.error_message
    BY <1>1, <2>1, <2>2, Detected
  <2> HIDE DEF crash
  <2>4. DetectorTypeOK'
    <3>1. detector'.last_crash_count <= Len(detector'.crashes)
      BY <2>3
    <3>2. reported' \subseteq Inputs \X ErrorMessages
      BY <1>1, <2>1, <2>2
    <3> QED BY <2>3, <3>1, <3>2 DEF DetectorTypeOK
  <2>5. ~has_new_crashes(detector)'
    BY <2>3 DEF has_new_crashes
  <2>6. CrashesKept'
    <3>1. CASE detector'.crashes = detector.crashes
      BY <1>5, <3>1
    <3>2. CASE /\ detector'.crashes = Append(detector.crashes, crash)
               /\ crash.input_data = case /\ crash.error_message = r.error_message
      <4>1. kept' = Append(kept, new) /\ Len(kept) + 1 \in DOMAIN kept'
               /\ kept'[Len(kept) + 1] = new
        BY <1>1, <1>2, <1>7
      <4>2. new.data = crash.input_data /\ new.result.error_message = crash.error_message
        BY <3>2
      <4>3. detector.crashes \in Seq(CrashInfo)
        BY <1>1 DEF Detectors
      <4>4. \A c \in DOMAIN detector'.crashes :
               \/ c \in DOMAIN detector.crashes /\ detector'.crashes[c] = detector.crashes[c]
               \/ detector'.crashes[c] = crash
        BY <3>2, <4>3
      <4> HIDE DEF new
      <4> QED BY <1>1, <1>3, <4>1, <4>2, <4>4 DEF CrashesKept
    <3> QED BY <2>3, <3>1, <3>2
  <2> QED BY <2>1, <2>3, <2>4, <2>5, <2>6
<1> QED BY <1>1, <1>6, <1>7

-----------------------------------------------------------------------------
(* The corpus *)

Latest(cases) ==
    LET size == IF Len(cases) <= CorpusCap THEN Len(cases) ELSE CorpusCap
    IN  SubSeq(cases, Len(cases) - size + 1, Len(cases))

\* A sequence within the bound is its own latest part, ...
LEMMA LatestIsAll ==
    ASSUME NEW S, NEW s \in Seq(S), Len(s) <= CorpusCap
    PROVE  Latest(s) = s
<1>1. Len(s) \in Nat /\ Len(s) - Len(s) + 1 = 1
  OBVIOUS
<1>2. Latest(s) = SubSeq(s, 1, Len(s))
  BY <1>1 DEF Latest
<1> QED BY <1>2, SubSeqFull

\* ... and of a longer one it is the last CorpusCap members.
LEMMA LatestIsEnd ==
    ASSUME CorpusCap \in Nat, NEW S, NEW s \in Seq(S), Len(s) >= CorpusCap,
           NEW l, l = Len(s), NEW k, k = Len(s) - CorpusCap + 1
    PROVE  Latest(s) = SubSeq(s, k, l)
<1>1. CASE Len(s) = CorpusCap
  BY <1>1 DEF Latest
<1>2. CASE Len(s) > CorpusCap
  <2>1. ~(Len(s) <= CorpusCap)
    BY <1>2
  <2> QED BY <2>1 DEF Latest
<1> QED BY <1>1, <1>2

\* Pushing to the latest members of a sequence gives the latest members of the longer one.
LEMMA PushedIsLatest ==
    ASSUME CorpusCap \in Nat \ {0}, NEW S, NEW cases \in Seq(S), NEW case \in S
    PROVE  pushed(Latest(cases), case) = Latest(Append(cases, case))
<1> DEFINE n == Len(cases)
           b == Append(cases, case)
<1>1. n \in Nat /\ b \in Seq(S) /\ Len(b) = n + 1 /\ b[n + 1] = case
         /\ b = cases \o <<case>> /\ <<case>> \in Seq(S)
  BY AppendProperties, AppendIsConcat
<1> HIDE DEF b
<1>2. CASE n < CorpusCap
  <2>1. Latest(cases) = cases
    BY <1>2, LatestIsAll
  <2>2. Latest(b) = b
    <3>1. Len(b) <= CorpusCap
      BY <1>1, <1>2
    <3> QED BY <1>1, <3>1, LatestIsAll
  <2>3. pushed(cases, case) = b
    <3>1. ~(Len(b) > CorpusCap)
      BY <1>1, <1>2
    <3> QED BY <3>1 DEF pushed, b
  <2> QED BY <2>1, <2>2, <2>3 DEF b
<1>3. CASE n >= CorpusCap
  <2> DEFINE m == n - CorpusCap + 1
  <2>1. m \in 1..n /\ n \in m..n /\ m \in 1..(n + 1) /\ n + 1 \in m..(n + 1) /\ n \in 1..n
    BY <1>1, <1>3
  <2>2. Latest(b) = SubSeq(b, m + 1, n + 1)
    <3>1. Len(b) >= CorpusCap /\ m + 1 = Len(b) - CorpusCap + 1 /\ n + 1 = Len(b)
      BY <1>1, <1>3
    <3> HIDE DEF m, n
    <3> QED BY <1>1, <3>1, LatestIsEnd
  <2>3. Latest(cases) = SubSeq(cases, m, n)
    BY <1>3, LatestIsEnd
  <2> HIDE DEF m
  <2>4. Append(SubSeq(cases, m, n), case) = SubSeq(b, m, n + 1)
    <3>1. SubSeq(b, m, n + 1) = SubSeq(b, m, n + 1 - 1) \o <<b[n + 1]>>
      BY <1>1, <2>1, SubSeqRecursiveSecond
    <3>2. n + 1 - 1 = n
      BY <1>1
    <3>3. SubSeq(b, m, n) = SubSeq(cases, m, n)
      BY <1>1, <2>1, SubSeqOfConcat1
    <3>4. SubSeq(cases, m, n) \in Seq(S)
      <4>1. \A i \in m..n : cases[i] \in S
        BY <1>1, <2>1
      <4> QED BY <1>1, <2>1, <4>1, SubSeqProperties
    <3>5. Append(SubSeq(cases, m, n), case) = SubSeq(cases, m, n) \o <<case>>
      BY <3>4, AppendIsConcat
    <3> QED BY <1>1, <3>1, <3>2, <3>3, <3>5
  <2>5. Len(SubSeq(b, m, n + 1)) = CorpusCap + 1
    <3>1. \A i \in m..(n + 1) : b[i] \in S
      BY <1>1, <2>1
    <3>2. Len(SubSeq(b, m, n + 1)) = n + 1 - m + 1
      BY <1>1, <2>1, <3>1, SubSeqProperties
    <3>3. n + 1 - m + 1 = CorpusCap + 1
      BY <1>1 DEF m
    <3> QED BY <3>2, <3>3
  <2>6. Tail(SubSeq(b, m, n + 1)) = SubSeq(b, m + 1, n + 1)
    BY <1>1, <2>1, HeadTailOfSubSeq
  <2>7. Len(SubSeq(b, m, n + 1)) > CorpusCap
    <3>1. CorpusCap + 1 > CorpusCap
      OBVIOUS
    <3> QED BY <2>5, <3>1, Zenon
  <2>8. pushed(SubSeq(cases, m, n), case) = Tail(SubSeq(b, m, n + 1))
    BY <2>4, <2>7 DEF pushed
  <2> QED BY <2>2, <2>3, <2>6, <2>8 DEF b
<1> QED BY <1>1, <1>2, <1>3

\* Taking the data of cases keeps their number, ...
LEMMA Mapped ==
    ASSUME NEW S, NEW R, NEW s \in Seq([data: S, result: R])
    PROVE  /\ data_of(s) \in Seq(S)
           /\ Len(data_of(s)) = Len(s)
<1>1. DOMAIN s = 1..Len(s) /\ Len(s) \in Nat
  OBVIOUS
<1>2. \A k \in DOMAIN s : s[k] \in [data: S, result: R]
  BY <1>1, ElementOfSeq
<1>3. \A k \in DOMAIN s : s[k].data \in S
  BY <1>2
<1> DEFINE t == data_of(s)
<1>4. t \in [1..Len(s) -> S]
  BY <1>1, <1>3 DEF data_of
<1>5. DOMAIN t = 1..Len(s)
  BY <1>4
<1> HIDE DEF t
<1>6. t \in Seq(S)
  BY <1>1, <1>4
<1>7. Len(t) = Len(s)
  BY <1>1, <1>5, <1>6
<1> QED BY <1>6, <1>7 DEF t

\* ... and commutes with appending one.
LEMMA MappedAppend ==
    ASSUME NEW S, NEW R, NEW s \in Seq([data: S, result: R]), NEW e \in [data: S, result: R]
    PROVE  data_of(Append(s, e)) = Append(data_of(s), e.data)
<1> DEFINE b == Append(s, e)
<1>1. /\ b \in Seq([data: S, result: R]) /\ Len(b) = Len(s) + 1 /\ Len(s) \in Nat
      /\ \A k \in 1..Len(s) : b[k] = s[k]
      /\ b[Len(s) + 1] = e /\ DOMAIN b = 1..(Len(s) + 1) /\ DOMAIN s = 1..Len(s)
  BY AppendProperties
<1> HIDE DEF b
<1>2. data_of(s) \in Seq(S) /\ Len(data_of(s)) = Len(s)
  BY Mapped
<1>3. data_of(b) \in Seq(S) /\ Len(data_of(b)) = Len(s) + 1
  BY <1>1, Mapped
<1>4. e.data \in S
  OBVIOUS
<1>5. \A k \in 1..Len(s) : data_of(s)[k] = s[k].data
  BY <1>1 DEF data_of
<1>6. \A k \in 1..(Len(s) + 1) : data_of(b)[k] = b[k].data
  BY <1>1 DEF data_of
<1> DEFINE t == Append(data_of(s), e.data)
<1>7. /\ t \in Seq(S) /\ Len(t) = Len(s) + 1 /\ \A k \in 1..Len(s) : t[k] = data_of(s)[k]
      /\ t[Len(s) + 1] = e.data
  BY <1>2, <1>4, AppendProperties
<1> HIDE DEF t
<1>8. \A k \in 1..(Len(s) + 1) : data_of(b)[k] = t[k]
  <2>1. TAKE k \in 1..(Len(s) + 1)
  <2>2. k \in 1..Len(s) \/ k = Len(s) + 1
    BY <1>1
  <2> QED BY <1>1, <1>5, <1>6, <1>7, <2>2
<1>9. data_of(b) = t
  BY <1>3, <1>7, <1>8, SeqEqual
<1> QED BY <1>9 DEF b, t

\* What the corpus is cut from.
LEMMA AllCases ==
    ASSUME NEW p \in Protocols, NEW R, NEW k \in Seq([data: Inputs, result: R])
    PROVE  /\ Seeds[p] \o data_of(k) \in Seq(Inputs)
           /\ Len(Seeds[p] \o data_of(k)) \in Nat \ {0}
           /\ CorpusCap \in Nat \ {0} /\ Seeds[p] \in Seq(Inputs) /\ Len(Seeds[p]) <= CorpusCap
<1>1. Seeds[p] \in Seq(Inputs) /\ Len(Seeds[p]) \in 1..CorpusCap /\ CorpusCap \in Nat
  BY CampaignAssumption
<1>2. data_of(k) \in Seq(Inputs) /\ Len(data_of(k)) \in Nat
  <2>1. data_of(k) \in Seq(Inputs)
    BY Mapped, Zenon
  <2> QED BY <2>1
<1>3. /\ Seeds[p] \o data_of(k) \in Seq(Inputs)
      /\ Len(Seeds[p] \o data_of(k)) = Len(Seeds[p]) + Len(data_of(k))
  BY <1>1, <1>2, ConcatProperties
<1> QED BY <1>1, <1>2, <1>3

Holding == {"fuzzing", "executing", "saving"}

\* An interesting case takes its place at the end of the corpus, an uninteresting one none.
LEMMA GrowKeepsCorpus ==
    ASSUME CampaignInv, pc \in Holding, protocol_type' = protocol_type,
           NEW case \in Inputs, NEW r \in Outcomes[protocol_type], Grow(case, r)
    PROVE  /\ test_cases' \in Seq(Inputs)
           /\ kept' \in Seq([data: Inputs, result: Outcomes[protocol_type]])
           /\ CorpusIsLatest'
<1> DEFINE new == [data |-> case, result |-> r]
           R == Outcomes[protocol_type]
<1>1. /\ protocol_type \in Protocols /\ test_cases \in Seq(Inputs)
      /\ kept \in Seq([data: Inputs, result: R])
  BY CampaignAssumption DEF CampaignInv, TypeOK
<1>2. /\ all_cases \in Seq(Inputs) /\ Len(all_cases) \in Nat \ {0} /\ CorpusCap \in Nat \ {0}
      /\ Seeds[protocol_type] \in Seq(Inputs)
  BY <1>1, AllCases DEF all_cases
<1>3. test_cases = Latest(all_cases)
  BY DEF CampaignInv, CorpusIsLatest, Latest, all_cases, data_of, Holding
<1>4. /\ test_cases' \in Seq(Inputs) /\ kept' \in Seq([data: Inputs, result: R])
      /\ test_cases' = Latest(all_cases')
  <2>1. CASE test_cases' = test_cases /\ kept' = kept
    BY <1>1, <1>3, <2>1 DEF all_cases
  <2>2. CASE test_cases' = pushed(test_cases, case) /\ kept' = Append(kept, new)
    <3>1. new \in [data: Inputs, result: R] /\ new.data = case
      OBVIOUS
    <3> HIDE DEF new, R
    <3>2. data_of(kept') = Append(data_of(kept), case)
      BY <1>1, <2>2, <3>1, MappedAppend
    <3>3. data_of(kept) \in Seq(Inputs) 
      BY <1>1, Mapped, Zenon
    <3>4. all_cases' = Append(all_cases, case)
      <4>1. <<case>> \in Seq(Inputs)
        OBVIOUS
      <4>2. Append(data_of(kept), case) = data_of(kept) \o <<case>>
        BY <3>3, AppendIsConcat
      <4>3. Append(all_cases, case) = all_cases \o <<case>>
        BY <1>2, AppendIsConcat
      <4>4. \A s, t, u \in Seq(Inputs) : (s \o t) \o u = s \o (t \o u)
        BY ConcatAssociative
      <4>5. (Seeds[protocol_type] \o data_of(kept)) \o <<case>>
              = Seeds[protocol_type] \o (data_of(kept) \o <<case>>)
        <5>1. Seeds[protocol_type] \in Seq(Inputs)
          BY <1>2
        <5> QED BY <3>3, <4>1, <4>4, <5>1, Zenon
      <4>6. all_cases' = Seeds[protocol_type] \o data_of(kept')
        BY DEF all_cases
      <4> QED BY <3>2, <4>2, <4>3, <4>5, <4>6, Zenon DEF all_cases
    <3>5. test_cases' = Latest(all_cases')
      BY <1>2, <1>3, <2>2, <3>4, PushedIsLatest
    <3>6. test_cases' \in Seq(Inputs)
      <4>1. Append(test_cases, case) \in Seq(Inputs) /\ Len(Append(test_cases, case)) > 0
        BY <1>1, AppendProperties
      <4>2. Tail(Append(test_cases, case)) \in Seq(Inputs)
        BY <4>1, HeadTailProperties
      <4> QED BY <2>2, <4>1, <4>2 DEF pushed
    <3>7. kept' \in Seq([data: Inputs, result: R])
      BY <1>1, <2>2, <3>1, AppendProperties
    <3> QED BY <3>5, <3>6, <3>7
  <2> QED BY <2>1, <2>2 DEF Grow
<1>5. Len(all_cases') \in Nat \ {0}
  <2> HIDE DEF R
  <2>1. all_cases' = Seeds[protocol_type] \o data_of(kept')
    BY DEF all_cases
  <2> QED BY <1>1, <1>4, <2>1, AllCases
<1>6. CorpusIsLatest'
  <2>1. \A size : size = (IF Len(all_cases') <= CorpusCap THEN Len(all_cases') ELSE CorpusCap)
                    => size > 0
    BY <1>2, <1>5
  <2> QED BY <1>4, <2>1 DEF CorpusIsLatest, Latest, all_cases, data_of
<1> QED BY <1>4, <1>6

-----------------------------------------------------------------------------
(* The steps *)

\* Initially, and whenever an engine is started anew.
LEMMA StartKeepsInv ==
    /\ Init => CampaignInv
    /\ RunAgain => CampaignInv'
<1>1. Len(NewDetector.crashes) = 0 /\ NewDetector.last_crash_count = 0
         /\ DOMAIN NewDetector.crashes = {} /\ NewDetector.crashes = << >>
  BY DEF NewDetector
<1>2. NewDetector \in Detectors /\ DetectorInv(NewDetector)
  BY NewDetectorInv DEF DetectorInv
<1>3. /\ Iterations \in Nat /\ Options \subseteq Protocols \X BOOLEAN
  BY CampaignAssumption
<1>4. ASSUME Init PROVE CampaignInv
  <2>1. DetectorTypeOK /\ DetectorInv(detector) /\ ~has_new_crashes(detector)
    BY <1>1, <1>2, <1>4 DEF Init, DetectorInit, DetectorTypeOK, has_new_crashes
  <2>2. TypeOK
    BY <1>3, <1>4, <2>1 DEF Init, TypeOK, Ends
  <2>3. CountsAgree
    BY <1>1, <1>4, <2>1 DEF Init, CountsAgree, DetectorInit
  <2>4. CrashesKept
    BY <1>1, <1>4 DEF Init, CrashesKept, DetectorInit
  <2> QED BY <1>4, <2>1, <2>2, <2>3, <2>4
       DEF Init, CampaignInv, CaseAtHand, NothingKept, CorpusIsLatest
<1>5. ASSUME RunAgain PROVE CampaignInv'
  <2>1. DetectorTypeOK' /\ DetectorInv(detector)' /\ ~has_new_crashes(detector)'
    BY <1>1, <1>2, <1>5 DEF RunAgain, DetectorTypeOK, has_new_crashes
  <2>2. TypeOK'
    BY <1>3, <1>5, <2>1 DEF RunAgain, TypeOK, Ends
  <2>3. CountsAgree'
    BY <1>1, <1>5, <2>1 DEF RunAgain, CountsAgree
  <2>4. CrashesKept'
    BY <1>1, <1>5 DEF RunAgain, CrashesKept
  <2> QED BY <1>5, <2>1, <2>2, <2>3, <2>4
       DEF RunAgain, CampaignInv, CaseAtHand, NothingKept, CorpusIsLatest
<1> QED BY <1>4, <1>5

\* A step that leaves the corpus, the counts and the detector alone.
LEMMA QuietKeepsInv ==
    ASSUME CampaignInv, UNCHANGED <<loopVars, runVars, detectorVars>>,
           pc' \in {"testing", "seeding", "fuzzing", "executing", "saving"} \cup Ends,
           pc' = "executing" => /\ iteration < Iterations
                                /\ \E case \in Inputs : mutated_case' = Some(case),
           CaseAtHand',
           pc' \in {"testing", "seeding"} => pc \in {"testing", "seeding"},
           pc' \in Holding => pc \in Holding,
           pc = "panicked" /\ mutated_case # None <=> pc' = "panicked" /\ mutated_case' # None
    PROVE  CampaignInv'
<1> USE DEF loopVars, runVars, detectorVars
<1>1. TypeOK'
  BY DEF CampaignInv, TypeOK, DetectorTypeOK
<1>2. DetectorInv(detector)' /\ NothingKept' /\ CrashesKept'
  BY DEF CampaignInv, NothingKept, CrashesKept
<1>3. CountsAgree'
  BY DEF CampaignInv, CountsAgree
<1>4. CorpusIsLatest'
  BY DEF CampaignInv, CorpusIsLatest, Holding
<1> QED BY <1>1, <1>2, <1>3, <1>4 DEF CampaignInv

\* The corpus is seeded.
LEMMA SeedKeepsInv == ASSUME CampaignInv, SeedCorpus PROVE CampaignInv'
<1>1. /\ kept = << >> /\ kept' = kept /\ protocol_type' = protocol_type
      /\ test_cases' = Seeds[protocol_type] /\ pc = "seeding" /\ pc' = "fuzzing"
      /\ mutated_case = None /\ mutated_case' = mutated_case
      /\ protocol_type \in Protocols
  BY CampaignAssumption
     DEF CampaignInv, TypeOK, SeedCorpus, NothingKept, CaseAtHand, runVars
<1> DEFINE seeds == Seeds[protocol_type]
<1>2. /\ seeds \in Seq(Inputs) /\ Len(seeds) \in 1..CorpusCap /\ CorpusCap \in Nat
  BY <1>1, CampaignAssumption
<1>3. seeds \o data_of(kept') = seeds
  <2>1. data_of(kept') = << >>
    BY <1>1 DEF data_of
  <2> HIDE DEF seeds
  <2> QED BY <1>2, <2>1, ConcatEmptySeq
<1>4. CorpusIsLatest'
  <2>1. Latest(seeds) = seeds
    BY <1>2, LatestIsAll
  <2>2. all_cases' = seeds
    BY <1>1, <1>3 DEF all_cases
  <2>3. test_cases' = Latest(all_cases')
    BY <1>1, <2>1, <2>2
  <2>4. \A size : size = (IF Len(all_cases') <= CorpusCap THEN Len(all_cases') ELSE CorpusCap)
                    => size > 0
    <3> HIDE DEF seeds
    <3> QED BY <1>2, <2>2
  <2> QED BY <2>3, <2>4 DEF CorpusIsLatest, Latest, all_cases, data_of
<1>5. TypeOK'
  BY <1>1, <1>2 DEF CampaignInv, TypeOK, DetectorTypeOK, SeedCorpus, runVars, detectorVars
<1>6. CountsAgree'
  BY <1>1 DEF CampaignInv, CountsAgree, SeedCorpus, detectorVars
<1>7. DetectorInv(detector)' /\ CrashesKept' /\ CaseAtHand' /\ NothingKept'
  BY <1>1 DEF CampaignInv, CrashesKept, CaseAtHand, NothingKept, SeedCorpus, detectorVars
<1> QED BY <1>4, <1>5, <1>6, <1>7 DEF CampaignInv

\* A result is accounted for.
LEMMA AccountKeepsInv ==
    ASSUME CampaignInv, NEW case \in mutated_case, NEW r \in Outcomes[protocol_type],
           Account(case, r)
    PROVE  CampaignInv'
<1>1. /\ pc = "executing" /\ pc' = "fuzzing" /\ mutated_case' = None
      /\ iteration' = iteration + 1 /\ total_executions' = total_executions + 1
      /\ execution_count' = execution_count + 1
      /\ protocol_type' = protocol_type /\ coverage_enabled' = coverage_enabled
      /\ Detect(case, r) /\ Grow(case, r)
  BY DEF Account, runVars
<1>2. /\ TypeOK /\ CountsAgree /\ iteration \in 0..Iterations /\ iteration < Iterations
      /\ Iterations \in Nat /\ total_executions = iteration /\ execution_count = iteration
  BY <1>1, CampaignAssumption DEF CampaignInv, TypeOK, CountsAgree
<1>3. case \in Inputs
  BY <1>1, <1>2 DEF TypeOK, Some
<1>4. /\ DetectorInv(detector)' /\ DetectorTypeOK' /\ crashes_found' = Len(detector.crashes)'
      /\ crashes_found' \in Nat /\ ~has_new_crashes(detector)' /\ CrashesKept'
  BY <1>1, <1>3, DetectAndGrow
<1>5. /\ test_cases' \in Seq(Inputs) /\ CorpusIsLatest'
      /\ kept' \in Seq([data: Inputs, result: Outcomes[protocol_type]])
  BY <1>1, <1>3, GrowKeepsCorpus DEF Holding
<1>6. iteration + 1 \in 0..Iterations /\ iteration + 1 \in Nat
  BY <1>2
<1>7. TypeOK'
  BY <1>1, <1>2, <1>4, <1>5, <1>6 DEF TypeOK
<1>8. CountsAgree'
  BY <1>1, <1>2, <1>4 DEF CountsAgree
<1> QED BY <1>1, <1>4, <1>5, <1>7, <1>8 DEF CampaignInv, CaseAtHand, NothingKept

\* The collector panics on the case at hand, after it has counted the execution.
LEMMA CoveragePanicKeepsInv == ASSUME CampaignInv, CoveragePanics PROVE CampaignInv'
<1>1. /\ pc = "executing" /\ pc' = "panicked" /\ mutated_case' = mutated_case
      /\ mutated_case # None /\ execution_count' = execution_count + 1
      /\ UNCHANGED <<iteration, test_cases, total_executions, crashes_found, kept,
                     run, protocol_type, coverage_enabled, detector, reported>>
  BY DEF CoveragePanics, runVars, detectorVars, None
<1>2. /\ execution_count = iteration /\ iteration \in Nat /\ iteration + 1 \in Nat
  BY <1>1, CampaignAssumption DEF CampaignInv, TypeOK, CountsAgree
<1>3. TypeOK'
  BY <1>1, <1>2 DEF CampaignInv, TypeOK, DetectorTypeOK, Ends
<1>4. CountsAgree'
  BY <1>1, <1>2 DEF CampaignInv, CountsAgree
<1> QED BY <1>1, <1>3, <1>4
     DEF CampaignInv, CaseAtHand, NothingKept, CrashesKept, CorpusIsLatest

-----------------------------------------------------------------------------
\* One step per action of the campaign.
LEMMA CampaignInvAlways == Spec => []CampaignInv
<1>1. ASSUME CampaignInv, [Next]_vars PROVE CampaignInv'
  <2> USE DEF saveVars, Holding, CaseAtHand, Ends
  <2>1. CampaignInv /\ CaseAtHand /\ TypeOK
    BY <1>1 DEF CampaignInv
  <2>2. CASE TestConnectivity
    BY <2>1, <2>2, QuietKeepsInv DEF TestConnectivity
  <2>3. CASE SeedCorpus
    BY <2>1, <2>3, SeedKeepsInv
  <2>4. ASSUME NEW case \in Inputs, Mutate(case) PROVE CampaignInv'
    BY <2>1, <2>4, QuietKeepsInv DEF Mutate
  <2>5. ASSUME NEW case \in mutated_case, NEW r \in Outcomes[protocol_type], Account(case, r)
        PROVE  CampaignInv'
    BY <2>1, <2>5, AccountKeepsInv
  <2>6. CASE MutationPanics
    BY <2>1, <2>6, QuietKeepsInv DEF MutationPanics
  <2>7. CASE CoveragePanics
    BY <2>1, <2>7, CoveragePanicKeepsInv
  <2>8. CASE StartSaving
    BY <2>1, <2>8, QuietKeepsInv DEF StartSaving
  <2>9. CASE SaveFile
    BY <2>1, <2>9, QuietKeepsInv DEF SaveFile
  <2>10. CASE Finish
    BY <2>1, <2>10, QuietKeepsInv DEF Finish
  <2>11. CASE WriteFails
    BY <2>1, <2>11, QuietKeepsInv DEF WriteFails
  <2>12. CASE Kill
    BY <2>1, <2>12, QuietKeepsInv DEF Kill
  <2>13. CASE RunAgain
    BY <2>13, StartKeepsInv
  <2>14. CASE UNCHANGED vars
    BY <2>1, <2>14, QuietKeepsInv DEF vars, TypeOK
  <2> QED BY <1>1, <2>2, <2>3, <2>4, <2>5, <2>6, <2>7, <2>8, <2>9, <2>10, <2>11, <2>12,
             <2>13, <2>14 DEF Next, Engine, Advance, Returns
<1> QED BY <1>1, StartKeepsInv, PTL DEF Spec

\* Type correctness of the campaign and of everything it keeps.
THEOREM CampaignTypeCorrect == Spec => []TypeOK
<1>1. CampaignInv => TypeOK
  BY DEF CampaignInv
<1> QED BY <1>1, CampaignInvAlways, PTL

\* However many executions, panics, kills and runs: the loop, the campaign and the
\* collector count the same executions, and the crash count is the length of the
\* detector's list (mod.rs:92-105).
THEOREM CountsAgreeAlways == Spec => []CountsAgree
<1>1. CampaignInv => CountsAgree
  BY DEF CampaignInv
<1> QED BY <1>1, CampaignInvAlways, PTL

\* Every crash on the list was kept as a case to mutate further (mod.rs:97-111, :386-390).
THEOREM CrashesKeptAlways == Spec => []CrashesKept
<1>1. CampaignInv => CrashesKept
  BY DEF CampaignInv
<1> QED BY <1>1, CampaignInvAlways, PTL

\* For any capacity the corpus is the latest part of the seeds and of the cases
\* kept, and is never empty where iteration % len is taken (mod.rs:82, :110-117).
THEOREM CorpusIsLatestAlways == Spec => []CorpusIsLatest
<1>1. CampaignInv => CorpusIsLatest
  BY DEF CampaignInv
<1> QED BY <1>1, CampaignInvAlways, PTL

-----------------------------------------------------------------------------
(* The detector in a campaign *)

\* A failed execution is recorded and counted at once.
LEMMA DetectKeepsSound ==
    ASSUME CampaignInv, IInv, NEW case \in Inputs, NEW r \in Outcomes[protocol_type],
           Detect(case, r)
    PROVE  IInv'
<1>1. protocol_type \in Protocols
  BY CampaignAssumption DEF CampaignInv, TypeOK
<1>2. CASE r.success
  BY <1>2 DEF Detect, detectorVars, IInv
<1>3. CASE ~r.success
  <2> DEFINE recorded == record_crash(detector, case, r.error_message, FALSE, protocol_type)
             reports  == reported \cup {<<case, r.error_message>>}
  <2>1. detector' = crash_count(recorded) /\ reported' = reports
    BY <1>3 DEF Detect
  <2>2. r.error_message \in ErrorMessages
    BY <1>1, <1>3, FailuresAreInteresting
  <2>3. Sound(recorded, reports)
    BY <1>1, <2>2, RecordingSound DEF IInv
  <2> HIDE DEF recorded, reports
  <2> QED BY <2>1, <2>3, CountingSound DEF IInv
<1> QED BY <1>2, <1>3

\* The detector's own invariant, over any number of runs, each with a new detector.
LEMMA DetectorInCampaign == Spec => []IInv
<1>1. Init => IInv
  BY NewDetectorSound DEF Init, DetectorInit, IInv
<1>2. ASSUME CampaignInv, IInv, [Next]_vars PROVE IInv'
  <2>1. ASSUME NEW case \in mutated_case, NEW r \in Outcomes[protocol_type], Account(case, r)
        PROVE  IInv'
    <3>1. case \in Inputs
      BY <1>2, <2>1 DEF Account, CampaignInv, TypeOK, Some
    <3> QED BY <1>2, <2>1, <3>1, DetectKeepsSound DEF Account
  <2>2. CASE RunAgain
    BY <2>2, NewDetectorSound DEF RunAgain, IInv
  <2>3. CASE UNCHANGED detectorVars
    BY <1>2, <2>3 DEF detectorVars, IInv
  <2> QED BY <1>2, <2>1, <2>2, <2>3
       DEF Next, Engine, Advance, Returns, vars, TestConnectivity, SeedCorpus, Mutate, MutationPanics,
           CoveragePanics, StartSaving, SaveFile, Finish, WriteFails, Kill
<1> QED BY <1>1, <1>2, CampaignInvAlways, PTL DEF Spec

\* What is proved of the detector by itself it keeps in a campaign: no report of a failed
\* execution is lost, and index and counters agree with the list (mod.rs:95-107).
THEOREM CampaignKeepsDetector == Spec => [](HashIndexAgrees /\ EveryReportAccounted /\ StatsAgree)
<1>1. IInv => HashIndexAgrees /\ EveryReportAccounted /\ StatsAgree
  BY DEF IInv, Sound, DetectorInv, HashIndexAgrees, Accounted, EveryReportAccounted, StatsAgree
<1> QED BY <1>1, DetectorInCampaign, PTL

-----------------------------------------------------------------------
(* The files *)

Kinds == {"input", "metadata", "crash_summary", "crash_report", "coverage", "summary"}
Files == Kinds \X Nat

\* Where save_results writes what: the input and the metadata of each crash in turn, then
\* the summary and the report of the detector, the coverage, and the summary of the campaign.
PlanOf(plan, crashes) ==
    /\ plan \in Seq(Files) /\ Len(plan) > 0
    /\ \A n \in 0..(crashes - 1) : /\ 2 * n + 2 < Len(plan)
                                   /\ plan[2 * n + 1] = File("input", n)
                                   /\ plan[2 * n + 2] = File("metadata", n)
    /\ \A k \in 1..Len(plan), n \in Nat :
          /\ plan[k] = File("input", n) => k = 2 * n + 1 /\ n < crashes
          /\ plan[k] = File("metadata", n) => k = 2 * n + 2 /\ n < crashes
          /\ plan[k] = File("summary", 0) => k = Len(plan)
    /\ plan[Len(plan)] = File("summary", 0)
    /\ \E k \in 1..(Len(plan) - 1) : plan[k] = File("crash_summary", 0)
    /\ \E k \in 1..(Len(plan) - 1) : plan[k] = File("crash_report", 0)
    /\ coverage_enabled =>
          \A n \in 1..4 : \E k \in 1..(Len(plan) - 1) : plan[k] = File("coverage", n)

\* What has been saved when the k first files of the plan are written.
Saved(plan, k) ==
    /\ Len(unsaved) = Len(plan) - k
    /\ \A j \in 1..Len(unsaved) : unsaved[j] = plan[k + j]
    /\ \A j \in 1..k : Intact(plan[j], run) /\ disk[plan[j]].holds = content(plan[j])
    /\ \A f \in DOMAIN disk : disk[f].run = run => \E j \in 1..k : f = plan[j]

\* A run that is saving has written a part of its plan, and nothing else.
SavedInOrder ==
    /\ unsaved \in Seq(Files)
    /\ pc = "saving" => \E k \in 0..Len(save_plan(detector)) : Saved(save_plan(detector), k)

BeforeSaving == {"testing", "seeding", "fuzzing", "executing"}

\* Files stem from runs that were, and from this one only once it is saving.
FilesOfRuns ==
    /\ run \in Nat \ {0} /\ DOMAIN disk \subseteq Files
    /\ \A f \in DOMAIN disk : disk[f].run \in 1..run
    /\ pc \in BeforeSaving => \A f \in DOMAIN disk : disk[f].run # run

DiskInv == SavedInOrder /\ FilesOfRuns /\ SummaryVouches /\ MetadataFollowsInput

\* save_plan is such a plan (mod.rs:392-435, crash_detector.rs:157-176).
LEMMA SavePlanIs ==
    ASSUME NEW d, NEW S, d.crashes \in Seq(S), coverage_enabled \in BOOLEAN
    PROVE  PlanOf(save_plan(d), Len(d.crashes))
<1> DEFINE L == Len(d.crashes)
           a == crash_files(d)
           b == <<File("crash_summary", 0), File("crash_report", 0)>>
           c == coverage_files
           e == <<File("summary", 0)>>
           plan == save_plan(d)
<1>1. L \in Nat /\ 2 * L \in Nat
  OBVIOUS
<1>2. /\ a \in Seq(Files) /\ Len(a) = 2 * L
      /\ \A k \in 1..(2 * L) :
            \/ \E n \in 0..(L - 1) : k = 2 * n + 1 /\ a[k] = File("input", n)
            \/ \E n \in 0..(L - 1) : k = 2 * n + 2 /\ a[k] = File("metadata", n)
      /\ \A n \in 0..(L - 1) : a[2 * n + 1] = File("input", n) /\ a[2 * n + 2] = File("metadata", n)
  <2>1. DOMAIN a = 1..(2 * L)
    BY DEF crash_files
  <2>2. \A n \in 0..(L - 1) :
          /\ 2 * n + 1 \in 1..(2 * L) /\ (2 * n + 1) % 2 = 1 /\ (2 * n + 1) \div 2 = n
          /\ 2 * n + 2 \in 1..(2 * L) /\ (2 * n + 2) % 2 = 0 /\ (2 * n + 2) \div 2 - 1 = n
    BY <1>1
  <2>3. \A k \in 1..(2 * L) :
           \/ \E n \in 0..(L - 1) : k = 2 * n + 1
           \/ \E n \in 0..(L - 1) : k = 2 * n + 2
    <3>1. TAKE k \in 1..(2 * L)
    <3>2. k = 2 * (k \div 2) + (k % 2) /\ k % 2 \in 0..1 /\ k \div 2 \in Nat
      BY <1>1
    <3>3. CASE k % 2 = 1
      <4>1. k \div 2 \in 0..(L - 1)
        BY <1>1, <3>2, <3>3
      <4> QED BY <3>2, <3>3, <4>1
    <3>4. CASE k % 2 = 0
      <4>1. k \div 2 - 1 \in 0..(L - 1) /\ k = 2 * (k \div 2 - 1) + 2
        BY <1>1, <3>2, <3>4
      <4> QED BY <4>1
    <3> QED BY <3>2, <3>3, <3>4
  <2>4. \A n \in 0..(L - 1) : a[2 * n + 1] = File("input", n) /\ a[2 * n + 2] = File("metadata", n)
    BY <2>2 DEF crash_files
  <2>5. \A n \in Nat : File("input", n) \in Files /\ File("metadata", n) \in Files
    BY DEF File, Files, Kinds
  <2> HIDE DEF a, L
  <2>6. \A k \in 1..(2 * L) : a[k] \in Files
    <3>1. \A n \in 0..(L - 1) : n \in Nat
      BY <1>1
    <3> QED BY <2>3, <2>4, <2>5, <3>1
  <2>7. a \in Seq(Files) /\ Len(a) = 2 * L
    <3>1. a = [k \in 1..(2 * L) |-> a[k]]
      BY <2>1 DEF a, crash_files, L
    <3>2. a \in [1..(2 * L) -> Files]
      BY <2>6, <3>1
    <3> QED BY <1>1, <2>1, <3>2
  <2> QED BY <2>3, <2>4, <2>7
<1>3. b \in Seq(Files) /\ Len(b) = 2 /\ b[1] = File("crash_summary", 0)
         /\ b[2] = File("crash_report", 0)
  BY DEF File, Files, Kinds
<1>4. /\ c \in Seq(Files) /\ Len(c) = IF coverage_enabled THEN 4 ELSE 0
      /\ \A k \in 1..Len(c) : c[k] = File("coverage", k)
  <2>1. \A k \in 1..4 : File("coverage", k) \in Files
    BY DEF File, Files, Kinds
  <2>2. [k \in 1..4 |-> File("coverage", k)] \in Seq(Files)
           /\ Len([k \in 1..4 |-> File("coverage", k)]) = 4
    BY <2>1
  <2> QED BY <2>2 DEF coverage_files
<1>5. e \in Seq(Files) /\ Len(e) = 1 /\ e[1] = File("summary", 0)
  BY DEF File, Files, Kinds
<1>6. plan = ((a \o b) \o c) \o e
  BY DEF save_plan
<1> HIDE DEF a, b, c, e, plan, L
<1> DEFINE M == 2 * L + 2 + Len(c)
<1>7. /\ plan \in Seq(Files) /\ Len(plan) = M + 1 /\ M \in Nat
      /\ \A k \in 1..(2 * L) : plan[k] = a[k]
      /\ plan[2 * L + 1] = b[1] /\ plan[2 * L + 2] = b[2]
      /\ \A k \in 1..Len(c) : plan[2 * L + 2 + k] = c[k]
      /\ plan[M + 1] = e[1]
  <2>1. /\ a \o b \in Seq(Files) /\ Len(a \o b) = 2 * L + 2
        /\ \A k \in 1..(2 * L) : (a \o b)[k] = a[k]
        /\ (a \o b)[2 * L + 1] = b[1] /\ (a \o b)[2 * L + 2] = b[2]
    <3>1. /\ a \o b \in Seq(Files) /\ Len(a \o b) = Len(a) + Len(b)
          /\ \A k \in 1..(Len(a) + Len(b)) :
                (a \o b)[k] = IF k <= Len(a) THEN a[k] ELSE b[k - Len(a)]
      BY <1>2, <1>3, ConcatProperties
    <3>2. /\ 2 * L + 1 \in 1..(2 * L + 2) /\ 2 * L + 2 \in 1..(2 * L + 2)
          /\ ~(2 * L + 1 <= 2 * L) /\ ~(2 * L + 2 <= 2 * L)
          /\ 2 * L + 1 - 2 * L = 1 /\ 2 * L + 2 - 2 * L = 2
          /\ \A k \in 1..(2 * L) : k \in 1..(2 * L + 2) /\ k <= 2 * L
      BY <1>1
    <3> QED BY <1>2, <1>3, <3>1, <3>2
  <2> DEFINE ab == a \o b
             abc == ab \o c
  <2> HIDE DEF ab
  <2>2. Len(c) \in Nat
    BY <1>4
  <2>9. \A s, t \in Seq(Files) :
           /\ s \o t \in Seq(Files) /\ Len(s \o t) = Len(s) + Len(t)
           /\ \A k \in 1..(Len(s) + Len(t)) :
                 (s \o t)[k] = IF k <= Len(s) THEN s[k] ELSE t[k - Len(s)]
    BY ConcatProperties
  <2>3. /\ abc \in Seq(Files) /\ Len(abc) = M /\ M \in Nat
        /\ \A k \in 1..(2 * L + 2) : abc[k] = ab[k]
        /\ \A k \in 1..Len(c) : abc[2 * L + 2 + k] = c[k]
    <3>1. /\ abc \in Seq(Files) /\ Len(abc) = Len(ab) + Len(c)
          /\ \A k \in 1..(Len(ab) + Len(c)) :
                abc[k] = IF k <= Len(ab) THEN ab[k] ELSE c[k - Len(ab)]
      <4>1. ab \in Seq(Files) /\ c \in Seq(Files)
        BY <1>4, <2>1 DEF ab
      <4> QED BY <2>9, <4>1, Zenon
    <3>2. /\ M \in Nat /\ Len(ab) = 2 * L + 2
          /\ \A k \in 1..(2 * L + 2) : k \in 1..M /\ k <= 2 * L + 2
          /\ \A k \in 1..Len(c) : /\ 2 * L + 2 + k \in 1..M /\ ~(2 * L + 2 + k <= 2 * L + 2)
                                  /\ 2 * L + 2 + k - (2 * L + 2) = k
      <4>1. Len(ab) = 2 * L + 2
        BY <2>1 DEF ab
      <4> DEFINE q == Len(c)
      <4>2. q \in Nat
        BY <2>2
      <4> HIDE DEF q
      <4>3. \A k \in 1..q : /\ 2 * L + 2 + k \in 1..(2 * L + 2 + q)
                            /\ ~(2 * L + 2 + k <= 2 * L + 2)
                            /\ 2 * L + 2 + k - (2 * L + 2) = k
        BY <1>1, <4>2
      <4>4. \A k \in 1..(2 * L + 2) : k \in 1..(2 * L + 2 + q) /\ k <= 2 * L + 2
        BY <1>1, <4>2
      <4>5. 2 * L + 2 + q \in Nat
        BY <1>1, <4>2
      <4> QED BY <4>1, <4>3, <4>4, <4>5 DEF q
    <3>3. \A k \in 1..M : abc[k] = IF k <= 2 * L + 2 THEN ab[k] ELSE c[k - (2 * L + 2)]
      BY <3>1, <3>2
    <3> QED BY <3>1, <3>2, <3>3
  <2> HIDE DEF abc
  <2>4. /\ abc \o e \in Seq(Files) /\ Len(abc \o e) = M + 1
        /\ \A k \in 1..M : (abc \o e)[k] = abc[k]
        /\ (abc \o e)[M + 1] = e[1]
    <3>1. /\ abc \o e \in Seq(Files) /\ Len(abc \o e) = Len(abc) + Len(e)
          /\ \A k \in 1..(Len(abc) + Len(e)) :
                (abc \o e)[k] = IF k <= Len(abc) THEN abc[k] ELSE e[k - Len(abc)]
      <4>1. abc \in Seq(Files) /\ e \in Seq(Files)
        BY <1>5, <2>3
      <4> QED BY <2>9, <4>1, Zenon
    <3>2. /\ M + 1 \in 1..(M + 1) /\ ~(M + 1 <= M) /\ M + 1 - M = 1
          /\ \A k \in 1..M : k \in 1..(M + 1) /\ k <= M
      BY <2>3
    <3> HIDE DEF M
    <3> QED BY <1>5, <2>3, <3>1, <3>2
  <2>5. plan = abc \o e
    BY <1>6 DEF ab, abc
  <2>6. \A k \in 1..(2 * L + 2) : k \in 1..M
    BY <1>1, <2>2
  <2>7. \A k \in 1..Len(c) : 2 * L + 2 + k \in 1..M
    BY <1>1, <2>2
  <2>8. 1..(2 * L) \subseteq 1..(2 * L + 2) /\ 2 * L + 1 \in 1..(2 * L + 2)
           /\ 2 * L + 2 \in 1..(2 * L + 2)
    BY <1>1
  <2> QED BY <2>1, <2>3, <2>4, <2>5, <2>6, <2>7, <2>8 DEF ab
<1>8. /\ Len(c) \in Nat /\ M = 2 * L + 2 + Len(c)
  BY <1>4
<1> HIDE DEF M
\* Every place of the plan.
<1>9. \A k \in 1..(M + 1) :
         \/ \E n \in 0..(L - 1) : k = 2 * n + 1 /\ plan[k] = File("input", n)
         \/ \E n \in 0..(L - 1) : k = 2 * n + 2 /\ plan[k] = File("metadata", n)
         \/ k \in 1..M /\ plan[k] = File("crash_summary", 0)
         \/ k \in 1..M /\ plan[k] = File("crash_report", 0)
         \/ \E n \in Nat : k \in 1..M /\ plan[k] = File("coverage", n)
         \/ k = M + 1 /\ plan[k] = File("summary", 0)
  <2>1. TAKE k \in 1..(M + 1)
  <2>2. CASE k \in 1..(2 * L)
    <3>1. plan[k] = a[k]
      BY <1>7, <2>2
    <3> QED BY <1>2, <2>2, <3>1
  <2>3. CASE k = 2 * L + 1 \/ k = 2 * L + 2
    <3>1. k \in 1..M
      BY <1>1, <1>8, <2>3
    <3> QED BY <1>3, <1>7, <2>3, <3>1
  <2>4. CASE k \in (2 * L + 3)..M
    <3> DEFINE j == k - (2 * L + 2)
    <3>1. j \in 1..Len(c) /\ k = 2 * L + 2 + j /\ j \in Nat /\ k \in 1..M
      BY <1>1, <1>8, <2>4
    <3> HIDE DEF j
    <3>2. plan[k] = File("coverage", j)
      BY <1>4, <1>7, <3>1
    <3> QED BY <3>1, <3>2
  <2>5. CASE k = M + 1
    BY <1>5, <1>7, <2>5
  <2>6. k \in 1..(2 * L) \/ k = 2 * L + 1 \/ k = 2 * L + 2 \/ k \in (2 * L + 3)..M \/ k = M + 1
    <3>1. M \in Nat /\ k \in 1..(M + 1)
      BY <1>7
    <3> QED BY <1>1, <3>1
  <2> QED BY <2>2, <2>3, <2>4, <2>5, <2>6
<1>10. \A n, m : /\ File("input", n) = File("input", m) => n = m
                 /\ File("metadata", n) = File("metadata", m) => n = m
  BY DEF File
<1>11. \A n, m : /\ File("input", n) \notin {File("metadata", m), File("crash_summary", m),
                       File("crash_report", m), File("coverage", m), File("summary", m)}
                 /\ File("metadata", n) \notin {File("crash_summary", m),
                       File("crash_report", m), File("coverage", m), File("summary", m)}
                 /\ File("summary", n) \notin {File("crash_summary", m),
                       File("crash_report", m), File("coverage", m)}
  BY DEF File
<1>12. \A k \in 1..Len(plan), n \in Nat :
          /\ plan[k] = File("input", n) => k = 2 * n + 1 /\ n < L
          /\ plan[k] = File("metadata", n) => k = 2 * n + 2 /\ n < L
          /\ plan[k] = File("summary", 0) => k = Len(plan)
  <2>1. TAKE k \in 1..Len(plan), n \in Nat
  <2>2. k \in 1..(M + 1) /\ Len(plan) = M + 1
    BY <1>7
  <2>3. ASSUME plan[k] = File("input", n) PROVE k = 2 * n + 1 /\ n < L
    <3>1. PICK m \in 0..(L - 1) : k = 2 * m + 1 /\ plan[k] = File("input", m)
      BY <1>9, <1>11, <2>2, <2>3
    <3>2. m = n
      BY <1>10, <2>3, <3>1
    <3> QED BY <1>1, <3>1, <3>2
  <2>4. ASSUME plan[k] = File("metadata", n) PROVE k = 2 * n + 2 /\ n < L
    <3>1. PICK m \in 0..(L - 1) : k = 2 * m + 2 /\ plan[k] = File("metadata", m)
      BY <1>9, <1>11, <2>2, <2>4
    <3>2. m = n
      BY <1>10, <2>4, <3>1
    <3> QED BY <1>1, <3>1, <3>2
  <2>5. ASSUME plan[k] = File("summary", 0) PROVE k = Len(plan)
    BY <1>9, <1>11, <2>2, <2>5
  <2> QED BY <2>3, <2>4, <2>5
<1>13. \A n \in 0..(L - 1) : /\ 2 * n + 2 < Len(plan)
                             /\ plan[2 * n + 1] = File("input", n)
                             /\ plan[2 * n + 2] = File("metadata", n)
  <2>1. TAKE n \in 0..(L - 1)
  <2>2. 2 * n + 1 \in 1..(2 * L) /\ 2 * n + 2 \in 1..(2 * L) /\ 2 * n + 2 < M + 1
    BY <1>1, <1>8
  <2> QED BY <1>2, <1>7, <2>2
<1>14. Len(plan) - 1 = M /\ Len(plan) > 0
  BY <1>7
<1>15. /\ 2 * L + 1 \in 1..M /\ 2 * L + 2 \in 1..M
       /\ \A n \in 1..Len(c) : 2 * L + 2 + n \in 1..M
  BY <1>1, <1>8
<1>16. coverage_enabled =>
          \A n \in 1..4 : \E k \in 1..(Len(plan) - 1) : plan[k] = File("coverage", n)
  <2>1. SUFFICES ASSUME coverage_enabled, NEW n \in 1..4
                 PROVE  \E k \in 1..M : plan[k] = File("coverage", n)
    BY <1>14
  <2>2. n \in 1..Len(c) /\ c[n] = File("coverage", n)
    BY <1>4, <2>1
  <2>3. 2 * L + 2 + n \in 1..M
    BY <1>15, <2>2
  <2>4. plan[2 * L + 2 + n] = c[n]
    BY <1>7, <2>2
  <2> QED BY <2>2, <2>3, <2>4
<1>17. /\ \E k \in 1..(Len(plan) - 1) : plan[k] = File("crash_summary", 0)
       /\ \E k \in 1..(Len(plan) - 1) : plan[k] = File("crash_report", 0)
  BY <1>3, <1>7, <1>14, <1>15
<1>18. plan[Len(plan)] = File("summary", 0)
  BY <1>5, <1>7
<1> QED BY <1>7, <1>12, <1>13, <1>14, <1>16, <1>17, <1>18 DEF PlanOf, L, plan

\* What is written from what, once all is accounted for.
LEMMA ContentIs ==
    ASSUME CampaignInv, pc = "saving"
    PROVE  /\ \A n \in 0..(Len(detector.crashes) - 1) :
                 content(File("metadata", n)).input_data = content(File("input", n))
           /\ content(File("crash_summary", 0)) = Len(detector.crashes)
           /\ \A n : content(File("coverage", n)) = total_executions
           /\ content(File("summary", 0)).executions = total_executions
           /\ content(File("summary", 0)).crashes = Len(detector.crashes)
<1>1. /\ execution_count = total_executions /\ crashes_found = Len(detector.crashes)
  BY DEF CampaignInv, CountsAgree
<1>2. \A n : /\ content(File("metadata", n)) = detector.crashes[n + 1]
             /\ content(File("input", n)) = detector.crashes[n + 1].input_data
             /\ content(File("coverage", n)) = execution_count
  BY DEF content, File
<1>3. /\ content(File("crash_summary", 0)) = Len(detector.crashes)
      /\ content(File("summary", 0)) = [executions |-> total_executions, crashes |-> crashes_found]
  BY DEF content, File
<1> QED BY <1>1, <1>2, <1>3

\* One more file of the plan is on the disk, whole or not.
LEMMA WritingVouches ==
    ASSUME CampaignInv, DiskInv, pc = "saving", unsaved # << >>, NEW whole \in BOOLEAN,
           disk' = written(Head(unsaved), whole), UNCHANGED runVars
    PROVE  /\ DOMAIN disk' \subseteq Files
           /\ \A f \in DOMAIN disk' : disk'[f].run \in 1..run
           /\ MetadataFollowsInput' /\ SummaryVouches'
<1> DEFINE plan == save_plan(detector)
           L == Len(detector.crashes)
<1>1. L \in Nat /\ PlanOf(plan, L)
  <2>1. detector.crashes \in Seq(CrashInfo) /\ coverage_enabled \in BOOLEAN
    BY CampaignAssumption DEF CampaignInv, TypeOK, DetectorTypeOK, Detectors
  <2> QED BY <2>1, SavePlanIs
<1> HIDE DEF plan, L
<1>2. PICK k \in 0..Len(plan) : Saved(plan, k)
  BY DEF DiskInv, SavedInOrder, plan
<1> DEFINE N == Len(plan)
           file == Head(unsaved)
<1>3. /\ k + 1 \in 1..N /\ file = plan[k + 1] /\ file \in Files /\ N \in Nat
  <2>1. unsaved \in Seq(Files) /\ Len(unsaved) \in Nat \ {0} /\ file = unsaved[1]
    BY DEF DiskInv, SavedInOrder
  <2>2. plan \in Seq(Files) /\ N \in Nat /\ Len(unsaved) = N - k
    BY <1>1, <1>2 DEF PlanOf, Saved
  <2>3. k + 1 \in 1..N /\ 1 \in 1..Len(unsaved)
    BY <2>1, <2>2
  <2> QED BY <1>2, <2>1, <2>2, <2>3 DEF Saved
<1>4. /\ DOMAIN disk' = DOMAIN disk \cup {file}
      /\ disk'[file] = [run |-> run, whole |-> whole, holds |-> content(file)]
      /\ \A f \in DOMAIN disk : f # file => disk'[f] = disk[f]
      /\ run' = run /\ coverage_enabled' = coverage_enabled
  BY DEF written, runVars
<1> HIDE DEF N, file
<1>5. /\ run \in Nat \ {0} /\ DOMAIN disk \subseteq Files
      /\ \A f \in DOMAIN disk : disk[f].run \in 1..run
  BY DEF DiskInv, FilesOfRuns
<1>6. \A f \in DOMAIN disk' : disk'[f].run \in 1..run
  BY <1>4, <1>5
<1>7. MetadataFollowsInput'
  <2> SUFFICES ASSUME NEW f \in DOMAIN disk', f[1] = "metadata"
               PROVE  LET i == File("input", f[2])
                      IN  /\ i \in DOMAIN disk'
                          /\ \/ disk'[i].run = disk'[f].run /\ disk'[i].whole
                             \/ disk'[i].run > disk'[f].run
    BY DEF MetadataFollowsInput, Intact
  <2> DEFINE n == f[2]
             i == File("input", n)
  <2>1. f = File("metadata", n) /\ n \in Nat
    BY <1>3, <1>4, <1>5 DEF Files, File
  <2>2. i # f
    BY <2>1 DEF File
  <2> HIDE DEF i, n
  <2>3. CASE f = file
    <3>1. k = 2 * n + 1 /\ n \in 0..(L - 1)
      BY <1>1, <1>2, <1>3, <2>1, <2>3 DEF PlanOf, N
    <3>2. plan[k] = i /\ k \in 1..k
      BY <1>1, <3>1 DEF PlanOf, i
    <3>3. Intact(i, run)
      BY <1>2, <3>2 DEF Saved
    <3> QED BY <1>4, <2>2, <2>3, <3>3 DEF Intact, i, n
  <2>4. CASE f # file
    <3>1. f \in DOMAIN disk /\ disk'[f] = disk[f] /\ disk[f].run \in 1..run
      BY <1>4, <1>5, <2>4
    <3>2. CASE i # file
      <4>1. i \in DOMAIN disk /\ (Intact(i, disk[f].run) \/ disk[i].run > disk[f].run)
        BY <3>1, <2>1 DEF DiskInv, MetadataFollowsInput, i, n
      <4> QED BY <1>4, <3>1, <3>2, <4>1 DEF Intact, i, n
    <3>3. CASE i = file
      <4>1. disk'[i].run = run /\ i \in DOMAIN disk'
        BY <1>4, <3>3
      <4>2. disk[f].run # run
        <5> SUFFICES ASSUME disk[f].run = run PROVE FALSE
          OBVIOUS
        <5>1. PICK j \in 1..k : f = plan[j]
          BY <1>2, <3>1 DEF Saved
        <5>2. j \in 1..N
          BY <1>3, <5>1
        <5>3. j = 2 * n + 2
          BY <1>1, <2>1, <5>1, <5>2 DEF PlanOf, N
        <5>4. k + 1 = 2 * n + 1
          BY <1>1, <1>3, <2>1, <3>3 DEF PlanOf, N, i
        <5> QED BY <2>1, <5>1, <5>3, <5>4
      <4>3. disk[f].run < run
        BY <1>5, <3>1, <4>2
      <4> QED BY <3>1, <4>1, <4>3 DEF i, n
    <3> QED BY <3>2, <3>3
  <2> QED BY <2>3, <2>4
<1>8. SummaryVouches'
  <2> DEFINE summary == File("summary", 0)
             IsWhole(f) == f \in DOMAIN disk' /\ disk'[f].run = run /\ disk'[f].whole
  <2> SUFFICES ASSUME NEW r \in 1..run, Intact(summary, r)',
                      \A f \in DOMAIN disk' : disk'[f].run <= r
               PROVE  /\ \A n \in 0..(disk'[summary].holds.crashes - 1) :
                            /\ Intact(File("input", n), r)'
                            /\ Intact(File("metadata", n), r)'
                            /\ disk'[File("metadata", n)].holds.input_data
                                 = disk'[File("input", n)].holds
                      /\ Intact(File("crash_summary", 0), r)'
                      /\ Intact(File("crash_report", 0), r)'
                      /\ disk'[File("crash_summary", 0)].holds = disk'[summary].holds.crashes
                      /\ (r = run /\ coverage_enabled) => \A n \in 1..4 :
                            /\ Intact(File("coverage", n), r)'
                            /\ disk'[File("coverage", n)].holds = disk'[summary].holds.executions
    BY <1>4 DEF SummaryVouches
  <2>1. r = run
    <3>1. disk'[file].run = run /\ disk'[file].run <= r
      BY <1>4
    <3> QED BY <1>5, <3>1
  <2>2. file = summary /\ k + 1 = N
    <3>1. file = summary
      <4> SUFFICES ASSUME file # summary PROVE FALSE
        OBVIOUS
      <4>1. summary \in DOMAIN disk /\ disk[summary].run = run
        BY <1>4, <2>1 DEF Intact
      <4>2. PICK j \in 1..k : summary = plan[j]
        BY <1>2, <4>1 DEF Saved
      <4>3. j \in 1..N
        BY <1>3, <4>2
      <4>4. j = N
        BY <1>1, <4>2, <4>3 DEF PlanOf, N
      <4> QED BY <1>3, <4>2, <4>4
    <3> QED BY <1>1, <1>3, <3>1 DEF PlanOf, N
  <2>3. disk'[summary].holds.crashes = L /\ disk'[summary].holds.executions = total_executions
    BY <1>4, <2>2, ContentIs DEF L
  <2> HIDE DEF IsWhole
  <2>4. \A j \in 1..(N - 1) : IsWhole(plan[j]) /\ disk'[plan[j]].holds = content(plan[j])
    <3>1. TAKE j \in 1..(N - 1)
    <3>2. j \in 1..k /\ j \in 1..N /\ j # N
      BY <1>3, <2>2
    <3>3. plan[j] # summary
      BY <1>1, <3>2 DEF PlanOf, N
    <3>4. Intact(plan[j], run) /\ disk[plan[j]].holds = content(plan[j])
      BY <1>2, <3>2 DEF Saved
    <3> QED BY <1>4, <2>2, <3>3, <3>4 DEF Intact, IsWhole
  <2>5. ASSUME NEW n \in 0..(L - 1)
        PROVE  /\ IsWhole(File("input", n)) /\ IsWhole(File("metadata", n))
               /\ disk'[File("metadata", n)].holds.input_data = disk'[File("input", n)].holds
    <3>1. 2 * n + 1 \in 1..(N - 1) /\ 2 * n + 2 \in 1..(N - 1)
      <4>1. 2 * n + 2 < N
        BY <1>1 DEF PlanOf, N
      <4> QED BY <1>1, <1>3, <4>1
    <3>2. plan[2 * n + 1] = File("input", n) /\ plan[2 * n + 2] = File("metadata", n)
      BY <1>1 DEF PlanOf
    <3>3. content(File("metadata", n)).input_data = content(File("input", n))
      BY ContentIs DEF L
    <3> QED BY <2>4, <3>1, <3>2, <3>3
  <2>6. /\ IsWhole(File("crash_summary", 0)) /\ IsWhole(File("crash_report", 0))
        /\ disk'[File("crash_summary", 0)].holds = L
    <3>1. content(File("crash_summary", 0)) = L
      BY ContentIs DEF L
    <3>2. PICK j \in 1..(N - 1) : plan[j] = File("crash_summary", 0)
      BY <1>1 DEF PlanOf, N
    <3>3. PICK i \in 1..(N - 1) : plan[i] = File("crash_report", 0)
      BY <1>1 DEF PlanOf, N
    <3> QED BY <2>4, <3>1, <3>2, <3>3
  <2>7. ASSUME coverage_enabled, NEW n \in 1..4
        PROVE  /\ IsWhole(File("coverage", n))
               /\ disk'[File("coverage", n)].holds = total_executions
    <3>1. content(File("coverage", n)) = total_executions
      BY ContentIs
    <3>2. PICK j \in 1..(N - 1) : plan[j] = File("coverage", n)
      BY <1>1, <2>7 DEF PlanOf, N
    <3> QED BY <2>4, <3>1, <3>2
  <2> HIDE DEF summary
  <2>8. \A f : IsWhole(f) <=> Intact(f, r)'
    BY <2>1 DEF IsWhole, Intact
  <2> QED BY <2>1, <2>3, <2>5, <2>6, <2>7, <2>8
<1> QED BY <1>3, <1>4, <1>5, <1>6, <1>7, <1>8

\* The files after a step that writes none, outside of saving.
LEMMA NothingWritten ==
    ASSUME DiskInv, UNCHANGED <<disk, unsaved, runVars>>, pc' # "saving",
           pc' \in BeforeSaving => pc \in BeforeSaving
    PROVE  DiskInv'
<1> USE DEF runVars
<1>1. SavedInOrder' /\ FilesOfRuns' /\ MetadataFollowsInput'
  BY DEF DiskInv, SavedInOrder, FilesOfRuns, MetadataFollowsInput, Intact
<1>2. SummaryVouches'
  BY DEF DiskInv, SummaryVouches, Intact
<1> QED BY <1>1, <1>2 DEF DiskInv

\* What the files of earlier runs vouch for is settled when an engine starts anew.
LEMMA StartKeepsDisk ==
    /\ Init => DiskInv
    /\ DiskInv /\ RunAgain => DiskInv'
<1>1. ASSUME Init PROVE DiskInv
  <2>1. DOMAIN disk = {} /\ run = 1 /\ unsaved = << >> /\ pc = "testing"
    BY <1>1 DEF Init
  <2> QED BY <2>1 DEF DiskInv, SavedInOrder, FilesOfRuns, MetadataFollowsInput,
                      SummaryVouches, Intact
<1>2. ASSUME DiskInv, RunAgain PROVE DiskInv'
  <2>1. /\ disk' = disk /\ run' = run + 1 /\ unsaved' = << >> /\ pc' = "testing"
    BY <1>2 DEF RunAgain
  <2>2. /\ run \in Nat \ {0} /\ DOMAIN disk \subseteq Files
        /\ \A f \in DOMAIN disk : disk[f].run \in 1..run
    BY <1>2 DEF DiskInv, FilesOfRuns
  <2>3. SavedInOrder' /\ MetadataFollowsInput'
    BY <1>2, <2>1 DEF DiskInv, SavedInOrder, MetadataFollowsInput, Intact
  <2>4. FilesOfRuns'
    <3>1. run + 1 \in Nat \ {0} /\ \A r \in 1..run : r \in 1..(run + 1) /\ r # run + 1
      BY <2>2
    <3> QED BY <2>1, <2>2, <3>1 DEF FilesOfRuns
  <2>5. SummaryVouches'
    <3> DEFINE summary == File("summary", 0)
    <3> SUFFICES ASSUME NEW r \in 1..(run + 1), Intact(summary, r),
                        \A f \in DOMAIN disk : disk[f].run <= r
                 PROVE  /\ \A n \in 0..(disk[summary].holds.crashes - 1) :
                              /\ Intact(File("input", n), r)
                              /\ Intact(File("metadata", n), r)
                              /\ disk[File("metadata", n)].holds.input_data
                                   = disk[File("input", n)].holds
                        /\ Intact(File("crash_summary", 0), r)
                        /\ Intact(File("crash_report", 0), r)
                        /\ disk[File("crash_summary", 0)].holds = disk[summary].holds.crashes
                        /\ r # run + 1
      BY <2>1 DEF SummaryVouches, Intact
    <3>1. r \in 1..run /\ r # run + 1
      BY <2>2 DEF Intact
    <3> QED BY <1>2, <3>1 DEF DiskInv, SummaryVouches
  <2> QED BY <2>3, <2>4, <2>5 DEF DiskInv
<1> QED BY <1>1, <1>2

\* Saving begins with nothing of this run on the disk, ...
LEMMA StartSavingKeepsDisk == ASSUME CampaignInv, DiskInv, StartSaving PROVE DiskInv'
<1> DEFINE plan == save_plan(detector)
<1>1. /\ pc \in BeforeSaving /\ unsaved' = plan /\ disk' = disk /\ run' = run
      /\ coverage_enabled' = coverage_enabled /\ detector' = detector /\ pc' = "saving"
  BY DEF StartSaving, BeforeSaving, runVars, detectorVars
<1>2. plan \in Seq(Files) /\ Len(plan) \in Nat
  <2>1. detector.crashes \in Seq(CrashInfo) /\ coverage_enabled \in BOOLEAN
    BY CampaignAssumption DEF CampaignInv, TypeOK, DetectorTypeOK, Detectors
  <2>2. plan \in Seq(Files)
    BY <2>1, SavePlanIs DEF PlanOf
  <2> QED BY <2>2
<1>3. plan' = plan
  BY <1>1 DEF save_plan, crash_files, coverage_files
<1> HIDE DEF plan
<1>4. Saved(plan, 0)'
  <2>1. /\ Len(plan) = Len(plan) - 0 /\ 1..0 = {}
        /\ \A j \in 1..Len(plan) : 0 + j = j
    BY <1>2
  <2>2. \A f \in DOMAIN disk : disk[f].run # run
    BY <1>1 DEF DiskInv, FilesOfRuns
  <2> QED BY <1>1, <1>3, <2>1, <2>2 DEF Saved
<1>5. SavedInOrder'
  BY <1>1, <1>2, <1>4 DEF SavedInOrder, plan
<1>6. FilesOfRuns' /\ MetadataFollowsInput' /\ SummaryVouches'
  BY <1>1 DEF DiskInv, FilesOfRuns, BeforeSaving, MetadataFollowsInput, SummaryVouches, Intact
<1> QED BY <1>5, <1>6 DEF DiskInv

\* ... goes on file by file ...
LEMMA SaveFileKeepsDisk == ASSUME CampaignInv, DiskInv, SaveFile PROVE DiskInv'
<1> DEFINE plan == save_plan(detector)
<1>1. /\ pc = "saving" /\ pc' = pc /\ unsaved # << >> /\ unsaved' = Tail(unsaved)
      /\ disk' = written(Head(unsaved), TRUE) /\ run' = run
      /\ UNCHANGED <<runVars, coverage_enabled, detector, total_executions, crashes_found,
                     execution_count>>
  BY DEF SaveFile, loopVars, runVars, detectorVars
<1>2. /\ DOMAIN disk' \subseteq Files /\ \A f \in DOMAIN disk' : disk'[f].run \in 1..run
      /\ MetadataFollowsInput' /\ SummaryVouches'
  BY <1>1, WritingVouches
<1>3. plan' = plan /\ \A f : content(f)' = content(f)
  BY <1>1 DEF save_plan, crash_files, coverage_files, content
<1> HIDE DEF plan
<1>4. PICK k \in 0..Len(plan) : Saved(plan, k)
  BY <1>1 DEF DiskInv, SavedInOrder, plan
<1> DEFINE N == Len(plan)
           file == Head(unsaved)
<1>5. /\ unsaved \in Seq(Files) /\ Len(unsaved) \in Nat \ {0} /\ file = unsaved[1]
      /\ unsaved' \in Seq(Files) /\ Len(unsaved') = Len(unsaved) - 1
      /\ \A j \in 1..Len(unsaved') : unsaved'[j] = unsaved[j + 1]
  BY <1>1 DEF DiskInv, SavedInOrder
<1>6. Len(unsaved) = N - k
  BY <1>4 DEF Saved
<1>7. N \in Nat
  <2>1. detector.crashes \in Seq(CrashInfo) /\ coverage_enabled \in BOOLEAN
    BY CampaignAssumption DEF CampaignInv, TypeOK, DetectorTypeOK, Detectors
  <2>2. plan \in Seq(Files)
    BY <2>1, SavePlanIs DEF PlanOf, plan
  <2> QED BY <2>2
<1>8. k + 1 \in 0..N /\ file = plan[k + 1] /\ Len(unsaved') = N - (k + 1)
  BY <1>4, <1>5, <1>6, <1>7 DEF Saved
<1>9. \A j \in 1..Len(unsaved') : unsaved'[j] = plan[(k + 1) + j]
  <2>1. TAKE j \in 1..Len(unsaved')
  <2>2. j + 1 \in 1..Len(unsaved) /\ k + (j + 1) = (k + 1) + j
    BY <1>5, <1>7
  <2> QED BY <1>4, <1>5, <2>2 DEF Saved
<1> HIDE DEF N, file
<1>10. /\ DOMAIN disk' = DOMAIN disk \cup {file}
       /\ disk'[file] = [run |-> run, whole |-> TRUE, holds |-> content(file)]
       /\ \A f \in DOMAIN disk : f # file => disk'[f] = disk[f]
  BY <1>1 DEF written, file
<1>11. \A j \in 1..(k + 1) : j \in 1..k \/ j = k + 1
  BY <1>7
<1>12. ASSUME NEW j \in 1..(k + 1)
       PROVE  /\ plan[j] \in DOMAIN disk' /\ disk'[plan[j]].run = run
              /\ disk'[plan[j]].whole /\ disk'[plan[j]].holds = content(plan[j])
  <2>1. CASE plan[j] = file
    BY <1>10, <2>1
  <2>2. CASE plan[j] # file
    <3>1. j \in 1..k
      BY <1>8, <1>11, <2>2
    <3>2. Intact(plan[j], run) /\ disk[plan[j]].holds = content(plan[j])
      BY <1>4, <3>1 DEF Saved
    <3> QED BY <1>10, <2>2, <3>2 DEF Intact
  <2> QED BY <2>1, <2>2
<1>13. ASSUME NEW f \in DOMAIN disk', disk'[f].run = run
       PROVE  \E j \in 1..(k + 1) : f = plan[j]
  <2>1. 1..k \subseteq 1..(k + 1) /\ k + 1 \in 1..(k + 1)
    BY <1>7
  <2>2. CASE f = file
    BY <1>8, <2>1, <2>2
  <2>3. CASE f # file
    BY <1>4, <1>10, <1>13, <2>1, <2>3 DEF Saved
  <2> QED BY <2>2, <2>3
<1>14. Saved(plan, k + 1)'
  BY <1>1, <1>3, <1>8, <1>9, <1>12, <1>13 DEF Saved, N, Intact
<1>15. SavedInOrder'
  BY <1>1, <1>3, <1>5, <1>8, <1>14 DEF SavedInOrder, plan, N
<1>16. FilesOfRuns'
  BY <1>1, <1>2 DEF DiskInv, FilesOfRuns, BeforeSaving
<1> QED BY <1>2, <1>15, <1>16 DEF DiskInv

\* ... and may be cut short in the middle of one.
LEMMA InterruptionKeepsDisk ==
    ASSUME CampaignInv, DiskInv, pc = "saving", unsaved # << >>, Interrupted,
           UNCHANGED <<unsaved, runVars>>, pc' \in Ends
    PROVE  DiskInv'
<1>1. CASE disk' = disk
  BY <1>1, NothingWritten DEF Ends, BeforeSaving
<1>2. CASE disk' = written(Head(unsaved), FALSE)
  <2>1. /\ DOMAIN disk' \subseteq Files /\ \A f \in DOMAIN disk' : disk'[f].run \in 1..run
        /\ MetadataFollowsInput' /\ SummaryVouches'
    BY <1>2, WritingVouches
  <2>2. SavedInOrder' /\ FilesOfRuns'
    BY <2>1 DEF DiskInv, SavedInOrder, FilesOfRuns, Ends, BeforeSaving, runVars
  <2> QED BY <2>1, <2>2 DEF DiskInv
<1> QED BY <1>1, <1>2 DEF Interrupted

\* One step per action of the campaign.
LEMMA DiskInvAlways == Spec => []DiskInv
<1>1. ASSUME CampaignInv, DiskInv, [Next]_vars PROVE DiskInv'
  <2> USE <1>1 DEF saveVars, BeforeSaving
  <2>1. CASE TestConnectivity
    BY <2>1, NothingWritten DEF TestConnectivity
  <2>2. CASE SeedCorpus
    BY <2>2, NothingWritten DEF SeedCorpus
  <2>3. ASSUME NEW case \in Inputs, Mutate(case) PROVE DiskInv'
    BY <2>3, NothingWritten DEF Mutate
  <2>4. ASSUME NEW case \in mutated_case, NEW r \in Outcomes[protocol_type], Account(case, r)
        PROVE  DiskInv'
    BY <2>4, NothingWritten DEF Account
  <2>5. CASE MutationPanics
    BY <2>5, NothingWritten DEF MutationPanics
  <2>6. CASE CoveragePanics
    BY <2>6, NothingWritten DEF CoveragePanics
  <2>7. CASE StartSaving
    BY <2>7, StartSavingKeepsDisk
  <2>8. CASE SaveFile
    BY <2>8, SaveFileKeepsDisk
  <2>9. CASE Finish
    BY <2>9, NothingWritten DEF Finish
  <2>10. CASE WriteFails
    BY <2>10, InterruptionKeepsDisk DEF WriteFails, Ends
  <2>11. CASE Kill
    <3>1. CASE pc = "saving" /\ unsaved # << >>
      BY <2>11, <3>1, InterruptionKeepsDisk DEF Kill, Ends
    <3>2. CASE ~(pc = "saving" /\ unsaved # << >>)
      BY <2>11, <3>2, NothingWritten DEF Kill
    <3> QED BY <3>1, <3>2
  <2>12. CASE RunAgain
    BY <2>12, StartKeepsDisk
  <2>13. CASE UNCHANGED vars
    <3>1. /\ UNCHANGED <<pc, disk, unsaved, run, coverage_enabled, detector,
                         total_executions, crashes_found, execution_count>>
      BY <2>13 DEF vars, loopVars, runVars, detectorVars
    <3>2. save_plan(detector)' = save_plan(detector) /\ \A f : content(f)' = content(f)
      BY <3>1 DEF save_plan, crash_files, coverage_files, content
    <3>3. SavedInOrder'
      <4>1. \A p, k : Saved(p, k)' <=> Saved(p, k)
        BY <3>1, <3>2 DEF Saved, Intact
      <4> QED BY <3>1, <3>2, <4>1 DEF DiskInv, SavedInOrder
    <3>4. FilesOfRuns' /\ MetadataFollowsInput' /\ SummaryVouches'
      BY <3>1 DEF DiskInv, FilesOfRuns, MetadataFollowsInput, SummaryVouches, Intact
    <3> QED BY <3>3, <3>4 DEF DiskInv
  <2> QED BY <2>1, <2>2, <2>3, <2>4, <2>5, <2>6, <2>7, <2>8, <2>9, <2>10, <2>11, <2>12,
             <2>13 DEF Next, Engine, Advance, Returns
<1>2. Init => DiskInv
  BY StartKeepsDisk
<1> QED BY <1>1, <1>2, CampaignInvAlways, PTL DEF Spec

\* Whatever is killed, fails or panics in however many runs, metadata never stands for
\* an input that is not there (crash_detector.rs:158-165).
THEOREM MetadataFollowsInputAlways == Spec => []MetadataFollowsInput
<1>1. DiskInv => MetadataFollowsInput
  BY DEF DiskInv
<1> QED BY <1>1, DiskInvAlways, PTL

\* A whole summary.txt, if it is the latest thing its run wrote, vouches for every crash
\* it counts and for the counts of the other files (mod.rs:392-435).
THEOREM SummaryVouchesAlways == Spec => []SummaryVouches
<1>1. DiskInv => SummaryVouches
  BY DEF DiskInv
<1> QED BY <1>1, DiskInvAlways, PTL
=============================================================================
