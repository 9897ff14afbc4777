---------------------------- MODULE CrashDetector ----------------------------
(***************************************************************************)
(* The crash detector (src/src/fuzzer/crash_detector.rs): a list of        *)
(* crashes, the set of the hashes of their inputs, and per-protocol        *)
(* counters that are kept incrementally and never recomputed.              *)
(*                                                                         *)
(* The detector is one value, so that the campaign can apply several of    *)
(* its operations in one step; the operators below map a detector to the   *)
(* detector the method leaves.                                             *)
(***************************************************************************)
EXTENDS CrashClassification, FiniteSets

CONSTANTS
    Inputs,       \* the packets that can be reported
    Protocols,    \* ProtocolType
    Hashes,       \* values of calculate_hash
    InputHash,    \* [Inputs -> Hashes]; two inputs may collide
    InputSize,    \* [Inputs -> Nat], in bytes
    ErrorMessages \* the values of Option<String> that can be reported

ASSUME HashAssumption == InputHash \in [Inputs -> Hashes]
ASSUME SizeAssumption == InputSize \in [Inputs -> Nat]
ASSUME MessageAssumption == \A e \in ErrorMessages :
                                e = None \/ \E m \in e : e = Some(m) /\ WellFormed(m)

VARIABLES
    detector,     \* the CrashDetector
    reported      \* history: the <<input, error>> pairs ever passed to record_crash

detectorVars == <<detector, reported>>

calculate_hash(data) == InputHash[data]

\* CrashInfo without id and timestamp, which nothing reads back; the
\* execution time only matters through slow.
CrashInfo == [protocol: Protocols, input_data: Inputs, input_hash: Hashes,
              error_message: ErrorMessages, slow: BOOLEAN,
              crash_type: CrashTypes, severity: Severities]

\* A key absent from a HashMap of counters is a zero counter.
NoStats == [total_crashes |-> 0, unique_crashes |-> 0,
            crash_types |-> [t \in CrashTypes |-> 0],
            severity_counts |-> [s \in Severities |-> 0]]

NewDetector == [crashes |-> << >>, crash_hashes |-> {},
                protocol_stats |-> [p \in Protocols |-> NoStats],
                last_crash_count |-> 0]

new_crash(data, error, slow, protocol) ==
    LET type == classify_crash(error, slow)
    IN  [protocol |-> protocol, input_data |-> data,
         input_hash |-> calculate_hash(data), error_message |-> error, slow |-> slow,
         crash_type |-> type,
         severity |-> determine_severity(type, error, InputSize[data])]

\* Fault: the unique count is taken before the hash is inserted.
updated_stats_early(stats, crash, hashes) ==
    [total_crashes |-> stats.total_crashes + 1,
     unique_crashes |-> Cardinality(hashes) - 1,
     crash_types |-> [stats.crash_types EXCEPT ![crash.crash_type] = @ + 1],
     severity_counts |-> [stats.severity_counts EXCEPT ![crash.severity] = @ + 1]]

\* hashes: crash_hashes after the insertion
updated_stats(stats, crash, hashes) ==
    [total_crashes |-> stats.total_crashes + 1,
     unique_crashes |-> Cardinality(hashes),
     crash_types |-> [stats.crash_types EXCEPT ![crash.crash_type] = @ + 1],
     severity_counts |-> [stats.severity_counts EXCEPT ![crash.severity] = @ + 1]]

\* Fault: the hash is not inserted.
kept_crash_unindexed(d, crash) ==
    [d EXCEPT !.crashes = Append(@, crash),
              !.protocol_stats[crash.protocol] = updated_stats(@, crash, d.crash_hashes)]

kept_crash(d, crash) ==
    LET hashes == d.crash_hashes \cup {crash.input_hash}
    IN  [crashes          |-> Append(d.crashes, crash),
         crash_hashes     |-> hashes,
         protocol_stats   |-> [d.protocol_stats EXCEPT ![crash.protocol] =
                                  updated_stats(@, crash, hashes)],
         last_crash_count |-> d.last_crash_count]

\* Faults: a crash without an error message is not recorded; the last report of
\* a hash replaces the first; the count is that of the next crash.
record_crash_silent(d, data, error, slow, protocol) ==
    IF calculate_hash(data) \in d.crash_hashes \/ error = None THEN d
    ELSE kept_crash(d, new_crash(data, error, slow, protocol))

record_crash_last(d, data, error, slow, protocol) ==
    LET crash == new_crash(data, error, slow, protocol)
    IN  IF calculate_hash(data) \in d.crash_hashes
        THEN [d EXCEPT !.crashes = [k \in DOMAIN @ |->
                 IF @[k].input_hash = calculate_hash(data) THEN crash ELSE @[k]]]
        ELSE kept_crash(d, crash)

crash_count_next(d) == [d EXCEPT !.last_crash_count = Len(d.crashes) + 1]

\* An input whose hash is known is dropped before it is classified.
record_crash(d, data, error, slow, protocol) ==
    IF calculate_hash(data) \in d.crash_hashes THEN d
    ELSE kept_crash(d, new_crash(data, error, slow, protocol))

crash_count(d) == [d EXCEPT !.last_crash_count = Len(d.crashes)]

has_new_crashes(d) == Len(d.crashes) > d.last_crash_count

get_high_severity_crashes(d) ==
    SelectSeq(d.crashes, LAMBDA c : c.severity \in {"High", "Critical"})

-----------------------------------------------------------------------------
DetectorInit == detector = NewDetector /\ reported = {}

RecordCrash(data, error, slow, protocol) ==
    /\ detector' = record_crash(detector, data, error, slow, protocol)
    /\ reported' = reported \cup {<<data, error>>}

CrashCount == /\ detector' = crash_count(detector)
              /\ UNCHANGED reported

DetectorNext ==
    \/ \E data \in Inputs, error \in ErrorMessages, slow \in BOOLEAN, protocol \in Protocols :
          RecordCrash(data, error, slow, protocol)
    \/ CrashCount

DetectorSpec == DetectorInit /\ [][DetectorNext]_detectorVars

-----------------------------------------------------------------------------
Stats == [total_crashes: Nat, unique_crashes: Nat,
          crash_types: [CrashTypes -> Nat], severity_counts: [Severities -> Nat]]

Detectors == [crashes: Seq(CrashInfo), crash_hashes: SUBSET Hashes,
              protocol_stats: [Protocols -> Stats], last_crash_count: Nat]

\* Type invariant of the detector.
DetectorTypeOK == /\ detector \in Detectors
                  /\ reported \subseteq Inputs \X ErrorMessages
                  /\ detector.last_crash_count <= Len(detector.crashes)

\* The hash set is an index of the crash list: it holds exactly the hashes of
\* the listed crashes, every crash is filed under the hash of its own input,
\* and no hash is listed twice (crash_detector.rs:81 and :109-110 keep the two
\* collections in step).
IndexAgrees(d) ==
    /\ d.crash_hashes = {d.crashes[k].input_hash : k \in DOMAIN d.crashes}
    /\ \A k \in DOMAIN d.crashes :
          d.crashes[k].input_hash = calculate_hash(d.crashes[k].input_data)
    /\ \A j, k \in DOMAIN d.crashes :
          d.crashes[j].input_hash = d.crashes[k].input_hash => j = k
HashIndexAgrees == IndexAgrees(detector)

\* No report is lost and none invented: the hashes on file are those of the
\* inputs ever reported, and every listed crash was reported with the error it
\* carries.
EveryReportAccounted ==
    /\ detector.crash_hashes = {calculate_hash(r[1]) : r \in reported}
    /\ \A k \in DOMAIN detector.crashes :
          <<detector.crashes[k].input_data, detector.crashes[k].error_message>> \in reported

\* The incremental counters agree with the list whatever was recorded: for each
\* protocol the total, the per-type and the per-severity counts are those of the
\* listed crashes.  unique_crashes counts the crashes of every protocol up to
\* this protocol's last one, so it is the position of that crash in the list
\* (crash_detector.rs:113-117).
CrashesOf(d, p)         == {k \in DOMAIN d.crashes : d.crashes[k].protocol = p}
CrashesTyped(d, p, t)   == {k \in CrashesOf(d, p) : d.crashes[k].crash_type = t}
CrashesGraded(d, p, s)  == {k \in CrashesOf(d, p) : d.crashes[k].severity = s}
CountersAgree(d) ==
    \A p \in Protocols :
      LET stats == d.protocol_stats[p]
      IN  /\ stats.total_crashes = Cardinality(CrashesOf(d, p))
          /\ \A t \in CrashTypes :
                stats.crash_types[t] = Cardinality(CrashesTyped(d, p, t))
          /\ \A s \in Severities :
                stats.severity_counts[s] = Cardinality(CrashesGraded(d, p, s))
          /\ IF CrashesOf(d, p) = {} THEN stats.unique_crashes = 0
             ELSE /\ stats.unique_crashes \in CrashesOf(d, p)
                  /\ \A k \in CrashesOf(d, p) : k <= stats.unique_crashes
StatsAgree == CountersAgree(detector)

\* The detector implements the abstract crash log: the first report of a hash
\* is kept, as it was made, for ever.
FirstReport(d) ==
    [h \in d.crash_hashes |->
        d.crashes[CHOOSE k \in DOMAIN d.crashes : d.crashes[k].input_hash = h]]
HashOfCrash(crash) == crash.input_hash
PossibleCrashes == {new_crash(data, error, slow, protocol) :
    data \in Inputs, error \in ErrorMessages, slow \in BOOLEAN, protocol \in Protocols}
Log == INSTANCE CrashLog WITH log <- FirstReport(detector),
                              Reports <- PossibleCrashes, HashOf <- HashOfCrash
ImplementsLog == Log!LogSpec
=============================================================================
