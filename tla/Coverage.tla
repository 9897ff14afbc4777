------------------------------- MODULE Coverage -------------------------------
(***************************************************************************)
(* The composite coverage collector (src/src/coverage/mod.rs:86-371): it   *)
(* feeds each execution to the edge and to the feature collector, takes a  *)
(* snapshot of their percentages now and then, and keeps the recent ones.  *)
(* Nothing is written before the campaign is over (Campaign).              *)
(***************************************************************************)
EXTENDS FeatureCoverage

CONSTANTS
    Executions,        \* protocol -> what can be recorded: packets, as sequences of bytes,
                       \* and [success, response_data, error_message, execution_time_ms]
    SnapshotEvery,     \* 50 in the code
    HistoryCap,        \* 10000 in the code
    HistoryDrop,       \* 1000 in the code
    WindowSize,        \* 100 in the code
    GrowthMin,         \* 10 in the code
    MaxExecutions      \* bound of the model: executions between two resets

ASSUME CoverageAssumption ==
    /\ \A p \in DOMAIN Executions : \A e \in Executions[p] :
          /\ e[1] \in Seq(0..255) /\ parse_questions(e[1]) \in Seq(Nat)
          /\ e[2].success \in BOOLEAN /\ e[2].execution_time_ms \in Nat
          /\ \A r \in e[2].response_data : r \in Seq(0..255)
    /\ SnapshotEvery \in Nat \ {0} /\ HistoryCap \in Nat /\ HistoryDrop \in 1..HistoryCap
    /\ WindowSize \in Nat \ {0, 1} /\ GrowthMin \in Nat \ {0} /\ MaxExecutions \in Nat

VARIABLES
    protocol_type,     \* "DNS" or "MQTT"
    edge_collector,
    feature_collector,
    execution_count,
    coverage_history,  \* the snapshots
    panicked           \* an extractor panicked: the campaign is dead

vars == <<protocol_type, edge_collector, feature_collector, execution_count, coverage_history, panicked>>

Init == /\ protocol_type \in DOMAIN Executions
        /\ edge_collector = NewEdgeCollector
        /\ feature_collector = NewFeatureCollector
        /\ execution_count = 0 /\ coverage_history = << >>
        /\ panicked = FALSE

-----------------------------------------------------------------------------
\* Fault: too long a history loses its newest members.
trimmed_newest(history) ==
    IF Len(history) > HistoryCap THEN SubSeq(history, 1, Len(history) - HistoryDrop) ELSE history

trimmed(history) ==
    IF Len(history) > HistoryCap THEN SubSeq(history, HistoryDrop + 1, Len(history)) ELSE history

snapshot(count, edges, features) ==
    [execution_count |-> count, edge_coverage |-> Percentage(edges.edge_map),
     feature_coverage |-> Percentage(features.feature_map)]

RecordExecution(data, result) ==
    /\ ~panicked /\ execution_count < MaxExecutions
    /\ has_repeated_bytes(data) # "panic"
    /\ execution_count' = execution_count + 1
    /\ edge_collector' = edge_record(edge_collector, extract_edges(data, result))
    /\ feature_collector' = feature_record(feature_collector,
                                extract_all_features(protocol_type, data, result))
    /\ coverage_history' =
          IF execution_count' % SnapshotEvery = 0
          THEN trimmed(Append(coverage_history,
                              snapshot(execution_count', edge_collector', feature_collector')))
          ELSE coverage_history
    /\ UNCHANGED <<protocol_type, panicked>>

\* The edges are recorded, the features are not.
RecordPanics(data, result) ==
    /\ ~panicked /\ execution_count < MaxExecutions
    /\ has_repeated_bytes(data) = "panic"
    /\ execution_count' = execution_count + 1
    /\ edge_collector' = edge_record(edge_collector, extract_edges(data, result))
    /\ feature_collector' = feature_record_panicking(feature_collector)
    /\ panicked' = TRUE
    /\ UNCHANGED <<protocol_type, coverage_history>>

ResetAll ==
    /\ ~panicked
    /\ edge_collector' = NewEdgeCollector
    /\ feature_collector' = NewFeatureCollector
    /\ execution_count' = 0 /\ coverage_history' = << >>
    /\ UNCHANGED <<protocol_type, panicked>>

Next == \/ \E e \in Executions[protocol_type] :
              RecordExecution(e[1], e[2]) \/ RecordPanics(e[1], e[2])
        \/ ResetAll

Spec == Init /\ [][Next]_vars

-----------------------------------------------------------------------------
(* What the report makes of the history, in thousandths *)

increase(from, to) == 1000 * (to.edge_coverage - from.edge_coverage)

\* The last snapshots, as many as a window holds.
recent_snapshots ==
    SubSeq(coverage_history, Max({1, Len(coverage_history) - WindowSize + 1}),
           Len(coverage_history))

\* Of every window; negative rates are raised to 0.
calculate_edge_discovery_rate ==
    [k \in 1..(Len(coverage_history) - WindowSize + 1) |->
        Max({0, increase(coverage_history[k], coverage_history[k + WindowSize - 1])
                   \div WindowSize})]

calculate_discovery_rate ==
    IF Len(coverage_history) < 2 THEN 0
    ELSE LET start == Head(recent_snapshots)
             end   == Last(recent_snapshots)
         IN  increase(start, end) \div (end.execution_count - start.execution_count)

\* An exponential moving average: a tenth of the latest growth, nine of what was before.
calculate_coverage_growth_rate ==
    LET ema[k \in 0..(Len(coverage_history) - 1)] ==
            IF k = 0 THEN 0
            ELSE (increase(coverage_history[k], coverage_history[k + 1]) + 9 * ema[k - 1]) \div 10
    IN  IF Len(coverage_history) < GrowthMin THEN 0 ELSE ema[Len(coverage_history) - 1]

coverage_percentage ==
    (Percentage(edge_collector.edge_map) + Percentage(feature_collector.feature_map)) \div 2

-----------------------------------------------------------------------------
\* How often a bag has an element, and each of its occurrences as a thing of its own.
Copies(x, bag)   == IF x \in DOMAIN bag THEN bag[x] ELSE 0
Occurrences(bag) == UNION {{x} \X (1..bag[x]) : x \in DOMAIN bag}

\* The executions are counted three times over and the counts agree, even after a
\* panic half way; every execution is on one path, and the set of the paths is kept
\* in step with their frequencies (mod.rs:331-335, edge_coverage.rs:269-291), from
\* which path_diversity is computed.
CountsConcur ==
    /\ edge_collector.total_executions = execution_count
    /\ feature_collector.total_executions = execution_count
    /\ Cardinality(Occurrences(edge_collector.path_frequencies)) = execution_count
    /\ edge_collector.unique_paths = BagToSet(edge_collector.path_frequencies)

\* The places at which the paths taken have an edge, once for each time a path was taken.
Hits(e, frequencies) ==
    UNION {{o} \X {k \in DOMAIN o[1] : o[1][k] = e} : o \in Occurrences(frequencies)}

\* The hits of an edge are those of the paths it is on, as often as it is on them
\* and as often as they were taken, whatever the hash function confuses
\* (edge_coverage.rs:276-291).
EdgeCountsArePaths ==
    LET frequencies == edge_collector.path_frequencies
        edge_map    == edge_collector.edge_map
    IN  /\ DOMAIN edge_map = UNION {ToSet(path) : path \in DOMAIN frequencies}
        /\ \A e \in DOMAIN edge_map : edge_map[e] = Cardinality(Hits(e, frequencies))

\* Two collectors, two chains of tests on the error message, one verdict where both
\* have it: successes and failures, connection errors and timeouts are counted alike
\* (edge_coverage.rs:236-252, feature_coverage.rs:438-452).  Where the verdicts are
\* finer on one side, the sums agree.  Supposes a hash without collisions.
CollectorsConcur ==
    LET edges(value)  == Copies(hash_edge("execution", value), edge_collector.edge_map)
        errors(value) == Copies(hash_edge("error_type", value), edge_collector.edge_map)
        features(f)   == Copies(f, feature_collector.feature_map)
    IN  ~panicked =>
          /\ edges("success") = features(<<"execution_success">>)
          /\ edges("failure") = features(<<"execution_failure">>)
          /\ errors("connection_error") = features(<<"error", "connection">>)
          /\ errors("timeout_error") = features(<<"error", "timeout">>)
          /\ errors("parse_error") + errors("network_error")
                + errors("protocol_error") + errors("unknown_error") =
                features(<<"error", "parse">>) + features(<<"error", "protocol">>)
                   + features(<<"error", "unknown">>)

\* The history is bounded, and consists of the latest snapshots, evenly spaced and in
\* order: the unsigned difference of two of their execution counts (mod.rs:241) never
\* underflows.
SnapshotsLatest ==
    LET taken == (IF panicked THEN execution_count - 1 ELSE execution_count) \div SnapshotEvery
        held  == Len(coverage_history)
    IN  /\ held <= HistoryCap
        /\ taken <= HistoryCap => held = taken
        /\ taken > HistoryCap => held > HistoryCap - HistoryDrop
        /\ \A k \in 1..held :
              coverage_history[k].execution_count = SnapshotEvery * (taken - held + k)

\* Four figures of the report and of the progress line tell nothing about progress,
\* whatever is executed: coverage is a hundred percent from the first execution on, and
\* so every rate of discovery or growth is zero, although mod.rs:176 says "Calculate new
\* edges discovered per execution window".  An edge enters the map of edges when it is
\* covered, so the share of the covered ones is no measure (edge_coverage.rs:254-316).
DiscoveryRateBlind ==
    /\ ~panicked => coverage_percentage = IF execution_count = 0 THEN 0 ELSE 100
    /\ ToSet(calculate_edge_discovery_rate) \subseteq {0}
    /\ calculate_discovery_rate = 0
    /\ calculate_coverage_growth_rate = 0
=============================================================================
