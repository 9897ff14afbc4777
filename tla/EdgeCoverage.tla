----------------------------- MODULE EdgeCoverage -----------------------------
(***************************************************************************)
(* The edge collector (src/src/coverage/edge_coverage.rs): the edges of an *)
(* execution are hashes of what can be seen of its input, its outcome and  *)
(* its response; their sequence is the path.  The maps from an edge and    *)
(* from a path to its count are bags.                                      *)
(***************************************************************************)
EXTENDS CrashClassification, SequencesExt, RepeatedBytes

CONSTANTS
    hash_edge(_, _),       \* the hash of an edge type and some bytes; it may collide
    entropy_category(_)    \* the Shannon entropy of a packet, in five classes

\* The name of the range a number falls into, the ranges given by their last members.
Category(n, lasts, names) == names[1 + Cardinality({k \in DOMAIN lasts : n > lasts[k]})]

categorize_size(n) ==
    IF n = 0 THEN "empty"
    ELSE Category(n, <<10, 100, 1000, 10000>>, <<"tiny", "small", "medium", "large", "huge">>)

categorize_timing(ms) ==
    Category(ms, <<10, 100, 1000, 5000>>, <<"very_fast", "fast", "medium", "slow", "very_slow">>)

When(condition, element) == IF condition THEN <<element>> ELSE << >>

Prefix(data, n) == SubSeq(data, 1, n)

\* Of equally common bytes max_by_key returns the last one.
most_common_byte(data) ==
    LET count(b) == Cardinality({k \in DOMAIN data : data[k] = b})
    IN  Max({b \in ToSet(data) : \A c \in ToSet(data) : count(b) >= count(c)})

\* In the order of the blocks.
repeated_patterns(data) ==
    LET starts == {k \in 1..Len(data) : RepeatsAt(data, k, 4)}
        nth(n) == CHOOSE k \in starts : Cardinality({j \in starts : j <= k}) = n
    IN  [n \in 1..Cardinality(starts) |->
            hash_edge("repeated_pattern", Block(data, nth(n), 4))]

extract_input_edges(data) ==
    IF data = << >> THEN <<hash_edge("empty_input", 0)>>
    ELSE <<hash_edge("input_size", categorize_size(Len(data))),
           hash_edge("first_byte", Prefix(data, 1))>>
         \o When(Len(data) >= 2, hash_edge("header_u16", Prefix(data, 2)))
         \o When(Len(data) >= 4, hash_edge("header_u32", Prefix(data, 4)))
         \o <<hash_edge("most_common_byte", most_common_byte(data)),
              hash_edge("entropy", entropy_category(data))>>
         \o (IF Len(data) > 10 THEN repeated_patterns(data) ELSE << >>)

extract_execution_edges(result) ==
    <<hash_edge("execution", IF result.success THEN "success" ELSE "failure"),
      hash_edge("execution_time", categorize_timing(result.execution_time_ms))>>
    \o When(result.error_message # None,
            hash_edge("error_type", classify_error(result.error_message)))

IsAscii(data) == \A k \in DOMAIN data : data[k] < 128

response_protocol(data) ==
    IF IsPrefix(<<72, 84, 84, 80>>, data) THEN "http"
    ELSE IF IsPrefix(<<0, 0>>, data) \/ ~IsAscii(data) THEN "binary" ELSE "ascii"

extract_response_edges(data) ==
    IF data = << >> THEN <<hash_edge("response", "empty")>>
    ELSE <<hash_edge("response_size", categorize_size(Len(data))),
           hash_edge("response_first_byte", Prefix(data, 1))>>
         \o When(Len(data) >= 2, hash_edge("response_header", Prefix(data, 2)))
         \o <<hash_edge("response_protocol", response_protocol(data))>>

TheResponse(result) == CHOOSE r \in result.response_data : TRUE

extract_edges(data, result) ==
    extract_input_edges(data) \o extract_execution_edges(result)
        \o (IF result.response_data = None THEN << >>
            ELSE extract_response_edges(TheResponse(result)))

-----------------------------------------------------------------------------
NewEdgeCollector ==
    [edge_map |-> EmptyBag, unique_paths |-> {}, path_frequencies |-> EmptyBag,
     total_executions |-> 0, new_coverage_found |-> FALSE, last_coverage_count |-> 0]

\* Fault: an edge is counted once per execution, however often it is on the path.
edge_record_once(c, path) ==
    [edge_map            |-> c.edge_map (+) SetToBag(ToSet(path)),
     unique_paths        |-> c.unique_paths \cup {path},
     path_frequencies    |-> c.path_frequencies (+) SetToBag({path}),
     total_executions    |-> c.total_executions + 1,
     new_coverage_found  |-> c.new_coverage_found \/ path \notin c.unique_paths,
     last_coverage_count |-> c.last_coverage_count]

\* Fault: only new paths are counted.
edge_record_new_paths(c, path) ==
    [edge_map            |-> c.edge_map (+) ToBag(path),
     unique_paths        |-> c.unique_paths \cup {path},
     path_frequencies    |-> IF path \in c.unique_paths THEN c.path_frequencies
                             ELSE c.path_frequencies (+) SetToBag({path}),
     total_executions    |-> c.total_executions + 1,
     new_coverage_found  |-> c.new_coverage_found \/ path \notin c.unique_paths,
     last_coverage_count |-> c.last_coverage_count]

\* A path is never empty; a new edge is always on a new path.
edge_record(c, path) ==
    [edge_map            |-> c.edge_map (+) ToBag(path),
     unique_paths        |-> c.unique_paths \cup {path},
     path_frequencies    |-> c.path_frequencies (+) SetToBag({path}),
     total_executions    |-> c.total_executions + 1,
     new_coverage_found  |-> c.new_coverage_found \/ path \notin c.unique_paths,
     last_coverage_count |-> c.last_coverage_count]

\* Fault: the share of a map of fixed size.
Percentage_of_fixed(map) == (100 * Cardinality({x \in DOMAIN map : map[x] > 0})) \div 256

\* Covered edges are those of the map with a positive count.
Percentage(map) ==
    IF DOMAIN map = {} THEN 0
    ELSE (100 * Cardinality({x \in DOMAIN map : map[x] > 0})) \div Cardinality(DOMAIN map)
=============================================================================
