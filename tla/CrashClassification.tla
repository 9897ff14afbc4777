------------------------- MODULE CrashClassification -------------------------
(***************************************************************************)
(* How the fuzzer reads meaning into an error message.                     *)
(*                                                                         *)
(* An error message is abstracted to the set of phrases the classifiers    *)
(* look for in its lower-cased text; Option<String> is a set of at most    *)
(* one message, None being the empty set.  Every classifier of the         *)
(* program is a chain of `contains` tests, so it is an ordered table of    *)
(* rows <<phrases, verdict>>: the first row that matches decides.          *)
(***************************************************************************)
EXTENDS Naturals, Sequences

None == {}
Some(x) == {x}

\* The phrases searched for, and the phrases another phrase contains.
Phrases == {"connection", "connection refused", "connection reset",
            "connection timeout", "connection timed out", "timeout",
            "read timeout", "udp timeout", "udp error",
            "network", "socket", "protocol", "invalid", "malformed", "parse",
            "security", "overflow", "memory"}

Within(p) == CASE p \in {"connection refused", "connection reset",
                         "connection timed out"} -> {"connection"}
               [] p = "connection timeout" -> {"connection", "timeout"}
               [] p \in {"read timeout", "udp timeout"} -> {"timeout"}
               [] OTHER -> {}

\* A message cannot contain a phrase without the phrases inside it.
WellFormed(m) == m \subseteq Phrases /\ \A p \in m : Within(p) \subseteq m

Mentions(error, phrases) == \E m \in error : m \cap phrases # {}

\* The first row of a table that matches, or 0.
FirstRow(table, error) ==
    LET hits == {k \in DOMAIN table : Mentions(error, table[k][1])}
    IN  IF hits = {} THEN 0 ELSE CHOOSE k \in hits : \A j \in hits : k <= j

CrashTypes == {"ConnectionRefused", "ConnectionTimeout", "ExecutionTimeout",
               "NetworkError", "ProtocolViolation", "MalformedResponse",
               "ServerCrash", "Unknown"}

Severities == {"Low", "Medium", "High", "Critical"}

TypeTable ==
    << <<{"connection refused", "connection reset"},       "ConnectionRefused">>,
       <<{"connection timeout", "connection timed out"},   "ConnectionTimeout">>,
       <<{"network", "socket"},                            "NetworkError">>,
       <<{"protocol", "invalid"},                          "ProtocolViolation">>,
       <<{"malformed", "parse"},                           "MalformedResponse">> >>

\* slow: the execution took more than five seconds
classify_crash(error, slow) ==
    LET row == FirstRow(TypeTable, error)
    IN  IF row # 0 THEN TypeTable[row][2]
        ELSE IF error # None THEN "Unknown"
        ELSE IF slow THEN "ExecutionTimeout" ELSE "ServerCrash"

determine_severity(type, error, size) ==
    CASE type = "ServerCrash" -> IF size > 10000 THEN "Critical" ELSE "High"
      [] type = "MalformedResponse" -> "High"
      [] type = "ProtocolViolation" ->
            IF Mentions(error, {"security", "overflow", "memory"})
            THEN "Critical" ELSE "Medium"
      [] type \in {"ConnectionTimeout", "ExecutionTimeout", "NetworkError"} -> "Medium"
      [] type = "ConnectionRefused" -> "Low"
      [] type = "Unknown" -> IF size > 50000 THEN "High" ELSE "Medium"

(***************************************************************************)
(* The coverage collectors classify the same message by tables of their    *)
(* own: the edge collector into an edge, the feature collector into a      *)
(* feature.                                                                *)
(***************************************************************************)
EdgeErrorTable ==
    << <<{"connection"},       "connection_error">>,
       <<{"timeout"},          "timeout_error">>,
       <<{"parse", "invalid"}, "parse_error">>,
       <<{"network"},          "network_error">>,
       <<{"protocol"},         "protocol_error">> >>

classify_error(error) ==
    LET row == FirstRow(EdgeErrorTable, error)
    IN  IF row # 0 THEN EdgeErrorTable[row][2] ELSE "unknown_error"

FeatureErrorTable ==
    << <<{"connection"}, "connection">>, <<{"timeout"}, "timeout">>,
       <<{"parse"}, "parse">>, <<{"protocol"}, "protocol">> >>

\* Fault: the timeout is looked for before the connection.
categorize_error_timeouts_first(error) ==
    IF Mentions(error, {"timeout"}) THEN "timeout"
    ELSE LET row == FirstRow(FeatureErrorTable, error)
         IN  IF row # 0 THEN FeatureErrorTable[row][2] ELSE "unknown"

categorize_error(error) ==
    LET row == FirstRow(FeatureErrorTable, error)
    IN  IF row # 0 THEN FeatureErrorTable[row][2] ELSE "unknown"
=============================================================================
