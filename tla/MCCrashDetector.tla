--------------------------- MODULE MCCrashDetector ----------------------------
(* Three inputs, two of which collide under the hash; the sizes straddle the  *)
(* two thresholds of determine_severity.                                      *)
EXTENDS CrashDetector

CONSTANTS small, large, huge, h1, h2, DNS, MQTT

MCInputs    == {small, large, huge}
MCHashes    == {h1, h2}
MCInputHash == [i \in MCInputs |-> IF i = huge THEN h2 ELSE h1]
MCInputSize == [i \in MCInputs |-> CASE i = small -> 40 [] i = large -> 10001
                                     [] i = huge -> 50001]
MCProtocols == {DNS, MQTT}
MCErrors       == {None, Some({"connection", "connection refused"}),
                         Some({"protocol", "overflow"})}
=============================================================================
