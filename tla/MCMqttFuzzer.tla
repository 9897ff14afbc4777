---------------------------- MODULE MCMqttFuzzer -----------------------------
EXTENDS MqttFuzzer

\* An empty topic, as in the corpus of the code, and a payload that makes a PUBLISH
\* packet take one byte of remaining length or two, depending on its packet identifier.
Empty   == {<< >>}
Payload == {[i \in 1..125 |-> 97]}
Topic   == <<116, 49>>
=============================================================================
