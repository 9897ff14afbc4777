----------------------------- MODULE TcpCampaign ------------------------------
(***************************************************************************)
(* A campaign over TCP with its executor: the loop of Campaign, whose      *)
(* executions are those of TcpExecution instead of a result out of the     *)
(* blue (run_fuzzing_campaign and execute_test_case,                       *)
(* src/src/fuzzer/mod.rs:61-160 and :253-327), against a target that dies  *)
(* of some cases.  One run, not killed, all of whose writes succeed.       *)
(*                                                                         *)
(* The executor returns and the result is accounted for in one step: there *)
(* is no await between the two.                                            *)
(***************************************************************************)
EXTENDS TcpExecution

CONSTANTS Hashes, InputHash, InputSize, Seed, Fragile, CorpusCap

ASSUME CompositionAssumption ==
    /\ InputHash \in [Inputs -> Hashes] /\ InputSize \in [Inputs -> Nat]
    /\ Seed \in Inputs /\ Fragile \subseteq Inputs /\ CorpusCap \in Nat \ {0}

VARIABLES
    protocol_type, coverage_enabled, phase, iteration, test_cases, mutated_case,
    total_executions, crashes_found, execution_count, unsaved, disk, run, kept,
    detector, reported

\* The parameters of the loop: one protocol, the results of the executor for its
\* outcomes, and a mutation that never panics.
TheProtocol == {"MQTT"}
TheSeeds    == [p \in TheProtocol |-> <<Seed>>]
TheOutcomes == [p \in TheProtocol |-> TcpResults]
NeverPanics == [p \in TheProtocol |-> {}]
TheMessages == {r.error_message : r \in TcpResults}

C == INSTANCE Campaign WITH
        pc            <- phase,
        Protocols     <- TheProtocol,
        Options       <- TheProtocol \X {TRUE},
        Seeds         <- TheSeeds,
        Outcomes      <- TheOutcomes,
        Brittle       <- NeverPanics,
        ErrorMessages <- TheMessages,
        Faults        <- {},
        Iterations    <- MaxExecutions,
        MaxRuns       <- 1

campaignVars ==
    <<protocol_type, coverage_enabled, phase, iteration, test_cases, mutated_case,
      total_executions, crashes_found, execution_count, unsaved, disk, run, kept,
      detector, reported>>
compositionVars == <<vars, campaignVars>>

CampaignInit == Init /\ C!Init

-----------------------------------------------------------------------------
Submit(case) == C!Mutate(case) /\ Begin(case)

Execute ==
    /\ Engine
    /\ IF pc' = "ready" THEN C!Account(input, results'[current]) \/ C!CoveragePanics
       ELSE UNCHANGED campaignVars

\* The connectivity test opens a connection and drops it: the target sees no data.
Surround ==
    /\ C!TestConnectivity \/ C!SeedCorpus \/ C!StartSaving \/ C!SaveFile \/ C!Finish
    /\ UNCHANGED vars

Process == (\E case \in Inputs : Submit(case)) \/ Execute \/ Surround

CampaignNext == Process \/ (Target /\ UNCHANGED campaignVars)

\* As in TcpExecution: the runtime polls the task, its timers fire, and nothing
\* makes the target do anything.
CampaignSpec == CampaignInit /\ [][CampaignNext]_compositionVars /\ WF_compositionVars(Process)

-----------------------------------------------------------------------------
\* The detector knows a crash of this input.
Listed(i) == \E c \in DOMAIN detector.crashes : detector.crashes[c].input_hash = InputHash[i]

\* A target that is down does not go unnoticed: every execution begun since it went down
\* and accounted for has failed, and its input is on the crash list, whatever brought the
\* target down and however often it was restarted before (mod.rs:95-107 and :314-325).
DeathReported ==
    server = "down" =>
        \A n \in 1..iteration : n > down_since => ~results[n].success /\ Listed(started[n])

\* What is on the crash list need not have killed anything, but a case
\* that did, whatever its execution returned and however long after it the target died,
\* was pushed onto the corpus once accounted for (mod.rs:109-117 and :386-390).  From
\* there it may have been evicted again.
KillersKept ==
    \A n \in kills : n <= iteration =>
        n \in DOMAIN kept /\ kept[n].data = started[n]

\* The campaign over its executor behaves as Campaign says, with TcpResults for its
\* outcomes, and its executions end, so that it does, too.
ImplementsCampaign == C!PromptSpec

=============================================================================
