------------------------------ MODULE Campaign -------------------------------
(***************************************************************************)
(* A fuzzing campaign (FuzzingEngine::run_fuzzing_campaign and             *)
(* save_results, src/src/fuzzer/mod.rs:61-160 and :392-435) and the runs   *)
(* that follow it in the same directory: test the target, seed the corpus, *)
(* then pick a case of it, mutate it, execute it, account for the result   *)
(* in the coverage collector, the crash detector and the corpus; after the *)
(* last iteration, and only then, write everything to ./fuzzing_results,   *)
(* one file after another.                                                 *)
(*                                                                         *)
(* The executors appear as the results they can return (Outcomes).         *)
(* Everything between two awaits is one step.  A run may be killed at any  *)
(* point, a write may fail, and some inputs make the mutator or the        *)
(* coverage collector panic; the files survive the process.                *)
(***************************************************************************)
EXTENDS CrashDetector, ExecutionResult

CONSTANTS
    Options,           \* protocol and coverage of a run, as given on the command line
    Seeds,             \* protocol -> what generate_initial_test_cases returns
    Outcomes,          \* protocol -> the results an execution may have
    Brittle,           \* protocol -> the cases whose mutation may panic
    Fragile,           \* cases whose coverage extraction panics
    CorpusCap,         \* 1000 in the code
    Faults,            \* which of "kill" and "write" may happen
    Iterations,        \* bound of the model: the iterations asked for
    MaxRuns            \* bound of the model: runs of the program

ASSUME CampaignAssumption ==
    /\ Options \subseteq Protocols \X BOOLEAN
    /\ CorpusCap \in Nat /\ Iterations \in Nat /\ MaxRuns \in Nat
    /\ Fragile \subseteq Inputs
    /\ \A p \in Protocols :
          /\ Seeds[p] \in Seq(Inputs) /\ Len(Seeds[p]) \in 1..CorpusCap
          /\ Brittle[p] \subseteq Inputs
          /\ \A r \in Outcomes[p] : /\ r.success \in BOOLEAN
                                    /\ ~r.success => r.error_message \in ErrorMessages \ {None}
                                    /\ UdpTimeout \in r.error_message => r.success

VARIABLES
    protocol_type, coverage_enabled,
    pc,                \* "testing", "seeding", "fuzzing", "executing", "saving" or an
                       \* end of the run
    iteration,         \* iterations completed
    test_cases,        \* the corpus
    mutated_case,      \* the case being executed, as an option
    total_executions,
    crashes_found,
    execution_count,   \* of the composite coverage collector
    unsaved,           \* the files save_results has still to write
    disk,              \* file -> [run, whole, holds]
    run,               \* history: the number of this run
    kept               \* history: [data, result] of every case pushed to the corpus

loopVars == <<iteration, test_cases, total_executions, crashes_found, execution_count, kept>>
saveVars == <<unsaved, disk>>
runVars  == <<run, protocol_type, coverage_enabled>>
vars == <<pc, mutated_case, loopVars, saveVars, runVars, detectorVars>>

Ends == {"done", "failed", "killed", "panicked"}

-----------------------------------------------------------------------------
(* The corpus *)

\* Fault: a full corpus evicts its newest case.
pushed_evicting_newest(cases, case) ==
    IF Len(cases) >= CorpusCap THEN Append(SubSeq(cases, 1, Len(cases) - 1), case)
    ELSE Append(cases, case)

\* push, then remove(0) if that made the corpus too large
pushed(cases, case) ==
    LET longer == Append(cases, case)
    IN  IF Len(longer) > CorpusCap THEN Tail(longer) ELSE longer

\* Fault: only answers are interesting.
is_interesting_answers(result) == result.response_data # None

\* Fault: a timeout over TCP is no more interesting than one over UDP.
is_interesting_no_timeouts(result) ==
    \/ result.response_data # None
    \/ result.error_message \notin {None, Some(UdpTimeout), Some(ReadTimeout)}

is_interesting(result) ==
    \/ result.response_data # None
    \/ result.error_message \notin {None, Some(UdpTimeout)}

-----------------------------------------------------------------------------
(* The files of a campaign, in the order they are written *)

File(kind, n) == <<kind, n>>

\* Fault: the metadata of a crash is written before its input.
crash_files_swapped(d) ==
    [j \in 1..(2 * Len(d.crashes)) |->
        IF j % 2 = 1 THEN File("metadata", j \div 2) ELSE File("input", (j \div 2) - 1)]

crash_files(d) ==
    [j \in 1..(2 * Len(d.crashes)) |->
        IF j % 2 = 1 THEN File("input", j \div 2) ELSE File("metadata", (j \div 2) - 1)]

\* coverage_report.json, coverage_report.txt, edge_coverage.bin, feature_coverage.bin
coverage_files == IF coverage_enabled THEN [j \in 1..4 |-> File("coverage", j)] ELSE << >>

\* Fault: the summary is written first.
save_plan_summary_first(d) ==
    <<File("summary", 0)>> \o crash_files(d)
        \o <<File("crash_summary", 0), File("crash_report", 0)>> \o coverage_files

save_plan(d) ==
    crash_files(d) \o <<File("crash_summary", 0), File("crash_report", 0)>>
        \o coverage_files \o <<File("summary", 0)>>

\* What a file is written from.
content(file) ==
    CASE file[1] = "input"    -> detector.crashes[file[2] + 1].input_data
      [] file[1] = "metadata" -> detector.crashes[file[2] + 1]
      [] file[1] \in {"crash_summary", "crash_report"} -> Len(detector.crashes)
      [] file[1] = "coverage" -> execution_count
      [] file[1] = "summary"  -> [executions |-> total_executions, crashes |-> crashes_found]

\* whole is false for a file that was created but not written to the end.
written(file, whole) ==
    [f \in DOMAIN disk \cup {file} |->
        IF f = file THEN [run |-> run, whole |-> whole, holds |-> content(file)] ELSE disk[f]]

-----------------------------------------------------------------------------
Init == /\ \E option \in Options : protocol_type = option[1] /\ coverage_enabled = option[2]
        /\ pc = "testing" /\ iteration = 0 /\ test_cases = << >> /\ mutated_case = None
        /\ total_executions = 0 /\ crashes_found = 0 /\ execution_count = 0
        /\ kept = << >> /\ unsaved = << >> /\ DetectorInit
        /\ disk = [f \in {} |-> None] /\ run = 1

\* Whatever the test of the target comes to, under its timeout, the campaign goes on.
TestConnectivity ==
    /\ pc = "testing"
    /\ pc' = "seeding"
    /\ UNCHANGED <<mutated_case, loopVars, saveVars, runVars, detectorVars>>

SeedCorpus ==
    /\ pc = "seeding"
    /\ pc' = "fuzzing"
    /\ test_cases' = Seeds[protocol_type]
    /\ UNCHANGED <<mutated_case, iteration, total_executions, crashes_found, execution_count, kept,
                   saveVars, runVars, detectorVars>>

base_case == test_cases[(iteration % Len(test_cases)) + 1]

\* Up to the first await of the iteration: the mutation depends on the clock.
Mutate(case) ==
    /\ pc = "fuzzing" /\ iteration < Iterations
    /\ mutated_case' = Some(case)
    /\ pc' = "executing"
    /\ UNCHANGED <<loopVars, saveVars, runVars, detectorVars>>

MutationPanics ==
    /\ pc = "fuzzing" /\ iteration < Iterations
    /\ base_case \in Brittle[protocol_type]
    /\ pc' = "panicked"
    /\ UNCHANGED <<mutated_case, loopVars, saveVars, runVars, detectorVars>>

\* Fault: an execution that failed is not counted.
DetectUncounted(case, result) ==
    IF result.success THEN UNCHANGED <<detectorVars, crashes_found>>
    ELSE /\ detector' = record_crash(detector, case, result.error_message, FALSE, protocol_type)
         /\ reported' = reported \cup {<<case, result.error_message>>}
         /\ UNCHANGED crashes_found

\* record_crash, then crash_count, under one lock
Detect(case, result) ==
    IF result.success THEN UNCHANGED <<detectorVars, crashes_found>>
    ELSE /\ detector' = crash_count(record_crash(detector, case, result.error_message,
                                                 FALSE, protocol_type))
         /\ reported' = reported \cup {<<case, result.error_message>>}
         /\ crashes_found' = Len(detector'.crashes)

Grow(case, result) ==
    IF is_interesting(result)
    THEN /\ test_cases' = pushed(test_cases, case)
         /\ kept' = Append(kept, [data |-> case, result |-> result])
    ELSE UNCHANGED <<test_cases, kept>>

\* Everything after the await of the execution is one step.
Account(case, result) ==
    /\ pc = "executing" /\ case \in mutated_case /\ case \notin Fragile
    /\ execution_count' = execution_count + 1
    /\ total_executions' = total_executions + 1
    /\ Detect(case, result)
    /\ Grow(case, result)
    /\ iteration' = iteration + 1
    /\ mutated_case' = None
    /\ pc' = "fuzzing"
    /\ UNCHANGED <<saveVars, runVars>>

CoveragePanics ==
    /\ pc = "executing" /\ mutated_case \cap Fragile # {}
    /\ execution_count' = execution_count + 1
    /\ pc' = "panicked"
    /\ UNCHANGED <<mutated_case, iteration, test_cases, total_executions, crashes_found, kept,
                   saveVars, runVars, detectorVars>>

StartSaving ==
    /\ pc = "fuzzing" /\ iteration = Iterations
    /\ pc' = "saving"
    /\ unsaved' = save_plan(detector)
    /\ UNCHANGED <<mutated_case, loopVars, disk, runVars, detectorVars>>

\* Fault: the same file is written for ever.
SaveFileAgain ==
    /\ pc = "saving" /\ unsaved # << >>
    /\ disk' = written(Head(unsaved), TRUE)
    /\ UNCHANGED <<pc, unsaved, mutated_case, loopVars, runVars, detectorVars>>

SaveFile ==
    /\ pc = "saving" /\ unsaved # << >>
    /\ disk' = written(Head(unsaved), TRUE)
    /\ unsaved' = Tail(unsaved)
    /\ UNCHANGED <<pc, mutated_case, loopVars, runVars, detectorVars>>

Finish ==
    /\ pc = "saving" /\ unsaved = << >>
    /\ pc' = "done"
    /\ UNCHANGED <<mutated_case, loopVars, saveVars, runVars, detectorVars>>

\* The current file is untouched, or created and incomplete.
Interrupted == disk' \in {disk} \cup {written(f, FALSE) : f \in {Head(unsaved)}}

\* The first write that fails ends the campaign (the ? of save_crashes).
WriteFails ==
    /\ "write" \in Faults
    /\ pc = "saving" /\ unsaved # << >>
    /\ Interrupted
    /\ pc' = "failed"
    /\ UNCHANGED <<unsaved, mutated_case, loopVars, runVars, detectorVars>>

Kill ==
    /\ "kill" \in Faults
    /\ pc \notin Ends
    /\ IF pc = "saving" /\ unsaved # << >> THEN Interrupted ELSE UNCHANGED disk
    /\ pc' = "killed"
    /\ UNCHANGED <<unsaved, mutated_case, loopVars, runVars, detectorVars>>

\* A new engine in the same directory.
RunAgain ==
    /\ pc \in Ends /\ run < MaxRuns
    /\ run' = run + 1
    /\ \E option \in Options : protocol_type' = option[1] /\ coverage_enabled' = option[2]
    /\ pc' = "testing" /\ iteration' = 0 /\ test_cases' = << >> /\ mutated_case' = None
    /\ total_executions' = 0 /\ crashes_found' = 0 /\ execution_count' = 0
    /\ kept' = << >> /\ unsaved' = << >>
    /\ detector' = NewDetector /\ reported' = {}
    /\ UNCHANGED disk

\* What the campaign does by itself, ...
Advance == \/ TestConnectivity \/ SeedCorpus
           \/ \E case \in Inputs : Mutate(case)
           \/ MutationPanics
           \/ StartSaving \/ SaveFile \/ Finish

\* ... and when an execution returns.
Returns == \/ \E case \in mutated_case, result \in Outcomes[protocol_type] : Account(case, result)
           \/ CoveragePanics

Engine == Advance \/ Returns

Next == Engine \/ WriteFails \/ Kill \/ RunAgain

Spec == Init /\ [][Next]_vars

\* The task is polled.  That an execution returns is not up to it: write_all waits for the
\* target without a timeout (mod.rs:270).  Nobody has to kill a run or start another one.
FairSpec == Spec /\ WF_vars(Advance)

\* The same if every execution returns: always over UDP, and over TCP if the inputs fit
\* the socket buffers (UdpExecution, TcpCampaign).
PromptSpec == FairSpec /\ WF_vars(Returns)

-----------------------------------------------------------------------------
\* Type invariant of the campaign.
TypeOK ==
    /\ pc \in {"testing", "seeding", "fuzzing", "executing", "saving"} \cup Ends
    /\ iteration \in 0..Iterations /\ test_cases \in Seq(Inputs)
    /\ pc = "executing" => iteration < Iterations /\ \E case \in Inputs : mutated_case = Some(case)
    /\ total_executions \in Nat /\ crashes_found \in Nat /\ execution_count \in Nat
    /\ <<protocol_type, coverage_enabled>> \in Options
    /\ kept \in Seq([data: Inputs, result: Outcomes[protocol_type]])
    /\ DetectorTypeOK

\* The three counts of executions agree, and the crash count the campaign reports
\* is the length of the detector's list (mod.rs:92-105): summary.txt, the coverage
\* report and crash_summary.json then tell one story.
CountsAgree ==
    /\ total_executions = iteration
    /\ execution_count = IF pc = "panicked" /\ mutated_case # None
                         THEN iteration + 1 ELSE iteration
    /\ crashes_found = Len(detector.crashes)
    /\ ~has_new_crashes(detector)

\* The corpus is the seeds followed by every case kept, less its oldest members:
\* eviction takes the oldest and only when the bound would be exceeded, and never
\* empties the corpus, so that iteration % len is defined (mod.rs:82 and :110-117).
CorpusIsLatest ==
    LET all  == Seeds[protocol_type] \o [k \in DOMAIN kept |-> kept[k].data]
        size == IF Len(all) <= CorpusCap THEN Len(all) ELSE CorpusCap
    IN  pc \in {"fuzzing", "executing", "saving"} =>
           /\ size > 0
           /\ test_cases = SubSeq(all, Len(all) - size + 1, Len(all))

\* Every recorded crash was also kept as a case to mutate further: a failure is
\* always interesting (mod.rs:97-111 and :386-390).
CrashesKept ==
    \A c \in DOMAIN detector.crashes : \E k \in DOMAIN kept :
        /\ kept[k].data = detector.crashes[c].input_data
        /\ kept[k].result.error_message = detector.crashes[c].error_message

Intact(file, r) == file \in DOMAIN disk /\ disk[file].run = r /\ disk[file].whole

\* summary.txt is written last and so vouches for the rest: if the latest thing a
\* run wrote is a whole summary.txt, every crash it counts is on disk with its
\* metadata, both whole and of that run, and crash_summary.json has the same count
\* (mod.rs:392-435, crash_detector.rs:157-176).
SummaryVouches ==
    LET summary == File("summary", 0)
    IN  \A r \in 1..run :
          (Intact(summary, r) /\ \A f \in DOMAIN disk : disk[f].run <= r) =>
             /\ \A n \in 0..(disk[summary].holds.crashes - 1) :
                   /\ Intact(File("input", n), r) /\ Intact(File("metadata", n), r)
                   /\ disk[File("metadata", n)].holds.input_data = disk[File("input", n)].holds
             /\ Intact(File("crash_summary", 0), r) /\ Intact(File("crash_report", 0), r)
             /\ disk[File("crash_summary", 0)].holds = disk[summary].holds.crashes
             /\ (r = run /\ coverage_enabled) => \A n \in 1..4 :
                   /\ Intact(File("coverage", n), r)
                   /\ disk[File("coverage", n)].holds = disk[summary].holds.executions

\* Crash metadata never stands for an input that is not there: its input file was
\* whole before the metadata was begun, and can only have been overwritten by a
\* later run (crash_detector.rs:158-165).
MetadataFollowsInput ==
    \A f \in DOMAIN disk : f[1] = "metadata" =>
        LET i == File("input", f[2])
        IN  i \in DOMAIN disk /\ (Intact(i, disk[f].run) \/ disk[i].run > disk[f].run)

\* Every run comes to an end, unless an execution never does: nothing else keeps the loop
\* or the saving from going on (mod.rs:81-157, and :270 for the exception).
CampaignEnds == []<>(pc \in Ends) \/ <>[](pc = "executing")

-----------------------------------------------------------------------------
\* What README.md:181 promises, "When crashes are discovered, detailed reports are
\* generated": a crash on the list gets its input onto the disk.
CrashReported ==
    (detector.crashes # << >>) ~> (\E f \in DOMAIN disk : f[1] = "input" /\ disk[f].whole)
=============================================================================
