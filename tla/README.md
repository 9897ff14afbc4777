# Verification of the network protocol fuzzer

TLA+ models of the fuzzer under `src/`, checked with TLC, and theorems about the
crash detector, the campaign and its files, the TCP and UDP executors, the coverage collectors,
the MQTT and DNS fuzzers, the load generator and the rate limiter proved with TLAPS. Paths such as `fuzzer/mod.rs` are below `src/src/`.

1. The system · 2. The modules · 3. The runs and their bounds · 4. Fairness ·
5. Proofs · 6. Findings and other divergences · 7. What is left out · 8. Plan

## 1. The system

The program (`main.rs`) parses a command line and, for `fuzz`, builds one
`FuzzingEngine` and awaits one campaign. Everything of a campaign happens in one
task: there are no worker threads (`workers` is parsed and not used), no shared
memory but a `Mutex` around the detector that only this task locks. What is
concurrent is the *environment*: the target, two kernels, the network, the clock,
the file system and whoever kills the process.

| component | state | operations | talks to |
|---|---|---|---|
| crash detector, `fuzzer/crash_detector.rs` | list of crashes, set of hashes, statistics per protocol, last count | `record_crash`, `crash_count`, `has_new_crashes`, `get_high_severity_crashes`, `save_crashes` | called by the campaign |
| execution over TCP, `fuzzer/mod.rs:263-327` | one stream | connect, write all, read, three ways to time out or not | kernel, target |
| execution over UDP, `fuzzer/mod.rs:329-384` | one socket | bind, send, receive | kernel, network, target |
| campaign, `fuzzer/mod.rs:61-160, 386-435` | corpus, iteration, counts | mutate, execute, account, save | all of the above and below |
| composite coverage, `coverage/mod.rs` | two collectors, executions, history of snapshots | `record_execution`, `take_snapshot`, rates, report, reset | called by the campaign |
| edge coverage, `coverage/edge_coverage.rs` | hits per edge, paths and their frequencies, a flag | extract edges, record | composite |
| feature coverage, `coverage/feature_coverage.rs` | hits per feature, a flag | extract features, record | composite, protocol fuzzers |
| MQTT fuzzer, `protocols/mqtt.rs` | none | generate, make malformed, mutate, validate, features | campaign, feature coverage |
| DNS fuzzer, `protocols/dns.rs` | none | the same, with an external builder and parser | campaign, feature coverage |
| common mutations, `protocols/mod.rs` | none | bit flips, insertion, deletion, arithmetic | both fuzzers |
| network utilities, `utils/network.rs` | per worker the results of its requests | load generator, packet analysis | nobody in the program |
| configuration, rate limiter, statistics, `utils/mod.rs` | tokens; running statistics | | nobody |
| logging, reports, `utils/logging.rs`, `utils/reporting.rs` | none | formatting | nobody |
| LibAFL executor and mutators, `fuzzer/network_executor.rs`, `fuzzer/custom_mutators.rs` | | | not in the build: no `mod` names them |

One iteration: take `test_cases[iteration % len]`, mutate it with a seed drawn from
the clock, execute it (the only long await), give input and result to the coverage
collector; if the execution failed, to the detector under its lock; if the result is
interesting, push the input onto the corpus and evict the oldest beyond 1000. After
the last iteration, and only then, everything is written to `./fuzzing_results`.

What is hard, and what makes each part correct:

* **Attribution across executions.** The target works at its own pace. It may never have been
  up, read and die after the engine has moved on, stop, restart, or answer late. Correct: an
  answer is not credited to another case than the one it answers, unless they share a port; a case
  that got no connection is not to blame; a target that is down shows; an execution ends.
* **Dedup.** A report is dropped because of a hash set kept beside the list, and
  statistics are kept incrementally per protocol while `unique_crashes` is the size of
  the whole set. Correct: index, list and counters agree after any reports, the
  first report of a hash survives unaltered.
* **Bookkeeping of the loop.** Three counts of executions, two of crashes, a bounded
  queue with a cursor moving over it, two independent verdicts on one result. Correct:
  counts agree; the queue is its latest pushes and never empty; a crash is also kept.
* **Files.** Many, written one after another without fsync or rename, over those of
  earlier runs. Correct: what can be concluded from the files that are there.
* **Coverage.** The same result is classified by two chains of substring tests (and
  by a third, the detector's, with classes of its own);
  edges are hashed; a panic may separate the two collectors. Correct: verdicts and
  counts agree, hits are those of the paths, the history is the latest snapshots.
* **The load generator.** Concurrent workers with clocks of their own, joined in
  another order than they end in. Correct: the report is complete, the rate is kept
  whatever is late, and there is a report.
* **The rate limiter.** Tokens refilled from elapsed time. Correct: over no interval is
  more granted than a bucket and the refill.
* **Byte surgery.** Patterns and mutations index into packets which others have
  shortened, and many cases are mutations of mutations. Correct: no index is out of
  bounds; what is generated is valid; what must survive the patterns survives.

## 2. The modules

| module | models | uses |
|---|---|---|
| `CrashClassification` | the tables of `classify_crash` and `determine_severity` | |
| `CrashDetector` | the detector: one action for `record_crash`, one for `crash_count` | CrashClassification |
| `CrashLog` | abstract specification: a log from a hash to its first report | |
| `ExecutionResult` | the results of the executors and the classes of error texts | |
| `TcpExecution` | `execute_tcp_test_case` against target and kernels | ExecutionResult |
| `UdpExecution` | `execute_udp_test_case` against network and target | ExecutionResult |
| `UdpExecutionProofs` | theorems about it | UdpExecution |
| `Campaign` | `run_fuzzing_campaign` with the connectivity test and the seeding, `is_interesting`, `save_results`, `save_crashes`, several runs | CrashDetector, ExecutionResult |
| `CampaignProofs` | theorems about the detector and the campaign | Campaign |
| `TcpCampaign` | the campaign over its TCP executor, shown to implement `Campaign` | TcpExecution, and Campaign by INSTANCE |
| `TcpCampaignProofs` | theorems about the executor, and about the composition | TcpCampaign, and CampaignProofs by INSTANCE |
| `RepeatedBytes` | `has_repeated_bytes`, as a definition of what it returns | |
| `RepeatedBytesScan` | the same function as the loop it is | RepeatedBytes |
| `MqttPacket` | `validate_packet` and the accessors of an MQTT packet | |
| `EdgeCoverage` | extraction of edges, the edge collector | CrashClassification, RepeatedBytes |
| `FeatureCoverage` | extraction of features, the feature collector | EdgeCoverage, and MqttPacket by INSTANCE |
| `Coverage` | the composite collector | FeatureCoverage |
| `CoverageProofs` | theorems about it, and about the search for repeated bytes | Coverage, RepeatedBytesScan |
| `PacketMutations` | the common mutations | |
| `PacketAnalyzer` | which protocol the packet analyzer takes a packet for, and what it finds repetitive | |
| `PacketFuzzing` | the life of a test case: generated, made malformed, mutated | |
| `MqttFuzzer`, `DnsFuzzer` | the packets, patterns and mutations of a protocol | PacketMutations, PacketAnalyzer, and PacketFuzzing by INSTANCE |
| `PacketProofs` | lemmas about bytes, sequences of them and the common mutations | PacketMutations |
| `MqttFuzzerProofs`, `DnsFuzzerProofs` | theorems about the packets of a protocol | MqttFuzzer or DnsFuzzer, PacketProofs |
| `LoadGenerator` | `generate_tcp_load`: the workers and the caller that joins them | |
| `LoadGeneratorProofs` | theorems about it and about the rate limiter | LoadGenerator, and RateLimiter by INSTANCE |
| `RateLimiter` | `try_acquire` and `refill` | |

`MC*` modules give the constants their values. Composition: `Campaign` contains the
whole detector (its actions call `record_crash` and `crash_count`, in that order, as
the code does) and sees the executors as the set of results they return; `TcpCampaign`
replaces that set by the executor itself and is shown to implement `Campaign`; `Coverage`
contains both collectors; the protocol fuzzers instantiate `PacketFuzzing`.

Correspondence of state and actions:

* **CrashDetector.** `detector` is the struct: `crashes`, `crash_hashes`,
  `protocol_stats`, `last_crash_count`. An error message is abstracted to the *set of
  the substrings the code looks for* that it contains, as an option; execution time to
  whether it exceeds a threshold (`slow`). `reported` is history. Sizes are kept: severity
  depends on them.
* **TcpExecution.** `pc` is the await the function is at. `Connect`, `ConnectFails`,
  `ConnectTimesOut`; `WriteChunk`, `WriteFails`, `WriteEnds`; `ReadAnswer`, `ReadEnd`,
  `ReadFails`, `ReadTimesOut` are its ways on. A connect may fail, and time out, in any state of
  the target, as any error takes the same branch (`fuzzer/mod.rs:314`). `conn` is the connection as the engine's
  kernel sees it (open, FIN received, reset, closed after a reset was consumed);
  `buffered` what both kernels hold unread. Dropping the stream does not take back what
  the kernel has accepted: `Return` hands such bytes to the target, which may still die
  of them (`deadly`).
* **The target**, of either executor, is up or down at first (the campaign goes on when the
  connectivity test fails, `fuzzer/mod.rs:171`), dies of a fatal input it has read (`TargetDies`), stops for
  reasons of its own (`TargetStops`), and is started again. `kills` and `down_since`, the number of
  executions started when it last went down, are history.
* **UdpExecution.** Datagrams are records with a port; `Lose`, and the alternatives that leave a copy behind,
  lose and duplicate, delay and reorder them. The target reads a request (`TargetTakes`) and answers
  it when and as often as it likes (`TargetAnswers`); `Bind` takes any port; others may send to any
  (`ForeignSends`), and so may the target, in answer to the datagram of the connectivity test. `bound`
  is history: the ports each execution has had.
* **Campaign.** Each run is one pass through `pc`; everything between two awaits is one
  action. `Account` is all of the loop body after the execution. `SaveFile` writes one
  file; `Kill` and `WriteFails` leave the current file untouched or truncated;
  `MutationPanics` and `CoveragePanics` are the two panics found in the code.
  `RunAgain` starts a new process in the same directory.
* **TcpCampaign.** The variables of both; `phase` is the campaign's `pc`. `Submit` is the loop
  body up to the await of the execution (`Mutate` and `Begin`), `Execute` a step of the
  executor, which when it returns is also `Account` or `CoveragePanics`: no await
  separates the two. `Surround` is everything before and after the loop. One run, not killed.
* **Coverage.** Maps of hits are bags. `RecordExecution` is `record_execution` with its
  snapshot and trimming, `RecordPanics` the case where `has_repeated_bytes` panics
  between the two collectors, `ResetAll` is `reset_coverage` on all three. The rates of
  the report are operators over the history, in thousandths.
* **MqttFuzzer, DnsFuzzer.** Packets are sequences of bytes; each pattern is an operator
  from a packet to the set of packets the draws allow. A panic is the result `Panic`.
  Indices are the code's, zero-based (`With(p, i, b)` is `p[i] = b` and yields `Panic`
  when `i` is not in the packet).
* **LoadGenerator.** `pc[w]` is the await worker `w` is at, `since[w]` when it got there. A
  connect and a write answer, a sleeper wakes and a spawned task starts within `MaxWait` ticks;
  `Stall` is the target that stops reading. `Join` takes the workers in the order of
  their spawning. A task cannot panic here, so the branch that drops its results is not taken.
* **RateLimiter.** Time is measured in the tokens it refills; `Mark` fixes the start of an
  arbitrary interval, so that a property of all intervals is an invariant.

## 3. The runs and their bounds

Passing runs:

| run | shows | bounds |
|---|---|---|
| `CrashDetector` | type, index, accounting, counters, refinement of `CrashLog` | 3 inputs, 2 of them colliding; sizes on both sides of both thresholds; 3 messages; 2 protocols; no bound on the reports: the state space closes, and deadlock is checked |
| `TcpCampaign` | `ConnectErrorsInnocent`, `DeathReported`, `KillersKept`, `ImplementsCampaign` | 2 executions of 3 inputs, 2 starts of a target that is down, buffers of 2 chunks, inputs that fit, corpus of 2 |
| `UdpExecution` | `StrayAnswersSharePort`, `FailedInputNotTaken`, `ExecutionEnds` | 2 executions, 1 start, 2 ports |
| `Campaign` | counts, corpus, files, end unless an execution does not | 2 iterations, 2 runs, corpus of 2 |
| `Coverage` | counts, hits, verdicts on errors, history, four blind figures | 8 executions of 7 MQTT or 5 DNS packets and results under a colliding hash; snapshot every 2, history of 3 cut by 2 |
| `LoadGenerator` | `ReportCovers`, `RateKept`, `LoadEnds` | 2 workers, 8 ticks, lateness of 1 tick |
| `RepeatedBytes` | the loop answers what the definition says, and panics where it says | all 9841 packets of up to 8 bytes over 3 values |
| `MqttFuzzer` | `GeneratedValid`, `ValidLooksMqtt`, `OversizedStaysInvalid`, `PanicTakesThreeMutations`, `ProtocolNameNeverHit` | 3 patterns and mutations together; 2 bytes, 2 draws, 1 word, 1 difference |
| `DnsFuzzer` | `IndicesInBounds`, `HeaderSurvives`, `AnalyzerSeesThrough`, `ClassNeverHit` | 3 patterns and mutations together, one value per draw that hits each offset of interest, names of one and two labels |

Why the bounds are enough, one by one:

* Reports to the detector only matter through the first report of each hash; with two
  hashes, a collision and a non-collision, every protocol and every class of message,
  each code path of `record_crash` is taken in every order. The theorems lift this
  to every value of the constants.
* `MaxExecutions = 2` over TCP: the first kills the target during itself, before the second or during it,
  and with `MaxRestarts = 2` the second finds it down, or started again, also if it was down at first. They are the iterations of the campaign, too. With one seed and
  `CorpusCap = 2` the corpus is full after one kept case and evicts with the second. `SocketBuffer = 2` against sizes 1 and 2 gives an input that is
  delivered in one piece and one of which half is read; `TcpExecutionStalls` adds size 3. One
  input makes the coverage collector panic. The theorems of section 5 lift the bounds from
  the three invariants and from the steps of `ImplementsCampaign`. What they do not lift is that the
  executions end, and for this two are enough: nothing an execution waits for depends on how many went before.
* `MaxExecutions = 2` over UDP suffices for a late answer to meet a later socket. Two `Ports` are
  the least at which the two executions may have ports of their own or the same. The kernel may give out a port
  again at once, the target may keep a request as long as it likes, and foreigners may send
  at any time: `StrayAnswersSharePort` says what is left of attribution then.
* `CorpusCap = 2`, for 1000: one seed, then full, then evicting, needs two kept cases.
  `Iterations = 2` and `MaxRuns = 2`: two crashes, or a crash and a panic, in each of
  two runs over the same files, with fewer crashes in the second than in the first.
* The history of snapshots: cap 3, drop 2, every 2 executions, 8 executions: it is cut once
  and grows again. `WindowSize = 2`, for 100, is the smallest with a difference.
  `GrowthMin = 3`, for 10, is the full history. The theorems lift these bounds, too.
* The load generator: two ticks a second, a rate of two requests a second and worker, a
  duration of two ticks, so that a worker makes up to two requests, fewer when it is late;
  two workers are the least that can end in the other order than they are
  joined in; `MaxTime = 8` is beyond what the latest worker needs (`LoadAssumption`).
* Eight bytes is one more than the longest packet on which the scan panics, and the
  first at which blocks of four can repeat. The scan only compares bytes for equality; with
  three values there are packets of each of these lengths with and without a repeated pair.
  The theorem is about any bytes and any length.
* `PatternBound = 3` is the code's. `MutationBound` counts patterns and mutations:
  three are what it takes to empty a PINGREQ and then index into it. `Draws`, `Bytes`,
  `Deltas` are the values of random choices; the DNS draws (0, 3, 6, 19) reach the start
  of the question, the middle of a name and, in a padded packet, offset 19 beyond. `MaxFlips`
  bounds the bit flips of one mutation (8 in the code) and `MaxFilters` the filters of
  a SUBSCRIBE (10 in the code). The MQTT run has two bytes (130, with which a remaining length goes on, and 255),
  two draws (the first position, and one in the middle), one difference and one
  word, so that what it says of every chain it says for these; for any values the theorems do. They lift the bounds but for `PatternBound`, which is
  at most the code's.

Every property of a passing run is broken by a plausible fault of the code, an operator marked
`\* Fault:` beside the one it stands in for (listed under `mutants` in `PROJECT.json`).

Three more runs each check one thing the documentation promises and the code does not
do; see section 6.

## 4. Fairness

* `TcpExecution`, `UdpExecution`: `WF_vars(Engine)`. Tokio polls a task whose await can complete
  and its timers fire; `ConnectTimesOut`, `ReadTimesOut` and `ReceiveTimesOut` are part of
  `Engine`. Nothing is assumed of the target or of the network, nor that a further case
  begins. The failures of bind, send and receive (`EngineFails`) may happen but are not
  fair: an execution must not end only because the kernel would eventually fail it.
* `Campaign`: `FairSpec` is `WF_vars(Advance)`, all that the task does but for getting on with an
  execution. That one returns (`Returns`) is not presumed, since over TCP it need not (`TcpExecutionStalls`), so that
  `CampaignEnds` has the exception it must have: every run ends, or some execution goes on for ever.
  Nobody need kill or restart a run. `PromptSpec` adds `WF_vars(Returns)`: the campaign whose executions do return.
  It is what `TcpCampaign` is shown to implement, and what `CampaignLostCrash` uses, so that a
  crash is not lost there by an execution that never ends.
* `TcpCampaign`: weak fairness of `Process`, all that the task itself does, as in `TcpExecution`. That executions
  end is a result here, not a premise: `ImplementsCampaign` is `PromptSpec` of `Campaign`. It holds
  for inputs that fit the buffers, and the inputs are chosen so.
* `LoadGenerator`: `WF` of each worker, of the caller and of the clock: the runtime polls every task
  that can go on and time passes. `Stall` is not fair: the target need not stop reading.
* `UdpExecutionDeadTarget` refutes an invariant and needs no fairness. The other two
  violation runs use a fair specification: the stall and the loss happen although the engine is scheduled.

## 5. Proofs

`CampaignProofs`, first part, for any inputs, sizes, protocols, messages, and any hash function:

* `DetectorTypeCorrect`, `IndexAgreesAlways`, `AccountedAlways`, `StatsAgreeAlways`: the invariants
  the run `CrashDetector` checks.
* `DetectorImplementsLog`: every step of the detector files one new report in the abstract
  log or stutters. The refinement mapping `FirstReport` takes the list to a function from hashes.

Assumptions: the hash is a function from inputs to hashes, sizes are naturals, an error message
is an option of a set of substrings. Nothing is assumed finite, and the hash may collide.

The inductive invariant is `IInv`: the type invariant; `IndexAgrees` (the hash set is the set
of hashes of the list, and the list has no two of one hash); `crash_hashes` is finite and its cardinality
is the length of the list; `last_crash_count` is at most that length; the counters agree; the
reports are accounted for. The cardinality is the strengthening: `unique_crashes` is
overwritten with the size of the *global* hash set at each new crash of a protocol, so
its value is the position in the list of the latest crash of that protocol, and only the
identity of set size and list length makes that provable. The argument: `record_crash` either
drops a report, and changes nothing, or appends one crash whose hash was not in the set
(`KeepingPreserves`, `KeepingCounts`); the counters of the crash's protocol, type and
severity go up by one, each the cardinality of a set of positions that gains one element, and those
of the others stay. `ClassifyType` and `SeverityType` prove that the tables have an answer for
every message.

`TcpCampaignProofs`, first section, on the executor by itself, for any inputs and sizes, fatal
inputs, socket buffers and numbers of executions and restarts (`TcpAssumption`):

* `TcpTypeCorrect`, and `ConnectErrorsInnocentAlways`: an execution that got no connection has not
  killed the target, and will not.

`ConnectErrorsInnocent` speaks of results already returned, and is not inductive: nothing in it says
why the execution that is just failing to connect is innocent. The strengthening (`IInv`) says what is
known before there is a stream: while connecting, the target has nothing of the current execution
(`NothingSentYet`), because bytes reach it only over a stream (`NoStreamYet`), of which a return would
hand over the rest. `ReturnKeepsIInv` treats the seven ways out of the function at once;
`ConnectErrorsUnlike` shows that what an execution returns that had a connection is equal to no
connection error. Nothing is assumed of what brings the target down or up.

`TcpCampaignProofs`, on the composition, for any inputs, sizes, hash function, capacity of the corpus and numbers of
executions and restarts (`CompositionAssumption`):

* `CampaignImplementsCampaign`: every behaviour of it is one of `Campaign`, with the results of the executor for its
  outcomes. `StepImplements` goes through the steps: a begin is a `Mutate`, the step in which an
  execution returns is an `Account` or a `CoveragePanics` with what it returned
  (`EngineReturns`, `ReturnLeaves`), any other is a stutter.
* `DeathReportedAlways`: while the target is down, for whatever reason, every execution begun since failed, and its
  input is on the crash list. `KillersKeptAlways`: what killed the target was pushed onto the corpus; the corpus
  evicts, and the theorem does not say that it is still there.

The last two relate executor, loop and detector and hold of no one of them. That the executions of the
composition are executions of `TcpExecution` (a lemma: the composition takes its steps from there) and
the refinement of `Campaign` bring in the invariants proved of the parts; what is new (`CompInv`) says that loop and executor agree on which
execution is going on and for which input (`Calls`), that every result of the executor over TCP
was kept, since none of them is uninteresting (`AllKept`, `TcpResultsInteresting`), that while the target is
down no execution begun since it went down has succeeded, or is past connecting (`DeadSince`), and that every failure accounted for is
known by its hash (`FailuresListed`).

`UdpExecutionProofs`, for any inputs, ports and bounds, over a network that loses, delays, reorders
and duplicates, with a kernel that gives out any port, a target that answers when it likes, and other senders:
`UdpTypeCorrect`; `StrayAnswersSharePortAlways`, an answer credited to a case is its own, a foreigner's, or that to
an earlier case which had the same port; `FailedInputNotTakenAlways`, the target never reads an
input whose bind or send failed. Both speak of results returned; what makes them inductive is what is under way:
whatever an execution has under way, or the target has yet to answer, goes from or to a port that
execution has had (`FromOwnPort`), as does the socket (`PortRecorded`); and of an execution that has
not sent yet (`NotSentYet`) or failed before it did (`FailedOutOfReach`) nothing is under way to
the target.

`CampaignProofs`, second part, for any seeds, outcomes, capacity of the corpus, faults and numbers of iterations
and runs (`CampaignAssumption`): `CampaignTypeCorrect`, `CountsAgreeAlways`, `CrashesKeptAlways`,
`CorpusIsLatestAlways`. The invariant (`CampaignInv`) adds that of the detector, from the first part;
that a case is at hand only during an execution or after a panic in one (`CaseAtHand`), which tells a
panic of the mutator from one of the collector; and that before the seeding nothing was kept. The
argument: a failure is interesting (`FailuresAreInteresting`: its message is there and is not that of
a UDP timeout, with which an execution succeeds), so the case that adds a crash to the list is kept in
the same step (`DetectAndGrow`); and pushing a case to the latest part of a sequence, less the oldest
if there are too many, gives the latest part of the longer sequence (`PushedIsLatest`). Saving,
kills, failed writes and panics leave all of that alone (`QuietKeepsInv`). In addition:

* `CampaignKeepsDetector`: the invariants of the detector hold in a campaign, over any number of runs.
* `MetadataFollowsInputAlways`, `SummaryVouchesAlways`: what the files on the disk can be trusted for, whatever
  write fails and whenever a process is killed, in any number of runs over one directory.

Both are about whole files of several runs and say nothing of a run half way through saving. The
strengthening (`DiskInv`) does: a run that is saving has written, whole and with what belongs into them, the
first files of its plan and no others (`SavedInOrder`), and before it saves no file is its own
(`FilesOfRuns`). `SavePlanIs` establishes from the concatenation that `save_plan` is, that input and metadata of the
n-th crash are entries 2n+1 and 2n+2 of the plan and the summary is the last.

`CoverageProofs`, for any executions (of packets and responses that are sequences of bytes), any hash
function, any intervals, windows and sizes of the history (`CoverageAssumption`):

* `CountsConcurAlways`: three counts of executions agree, and the set of paths with their frequencies.
* `EdgeCountsArePathsAlways`: the hits of an edge are those of the paths it is on.
* `SnapshotsLatestAlways`: the history is the latest part of the snapshots taken.
* `DiscoveryRateBlindAlways`: coverage is a hundred percent and every rate is zero, whatever is executed.
* `CollectorsConcurAlways`: the two collectors' verdicts on the outcomes agree, *if* `OutcomesTold`.

The invariant (`CoverageInv`) adds to the counts that every edge has as many copies in its map as there are
places for it on the occurrences of the paths (`Kept`): a new occurrence adds the bag of its path to the
one and disjoint places to the other (`PathCounted`, `KeptByPath`). The history is stated
relative to the number of snapshots taken, less the execution that panicked (`Latest`, `Recorded`), so that an
append and a cut keep it (`HistoryKept`). No map is empty once something was executed (`Covered`),
because the edges and the features of an execution are sequences that are never empty (`PathsAre`,
`FeaturesAre`); a share of what is in a map is then a hundred percent (`Covering`), in
every snapshot, and differences, windows and the moving average (`MeanOfZeros`) are zero.

`CollectorsConcur` needs an exact count: among all edges, and all features, that an execution leaves
behind, its outcome occurs once, its error once if there is one, and nothing else is taken for
them (`PathCounts`, `FeatureCounts`); and two tables of substrings, read from the top, agree
where both have a verdict (`OneVerdict`). For the features that is a fact of the code. For the edges, which are
hashes of 64 bits, it is the hypothesis of the theorem, `OutcomesTold`: an outcome's hash is that of no other edge
of the executions. Other edges may collide; the hash of the run `Coverage` has such collisions
and satisfies the hypothesis.

* `ScanAnswersAlways`: the loop of `has_repeated_bytes` answers what its definition says, and panics where it
  says, for packets of any bytes and any length. The Coverage model uses the definition, the code is the loop.

Of a scan under way the invariant (`ScanInv`) says that nothing was found for the widths and positions it is
past. That the definition has only one width in it rests on `PairsDecide`: a repeated block begins
with a repeated pair, and the pairs are what the scan looks for first.

`LoadGeneratorProofs`, for any number of connections, rate, duration and lateness (`LoadAssumption`: times are
in ticks that the pause between requests is a whole number of):

* `ReportCoversAlways`: the report counts every request of every worker, once, by its outcome, in whatever
  order the workers end.
* `RateKeptAlways`: apart from the first request of each connection, no more requests than the rate allows.

The invariant `LoadInv` says of each worker that its k-th request came k-1 pauses after the start, or later
(`Paced`), so that all requests are among the pairs of a worker and one of the numbers
that a worker had the time for (`RequestsBounded`). Of the caller it says that its results are in bijection with the requests of
the workers joined so far (`Collected`), which a join extends by the requests of one worker; equal counts
are then a property of bijections (`SameCount`).

Both fuzzers rest on `PacketProofs`: what each common mutation leaves of a packet of any length
(`CommonMutationKeeps`: one byte less at most), what a byte or two written into it change (`WithByte`, `WithWord`),
what concatenations consist of. Two definitions are recursive functions, the concatenation of many sequences and the
repeated bit flips. What is needed of them is that they stay within a set, or a size, and follows by `Induction`,
stated for a *set* of numbers rather than a predicate: a set of numbers that is not empty has a smallest member (`Smallest`,
from the well-foundedness of the natural numbers).

`MqttFuzzerProofs`, for any topics, client identifiers and payloads of any bytes whose length fits into two, up to
ten filters, and any draws (`MqttAssumption`, `DrawsAssumption`):

* `TypeCorrect`; `GeneratedValidAlways`: the validator accepts what the generator builds.
* `ValidLooksMqttAlways`: the analyzer takes for MQTT, or before that for DNS, whatever the validator accepts.
* `OversizedStaysInvalidAlways`: no patterns make a packet valid again whose remaining length was overwritten.
* `PanicTakesThreeMutationsAlways`: no index is out of bounds before the third mutation.
* `ProtocolNameNeverHitAlways`: the pattern for the protocol name changes no generated packet.

The remaining length has one to four bytes, which the code reads in several places and writes in one. The first
lemmas spell out what a reader makes of any bytes (`LengthBytesAre`, `LengthValueIs`) and what the writer
writes (`Encoded`); together they say that what was opened with an encoded length has that length
(`OpenedIsValid`). The invariant (`PacketInv`) is about the packet (it has lost at most one byte per mutation,
so that two are left before the first) and, until it is mutated, about the patterns so far (`Generated`):
none, and it is valid, with a SUBSCRIBE that is not too short (`GoodStart`); none
but those that leave the head of a CONNECT where it is (`HeadKeeping`), and where the pattern for the protocol
name looks for it there is no `M` (`NoName`); or one that overwrote the remaining length, and it is
invalid. The last is not inductive by itself. After that
pattern every byte of the remaining length is 255 (`Lead`), and the others can undo it only for a
packet cut to a few bytes; `Settled` says for each number of patterns how many bytes there are, at least. It
becomes weaker with every pattern, and the third, by `PatternBound <= 3`, is the last.

`DnsFuzzerProofs`, for any identifiers, types, names of up to five labels of 1 to 63 bytes, and any draws (`DnsAssumption`,
`DrawsAssumption`):

* `IndicesInBoundsAlways`: no pattern and no mutation, after any others, reads or writes outside the packet.
* `HeaderSurvivesAlways`: the patterns leave identifier and counts of the query alone.
* `AnalyzerSeesThroughAlways`: the analyzer still takes it for DNS, if the flags were left alone, and finds it
  repetitive, if it was filled up last.
* `ClassNeverHitAlways`: the pattern for the class never changes a query whose name is intact.

The invariant (`PacketInv`): the packet is a sequence of bytes, so that it is never `Panic`; before the first
mutation its header is that of the query, but for the flags; and as long as only flags, type or class
were attacked, there is no zero between header and the fifth byte from the end, which is one (`Layout`). Each pattern has a lemma
of its own. For the analyzer a second one (`SeenInv`) counts the positions whose byte is unlike both its
neighbours (`Alone`), the complement of what the analyzer counts (`RestIsRepeated`): a query has no more than its
337 bytes, each pattern adds four at most (`PatternAlone`: two bytes written can set apart
themselves and their neighbours, a cut the last byte, a filling none) or leaves no more than 18, and three patterns are
the most. A packet filled up last has 1012 bytes or more, of which 349 are too few to matter.

`LoadGeneratorProofs`, second part: `RateBoundedAlways`, for any capacity and any requests to the rate limiter: from any instant on no
more is granted than the capacity and what the time since refills. The bound on what was granted says nothing of
the tokens left; what is inductive is that grants and tokens together stay within it from the first
request after the instant on, and that before it nothing was granted. Tokens are whole numbers in the
model: the rounding of the code's floating-point numbers is not covered.

Every invariant and every action property that a passing run checks is stated by a theorem. Only model-checked are
the liveness properties `CampaignEnds`, `ExecutionEnds` and `LoadEnds`, and of
`ImplementsCampaign` the part that is fairness: TLAPS cannot treat fairness and ENABLED.

## 6. Findings and other divergences

Shown by runs:

* `TcpExecutionStalls` — `write_all` (`fuzzer/mod.rs:270`) has no timeout. An input that does not fit
  the socket buffers, sent to a target that does not read, stalls the campaign for
  ever. `README.md:68-69` draws a Timeout Manager.
* `UdpExecutionDeadTarget` — a UDP timeout is a success (`fuzzer/mod.rs:361`): a target that died
  is never noticed. `README.md:23` promises crash detection.
* `CampaignLostCrash` — `has_repeated_bytes` underflows on 4 to 7 bytes without a repeated pair
  (`coverage/feature_coverage.rs:460`), and results are only written at the end: the panic loses every crash
  found. `README.md:181`: "When crashes are discovered, detailed reports are generated".

Confirmed by passing runs that state what the code does: any error of connect makes a crash of its
input, although the connectivity test only warns of a target that is not there, and that input has not
brought the target down (`ConnectErrorsInnocent`; `fuzzer/mod.rs:171`, `:314`; `README.md:186` calls it the
"Raw input that caused crash"); the coverage is a hundred percent
from the first execution on and the rates of discovery and growth are zero
(`DiscoveryRateBlind`; `coverage/mod.rs:176`), `InvalidProtocolName` never finds the name
(`ProtocolNameNeverHit`; `protocols/mqtt.rs:403-408`), `InvalidQClass` never reaches the class
(`ClassNeverHit`; `protocols/dns.rs:153-155`), and `ExcessiveSubscriptions` panics on an empty packet
although `mutate_test_case` has a fallback for mutations that fail (`protocols/mqtt.rs:336`,
`fuzzer/mod.rs:241-250`).

Seen while modelling, and not the subject of a run:

* The flag for new coverage is raised by the first execution and never lowered, although
  `coverage/edge_coverage.rs:20` says "if new coverage was found since last check".
* `utils/network.rs:373` calls `request_rate` requests per second; with more connections than
  that the load is one request per second and *connection* (`network.rs:395`), as `RateKept` says.
* `try_acquire` grants a negative amount and adds it to the tokens (`utils/mod.rs:249-250`).
* The packet analyzer tries DNS first, and takes some SUBSCRIBE packets for it.
* `crash_detector.rs:80-81` speaks of the exact crash; the key is the input alone, so a second,
  different error of one input is dropped.
* Severity in `README.md:197` is not the table of `crash_detector.rs:231`.
* A failure of the fuzzer's own bind or send is recorded as a crash of the input
  (`fuzzer/mod.rs:369`); `FailedInputNotTaken` shows that the target never saw such an input.
* Files of an earlier run with more crashes stay beside those of a later one
  (`crash_detector.rs:158`), and `examples/mqtt_iot_fuzzing.sh:89` counts them all.
* `fuzzer/mod.rs:387` speaks of unique errors; any error is interesting.
* `InvalidTopicFilter` (`mqtt.rs:371`) assumes a remaining length of one byte: in a longer
  SUBSCRIBE it reads its lengths one byte off; for an empty topic its null byte hits the QoS.
* The name length of a CONNECT is read from the bytes of the keep alive (`mqtt.rs:583-585`).
* `dns.rs:188-190` casts a position to a byte: in a packet longer than 256 bytes the
  pointer points elsewhere.
* A mutation has 256 possible seeds (`fuzzer/mod.rs:225-233`), since `seed_data` depends on the clock
  modulo 256.

## 7. What is left out

* Progress output, `yield_now`, verbose logging; of the connectivity test what it warns of.
* Path diversity, densities, entropies and the wording of reports.
* `ConnectivityChecker`: single connects and sends under a timeout, which keep no state; the
  average response time of a load test; formatting helpers and `Statistics` of `utils/mod.rs`.
* The grammar mutations of both fuzzers and `random_bytes`: nothing calls them. The external
  DNS parser is a parameter, the external builder is modelled from what it is used for.
* Arbitrary's byte-by-byte consumption of `seed_data`: a draw is any member of its range.
* `validate` and `generate` commands: planned.
* Logging and HTML/CSV rendering: pure formatting, called by nobody. LibAFL files: not compiled.

## 8. Plan

In the order of importance; all but the last are done.

1. `CrashDetector` with `CrashLog`, proofs of its invariants and of the refinement.
2. `TcpExecution`, `UdpExecution`.
3. `Campaign` with faults and repeated runs.
4. `Coverage` with the two collectors and their rates; `RepeatedBytesScan`.
5. `PacketMutations`, `MqttFuzzer`, `DnsFuzzer`, and what `PacketAnalyzer` makes of their packets.
6. `TcpCampaign`: the campaign composed with its executor, implementing `Campaign`.
7. `LoadGenerator`; `RateLimiter`.
8. Proofs: type and `ConnectErrorsInnocent` of the TCP executor; of the UDP executor and of
   `Campaign` all safety invariants; that `TcpCampaign` implements `Campaign`, `DeathReported` and `KillersKept`;
   the load generator and the rate limiter; all of `Coverage` and the scan; all of the MQTT and DNS packets.
9. The `generate` and `validate` commands (`fuzzer/mod.rs:439-508`) over the packets.
