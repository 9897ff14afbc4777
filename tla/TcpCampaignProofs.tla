-------------------------- MODULE TcpCampaignProofs ---------------------------
(***************************************************************************)
(* The executor, by itself and in a campaign.                              *)
(*                                                                         *)
(* By itself its type invariant holds, and an execution that got no        *)
(* connection is innocent of the target's death, for any inputs, sizes,    *)
(* buffers and bounds of the model, whatever state the target is in.       *)
(* ConnectErrorsInnocent speaks of the results returned; what makes it     *)
(* inductive is what is known while the connection is being made: there is *)
(* no stream yet, so that nothing of the execution has got, or will get,   *)
(* to the target.                                                          *)
(*                                                                         *)
(* The campaign only decides when the executor is called and with what, so *)
(* what is proved of the executor holds; the executor only decides what an *)
(* execution returns, so what is proved of Campaign for any outcomes       *)
(* holds; and what the two do to each other, through the target's life, is *)
(* the invariant CompInv.                                                  *)
(***************************************************************************)
EXTENDS TcpCampaign, SequenceTheorems, TLAPS

-----------------------------------------------------------------------------
(* The executor: nothing in this section depends on the campaign *)

NoStreamYet == pc \in {"ready", "connecting"} => conn = "none"

\* The target has got nothing of an execution that is still connecting.
NothingSentYet == pc = "connecting" => current \notin deadly /\ current \notin kills

IInv == TypeOK /\ NoStreamYet /\ NothingSentYet /\ ConnectErrorsInnocent

-----------------------------------------------------------------------------
\* What an execution returns that got a connection is not what one returns that got none.
LEMMA ConnectErrorsUnlike ==
    /\ Failed(Reset) \notin ConnectErrors /\ Failed(Other) \notin ConnectErrors
    /\ \A x : Answered(x) \notin ConnectErrors /\ TimedOut(x) \notin ConnectErrors
<1>1. /\ ConnectionError(Refused) \notin {Reset, Other}
      /\ ConnectionError(Other) \notin {Reset, Other}
      /\ ConnectionTimeout \notin {Reset, Other}
  <2>1. /\ "connection refused" \in ConnectionError(Refused) /\ "timeout" \in ConnectionTimeout
        /\ "connection" \in ConnectionError(Other)
        /\ "connection reset" \in Reset /\ "connection reset" \notin ConnectionError(Other)
        /\ "connection refused" \notin Reset /\ "timeout" \notin Reset
        /\ Other = {}
    BY DEF ConnectionError, Refused, ConnectionTimeout, Reset, Other
  <2> QED BY <2>1
<1>2. \A m, n : Failed(m) = Failed(n) => m = n
  BY DEF Failed, Result, Some
<1>3. \A m, x : Failed(m) # Answered(x) /\ Failed(m) # TimedOut(x)
  BY DEF Failed, Answered, TimedOut, Result
<1> QED BY <1>1, <1>2, <1>3 DEF ConnectErrors

\* While an execution runs there is a current one, and one result less.
LEMMA Running ==
    ASSUME TypeOK, pc # "ready"
    PROVE  /\ current \in Nat \ {0} /\ input \in Inputs
           /\ Len(results) = current - 1
<1> QED BY DEF TypeOK, current, input

\* Every way out of execute_tcp_test_case keeps the invariant, provided that a
\* connection error is only reported while connecting.
LEMMA ReturnKeepsIInv ==
    ASSUME IInv, pc # "ready", NEW r \in TcpResults, Return(r),
           r \in ConnectErrors => pc = "connecting"
    PROVE  IInv'
<1>1. /\ pc' = "ready" /\ results' = Append(results, r)
      /\ conn' = "none" /\ buffered' = 0 /\ reply' = FALSE /\ unsent' = 0
      /\ deadly' \subseteq deadly \cup {current} /\ (conn = "none" => deadly' = deadly)
      /\ started' = started /\ server' = server /\ kills' = kills
      /\ down_since' = down_since /\ restarts' = restarts
  BY DEF Return
<1>2. current \in Nat \ {0} /\ Len(results) = current - 1 /\ current' = current
  BY <1>1, Running DEF IInv, current
<1>3. /\ results' \in Seq(TcpResults) /\ Len(results') = current
      /\ results'[current] = r
      /\ \A n \in 1..(current - 1) : results'[n] = results[n]
  BY <1>1, <1>2 DEF IInv, TypeOK
<1>4. TypeOK'
  <2>1. started' \in Seq(Inputs) /\ results' \in Seq(TcpResults) /\ Len(results') = current'
    BY <1>1, <1>2, <1>3 DEF IInv, TypeOK
  <2>2. /\ unsent' \in Nat /\ buffered' \in 0..SocketBuffer /\ reply' \in BOOLEAN
        /\ server' \in {"up", "down"} /\ restarts' \in 0..MaxRestarts
    <3>1. 0 \in Nat /\ 0 \in 0..SocketBuffer
      BY TcpAssumption
    <3> QED BY <1>1, <3>1 DEF IInv, TypeOK
  <2>3. deadly' \subseteq 1..current'
    <3>1. current \in 1..current
      BY <1>2
    <3>2. deadly \subseteq 1..current
      BY DEF IInv, TypeOK
    <3> QED BY <1>1, <1>2, <3>1, <3>2
  <2>4. kills' \subseteq 1..current' /\ down_since' \in 0..current'
    BY <1>1, <1>2 DEF IInv, TypeOK
  <2> QED BY <1>1, <2>1, <2>2, <2>3, <2>4 DEF TypeOK
<1>5. NoStreamYet' /\ NothingSentYet'
  BY <1>1 DEF NoStreamYet, NothingSentYet
<1>6. ConnectErrorsInnocent'
  <2> SUFFICES ASSUME NEW n \in 1..current, results'[n] \in ConnectErrors
               PROVE  n \notin deadly' /\ n \notin kills'
    BY <1>1, <1>3 DEF ConnectErrorsInnocent
  <2>1. CASE n < current
    <3>1. n \in DOMAIN results /\ results[n] \in ConnectErrors
      BY <1>2, <1>3, <2>1 DEF IInv, TypeOK
    <3>2. n \notin deadly /\ n \notin kills
      BY <3>1 DEF IInv, ConnectErrorsInnocent
    <3> QED BY <1>1, <1>2, <2>1, <3>2
  <2>2. CASE n = current
    <3>1. pc = "connecting"
      BY <1>3, <2>2
    <3>2. deadly' = deadly
      BY <1>1, <3>1 DEF IInv, NoStreamYet
    <3> QED BY <1>1, <2>2, <3>1, <3>2 DEF IInv, NothingSentYet
  <2> QED BY <1>2, <2>1, <2>2
<1> QED BY <1>4, <1>5, <1>6 DEF IInv

-----------------------------------------------------------------------------
\* The steps that end no execution: each leaves the results alone.
LEMMA BeginKeepsIInv == ASSUME IInv, NEW i \in Inputs, Begin(i) PROVE IInv'
<1>1. /\ pc = "ready" /\ pc' = "connecting" /\ started' = Append(started, i)
      /\ unsent' = unsent /\ results' = results /\ conn' = conn /\ buffered' = buffered
      /\ reply' = reply /\ server' = server /\ deadly' = deadly /\ kills' = kills
      /\ down_since' = down_since /\ restarts' = restarts
  BY DEF Begin, streamVars, serverVars
<1>2. /\ current \in Nat /\ current' = current + 1 /\ Len(results) = current
      /\ started' \in Seq(Inputs)
  BY <1>1 DEF IInv, TypeOK, current
<1>3. /\ deadly \subseteq 1..current /\ kills \subseteq 1..current
      /\ 1..current \subseteq 1..(current + 1) /\ current + 1 \notin 1..current
  BY <1>2 DEF IInv, TypeOK
<1>4. TypeOK'
  <2>1. deadly \subseteq 1..(current + 1) /\ kills \subseteq 1..(current + 1)
    BY <1>3
  <2>2. down_since \in 0..(current + 1)
    BY <1>2 DEF IInv, TypeOK
  <2>3. Len(results') = current' - 1
    BY <1>1, <1>2
  <2> QED BY <1>1, <1>2, <2>1, <2>2, <2>3 DEF IInv, TypeOK
<1>5. NoStreamYet'
  BY <1>1 DEF IInv, NoStreamYet
<1>6. NothingSentYet'
  BY <1>1, <1>2, <1>3 DEF NothingSentYet
<1>7. ConnectErrorsInnocent'
  BY <1>1 DEF IInv, ConnectErrorsInnocent
<1> QED BY <1>4, <1>5, <1>6, <1>7 DEF IInv

\* Once there is a stream, the invariant says less than before.
LEMMA ConnectKeepsIInv == ASSUME IInv, Connect PROVE IInv'
<1>1. /\ pc = "connecting" /\ pc' = "writing" /\ conn' = "open" /\ unsent' = Size[input]
      /\ started' = started /\ results' = results /\ buffered' = buffered /\ reply' = reply
      /\ server' = server /\ deadly' = deadly /\ kills' = kills
      /\ down_since' = down_since /\ restarts' = restarts
  BY DEF Connect, serverVars
<1>2. current' = current /\ Size[input] \in Nat
  BY <1>1, Running, TcpAssumption DEF IInv, current
<1>3. TypeOK'
  BY <1>1, <1>2 DEF IInv, TypeOK
<1> QED BY <1>1, <1>2, <1>3 DEF IInv, NoStreamYet, NothingSentYet, ConnectErrorsInnocent

\* Writing adds bytes of the current execution only, over a stream it has.
LEMMA WriteKeepsIInv == ASSUME IInv, WriteChunk \/ WriteEnds PROVE IInv'
<1>1. /\ pc = "writing" /\ pc' \in {"writing", "reading"}
      /\ started' = started /\ results' = results /\ reply' = reply
      /\ server' = server /\ deadly' = deadly /\ kills' = kills
      /\ down_since' = down_since /\ restarts' = restarts
  BY DEF WriteChunk, WriteEnds, streamVars, serverVars
<1>2. /\ unsent' \in Nat /\ buffered' \in 0..SocketBuffer
      /\ conn' \in {"none", "open", "fin", "reset", "closed"}
  <2>1. CASE WriteChunk
    BY <2>1, TcpAssumption DEF IInv, TypeOK, WriteChunk
  <2>2. CASE WriteEnds
    BY <2>2 DEF IInv, TypeOK, WriteEnds, streamVars
  <2> QED BY <2>1, <2>2
<1>3. current' = current
  BY <1>1 DEF current
<1>4. TypeOK'
  BY <1>1, <1>2, <1>3 DEF IInv, TypeOK
<1> QED BY <1>1, <1>3, <1>4 DEF IInv, NoStreamYet, NothingSentYet, ConnectErrorsInnocent

\* The target gets what is written over a stream, and dies of what it has got: in neither
\* case of an execution that got no connection.
LEMMA TargetKeepsIInv == ASSUME IInv, Target PROVE IInv'
<1>1. /\ pc' = pc /\ started' = started /\ unsent' = unsent /\ results' = results
      /\ current' = current
  BY DEF Target, TargetReads, TargetAnswers, TargetCloses, TargetDies, TargetStops, GoesDown,
         TargetRestarts, engineVars, current
<1>2. CASE TargetReads
  <2>1. /\ conn = "open" /\ conn' = conn /\ buffered' = buffered - 1 /\ buffered > 0
        /\ reply' = reply /\ server' = server /\ kills' = kills
        /\ down_since' = down_since /\ restarts' = restarts
        /\ deadly' \subseteq deadly \cup {current}
    BY <1>2 DEF TargetReads
  <2>2. pc \notin {"ready", "connecting"}
    BY <2>1 DEF IInv, NoStreamYet
  <2>3. buffered - 1 \in 0..SocketBuffer
    BY <2>1, TcpAssumption DEF IInv, TypeOK
  <2>4. deadly \cup {current} \subseteq 1..current
    <3>1. current \in 1..current
      BY <2>2, Running DEF IInv
    <3>2. deadly \subseteq 1..current
      BY DEF IInv, TypeOK
    <3> QED BY <3>1, <3>2
  <2>5. TypeOK'
    BY <1>1, <2>1, <2>3, <2>4 DEF IInv, TypeOK
  <2>6. current \notin DOMAIN results
    BY <2>2, Running DEF IInv, TypeOK
  <2>7. ConnectErrorsInnocent'
    BY <1>1, <2>1, <2>6 DEF IInv, ConnectErrorsInnocent
  <2> QED BY <1>1, <2>1, <2>2, <2>5, <2>7 DEF IInv, NoStreamYet, NothingSentYet
<1>3. CASE TargetAnswers
  <2>1. /\ conn' = conn /\ buffered' = buffered /\ reply' = TRUE
        /\ server' = server /\ deadly' = deadly /\ kills' = kills
        /\ down_since' = down_since /\ restarts' = restarts
    BY <1>3 DEF TargetAnswers, serverVars
  <2>2. TypeOK'
    BY <1>1, <2>1 DEF IInv, TypeOK
  <2> QED BY <1>1, <2>1, <2>2 DEF IInv, NoStreamYet, NothingSentYet, ConnectErrorsInnocent
<1>4. CASE TargetCloses
  <2>1. /\ conn = "open" /\ conn' \in {"fin", "reset"} /\ buffered' = buffered
        /\ reply' = reply /\ server' = server /\ deadly' = deadly /\ kills' = kills
        /\ down_since' = down_since /\ restarts' = restarts
    BY <1>4 DEF TargetCloses, Left, serverVars
  <2>2. pc \notin {"ready", "connecting"}
    BY <2>1 DEF IInv, NoStreamYet
  <2>3. TypeOK'
    BY <1>1, <2>1 DEF IInv, TypeOK
  <2> QED BY <1>1, <2>1, <2>2, <2>3 DEF IInv, NoStreamYet, NothingSentYet, ConnectErrorsInnocent
<1>5. ASSUME GoesDown, kills' \subseteq kills \cup deadly PROVE IInv'
  <2>1. /\ server' = "down" /\ deadly' = {} /\ down_since' = current
        /\ conn' = Left /\ buffered' = buffered /\ reply' = reply /\ restarts' = restarts
    BY <1>5 DEF GoesDown
  <2>2. kills' \subseteq 1..current /\ current \in 0..current
    BY <1>5 DEF IInv, TypeOK, current
  <2>3. /\ conn' \in {"none", "open", "fin", "reset", "closed"}
        /\ conn = "none" => conn' = "none"
    BY <2>1 DEF Left, IInv, TypeOK
  <2>4. TypeOK'
    BY <1>1, <2>1, <2>2, <2>3 DEF IInv, TypeOK
  <2>5. NoStreamYet'
    BY <1>1, <2>3 DEF IInv, NoStreamYet
  <2>6. NothingSentYet' /\ ConnectErrorsInnocent'
    BY <1>1, <1>5, <2>1 DEF IInv, NothingSentYet, ConnectErrorsInnocent
  <2> QED BY <2>4, <2>5, <2>6 DEF IInv
<1>6. CASE TargetRestarts
  <2>1. /\ conn' = conn /\ buffered' = buffered /\ reply' = reply
        /\ server' = "up" /\ deadly' = deadly /\ kills' = kills
        /\ down_since' = down_since /\ restarts' \in 0..MaxRestarts
    BY <1>6, TcpAssumption DEF TargetRestarts, streamVars, IInv, TypeOK
  <2>2. TypeOK'
    BY <1>1, <2>1 DEF IInv, TypeOK
  <2> QED BY <1>1, <2>1, <2>2 DEF IInv, NoStreamYet, NothingSentYet, ConnectErrorsInnocent
<1>7. (TargetStops \/ \E e \in deadly : TargetDies(e))
         => GoesDown /\ kills' \subseteq kills \cup deadly
  BY DEF TargetStops, TargetDies
<1> QED BY <1>2, <1>3, <1>4, <1>5, <1>6, <1>7 DEF Target

-----------------------------------------------------------------------------
\* One result per way out; a connection error only while connecting.
LEMMA EngineKeepsIInv == ASSUME IInv, Engine PROVE IInv'
<1>1. CASE ConnectFails
  BY <1>1, ReturnKeepsIInv DEF ConnectFails, TcpResults, ConnectErrors
<1>2. CASE ConnectTimesOut
  BY <1>2, ReturnKeepsIInv DEF ConnectTimesOut, TcpResults, ConnectErrors
<1>3. CASE WriteFails
  BY <1>3, ReturnKeepsIInv, ConnectErrorsUnlike DEF WriteFails, TcpResults
<1>4. CASE ReadAnswer
  BY <1>4, ReturnKeepsIInv, ConnectErrorsUnlike DEF ReadAnswer, TcpResults
<1>5. CASE ReadEnd
  BY <1>5, ReturnKeepsIInv, ConnectErrorsUnlike DEF ReadEnd, TcpResults
<1>6. CASE ReadFails
  BY <1>6, ReturnKeepsIInv, ConnectErrorsUnlike DEF ReadFails, TcpResults
<1>7. CASE ReadTimesOut
  BY <1>7, ReturnKeepsIInv, ConnectErrorsUnlike DEF ReadTimesOut, TcpResults
<1> QED BY <1>1, <1>2, <1>3, <1>4, <1>5, <1>6, <1>7, ConnectKeepsIInv, WriteKeepsIInv DEF Engine

\* The invariant holds of every execution.
LEMMA IInvAlways == Spec => []IInv
<1>1. Init => IInv
  <2> SUFFICES ASSUME Init PROVE IInv
    OBVIOUS
  <2>1. current = 0
    BY DEF Init, current
  <2>2. TypeOK
    <3>1. started \in Seq(Inputs) /\ results \in Seq(TcpResults) /\ Len(results) = 0
      BY DEF Init
    <3>2. buffered \in 0..SocketBuffer /\ restarts \in 0..MaxRestarts /\ unsent \in Nat
      BY TcpAssumption DEF Init
    <3>3. deadly \subseteq 1..current /\ kills \subseteq 1..current /\ down_since \in 0..current
      BY <2>1 DEF Init
    <3>4. Len(results) = IF pc = "ready" THEN current ELSE current - 1
      BY <2>1, <3>1 DEF Init
    <3>5. /\ pc \in {"ready", "connecting", "writing", "reading"} /\ reply \in BOOLEAN
          /\ conn \in {"none", "open", "fin", "reset", "closed"} /\ server \in {"up", "down"}
      BY DEF Init
    <3> QED BY <3>1, <3>2, <3>3, <3>4, <3>5 DEF TypeOK
  <2>3. ConnectErrorsInnocent
    BY DEF Init, ConnectErrorsInnocent
  <2> QED
    BY <2>2, <2>3 DEF Init, IInv, NoStreamYet, NothingSentYet
<1>2. IInv /\ [Next]_vars => IInv'
  <2> SUFFICES ASSUME IInv, [Next]_vars PROVE IInv'
    OBVIOUS
  <2>1. CASE Next
    BY <2>1, BeginKeepsIInv, EngineKeepsIInv, TargetKeepsIInv DEF Next
  <2>2. CASE UNCHANGED vars
    BY <2>2 DEF vars, engineVars, streamVars, serverVars, current, IInv, TypeOK, NoStreamYet,
                NothingSentYet, ConnectErrorsInnocent
  <2> QED BY <2>1, <2>2
<1> QED BY <1>1, <1>2, PTL DEF Spec

\* The executor's type invariant holds for any inputs, sizes, buffers and bounds.
THEOREM TcpTypeCorrect == Spec => []TypeOK
<1>1. IInv => TypeOK
  BY DEF IInv
<1> QED BY <1>1, IInvAlways, PTL

\* The execution recorded as a crash for want of a connection did not bring the target
\* down, nor will it, however often the target dies of what it had read long before, stops,
\* and is started again (mod.rs:314-325).
THEOREM ConnectErrorsInnocentAlways == Spec => []ConnectErrorsInnocent
<1>1. IInv => ConnectErrorsInnocent
  BY DEF IInv
<1> QED BY <1>1, IInvAlways, PTL

-----------------------------------------------------------------------------
(* The executor in a campaign *)

\* A step of the campaign is one of the executor or of the target, or leaves both alone.
LEMMA CampaignStep == CampaignNext => [Next]_vars
<1> SUFFICES ASSUME CampaignNext PROVE Next \/ UNCHANGED vars
  OBVIOUS
<1>1. ASSUME NEW case \in Inputs, Submit(case) PROVE Next
  BY <1>1 DEF Submit, Next
<1>2. CASE Execute
  BY <1>2 DEF Execute, Next
<1>3. CASE Surround
  BY <1>3 DEF Surround
<1>4. CASE Target
  BY <1>4 DEF Next
<1> QED BY <1>1, <1>2, <1>3, <1>4 DEF CampaignNext, Process

\* Whatever the loop does between two calls (mod.rs:81-141), its executions are
\* executions of Spec.
LEMMA CampaignImplementsExecution == CampaignSpec => Spec
<1>1. CampaignInit => Init
  BY DEF CampaignInit
<1>2. [CampaignNext]_compositionVars => [Next]_vars
  BY CampaignStep DEF compositionVars
<1> QED BY <1>1, <1>2, PTL DEF CampaignSpec, Spec

-----------------------------------------------------------------------------
(* The campaign's own theorems, about its instance C *)

CP == INSTANCE CampaignProofs WITH
        pc            <- phase,
        Protocols     <- TheProtocol,
        Options       <- TheProtocol \X {TRUE},
        Seeds         <- TheSeeds,
        Outcomes      <- TheOutcomes,
        Brittle       <- NeverPanics,
        ErrorMessages <- TheMessages,
        Faults        <- {},
        Iterations    <- MaxExecutions,
        MaxRuns       <- 1

\* CP has the operators of C: the two are equal, from the bottom up.  First the
\* detector's, ...
LEMMA SameDetector ==
    /\ C!NewDetector = CP!NewDetector
    /\ \A d, i, e, s, p : C!crash_count(C!record_crash(d, i, e, s, p))
                            = CP!crash_count(CP!record_crash(d, i, e, s, p))
<1>1. C!NewDetector = CP!NewDetector
  BY DEF C!NewDetector, CP!NewDetector, C!NoStats, CP!NoStats, C!CrashTypes, CP!CrashTypes,
         C!Severities, CP!Severities
<1>2. \A e, t : C!FirstRow(t, e) = CP!FirstRow(t, e)
  BY DEF C!FirstRow, CP!FirstRow, C!Mentions, CP!Mentions
<1>3. \A e, s : C!classify_crash(e, s) = CP!classify_crash(e, s)
  BY <1>2 DEF C!classify_crash, CP!classify_crash, C!TypeTable, CP!TypeTable, C!None, CP!None
<1>4. \A t, e, n : C!determine_severity(t, e, n) = CP!determine_severity(t, e, n)
  BY DEF C!determine_severity, CP!determine_severity, C!Mentions, CP!Mentions
<1>5. \A i, e, s, p : C!new_crash(i, e, s, p) = CP!new_crash(i, e, s, p)
  BY <1>3, <1>4 DEF C!new_crash, CP!new_crash, C!calculate_hash, CP!calculate_hash
<1>6. \A d, c : C!kept_crash(d, c) = CP!kept_crash(d, c)
  <2>1. \A s, c, h : C!updated_stats(s, c, h) = CP!updated_stats(s, c, h)
    <3>1. \A h : C!Cardinality(h) = CP!Cardinality(h)
      BY DEF C!Cardinality, CP!Cardinality
    <3> QED BY <3>1 DEF C!updated_stats, CP!updated_stats
  <2> QED BY <2>1 DEF C!kept_crash, CP!kept_crash
<1>7. \A d, i, e, s, p : C!record_crash(d, i, e, s, p) = CP!record_crash(d, i, e, s, p)
  BY <1>5, <1>6 DEF C!record_crash, CP!record_crash, C!calculate_hash, CP!calculate_hash
<1>8. \A d : C!crash_count(d) = CP!crash_count(d)
  BY DEF C!crash_count, CP!crash_count
<1> QED BY <1>1, <1>7, <1>8

\* ... then the files', ...
LEMMA SameFiles ==
    /\ \A d : C!save_plan(d) = CP!save_plan(d)
    /\ \A f, w : C!written(f, w) = CP!written(f, w)
<1>1. \A k, n : C!File(k, n) = CP!File(k, n)
  BY DEF C!File, CP!File
<1>2. \A d : C!crash_files(d) = CP!crash_files(d)
  BY <1>1 DEF C!crash_files, CP!crash_files
<1>3. C!coverage_files = CP!coverage_files
  BY <1>1 DEF C!coverage_files, CP!coverage_files
<1>4. \A d : C!save_plan(d) = CP!save_plan(d)
  BY <1>1, <1>2, <1>3 DEF C!save_plan, CP!save_plan
<1>5. \A f : C!content(f) = CP!content(f)
  BY DEF C!content, CP!content
<1>6. \A f, w : C!written(f, w) = CP!written(f, w)
  BY <1>5 DEF C!written, CP!written
<1> QED BY <1>4, <1>6

\* ... and the actions made of them.
LEMMA SameSteps == [C!Next]_(C!vars) => [CP!Next]_(CP!vars)
<1> USE DEF C!loopVars, CP!loopVars, C!saveVars, CP!saveVars, C!runVars, CP!runVars,
            C!detectorVars, CP!detectorVars, C!None, CP!None, C!Some, CP!Some
<1>1. C!TestConnectivity => CP!TestConnectivity
  BY DEF C!TestConnectivity, CP!TestConnectivity
<1>2. C!SeedCorpus => CP!SeedCorpus
  BY DEF C!SeedCorpus, CP!SeedCorpus
<1>3. \A case : C!Mutate(case) => CP!Mutate(case)
  BY DEF C!Mutate, CP!Mutate
<1>4. C!MutationPanics => CP!MutationPanics
  BY DEF C!MutationPanics, CP!MutationPanics, C!base_case, CP!base_case
<1>5. \A case, r : C!Account(case, r) => CP!Account(case, r)
  <2>1. \A case, r : C!Detect(case, r) => CP!Detect(case, r)
    BY SameDetector DEF C!Detect, CP!Detect
  <2>2. \A case, r : C!Grow(case, r) => CP!Grow(case, r)
    BY DEF C!Grow, CP!Grow, C!pushed, CP!pushed, C!is_interesting, CP!is_interesting,
           C!UdpTimeout, CP!UdpTimeout
  <2> QED BY <2>1, <2>2 DEF C!Account, CP!Account
<1>6. C!CoveragePanics => CP!CoveragePanics
  BY DEF C!CoveragePanics, CP!CoveragePanics
<1>7. C!StartSaving => CP!StartSaving
  BY SameFiles DEF C!StartSaving, CP!StartSaving
<1>8. C!SaveFile => CP!SaveFile
  BY SameFiles DEF C!SaveFile, CP!SaveFile
<1>9. C!Finish => CP!Finish
  BY DEF C!Finish, CP!Finish
<1>10. C!WriteFails => CP!WriteFails
  BY DEF C!WriteFails, CP!WriteFails
<1>11. C!Kill => CP!Kill
  BY DEF C!Kill, CP!Kill
<1>12. C!RunAgain => CP!RunAgain
  BY SameDetector DEF C!RunAgain, CP!RunAgain, C!Ends, CP!Ends
<1>13. C!Engine => CP!Engine
  BY <1>1, <1>2, <1>3, <1>4, <1>5, <1>6, <1>7, <1>8, <1>9
     DEF C!Engine, CP!Engine, C!Advance, CP!Advance, C!Returns, CP!Returns
<1>14. UNCHANGED C!vars => UNCHANGED CP!vars
  BY DEF C!vars, CP!vars
<1> QED BY <1>10, <1>11, <1>12, <1>13, <1>14 DEF C!Next, CP!Next

\* So a behaviour of the one is a behaviour of the other.
LEMMA SameSpec == C!Spec => CP!Spec
<1>1. C!Init => CP!Init
  BY SameDetector DEF C!Init, CP!Init, C!DetectorInit, CP!DetectorInit, C!None, CP!None
<1> QED BY <1>1, SameSteps, PTL DEF C!Spec, CP!Spec

\* What Campaign assumes of its constants is true of those the executor gives it:
\* its results are those of ExecutionResult, with messages made of known phrases.
LEMMA CampaignAssumptions ==
    /\ InputHash \in [Inputs -> Hashes]
    /\ InputSize \in [Inputs -> Nat]
    /\ \A e \in TheMessages : e = CP!None \/ \E m \in e : e = CP!Some(m) /\ CP!WellFormed(m)
    /\ /\ TheProtocol \X {TRUE} \subseteq TheProtocol \X BOOLEAN
       /\ CorpusCap \in Nat /\ MaxExecutions \in Nat /\ 1 \in Nat
       /\ Fragile \subseteq Inputs
       /\ \A p \in TheProtocol :
             /\ TheSeeds[p] \in Seq(Inputs) /\ Len(TheSeeds[p]) \in 1..CorpusCap
             /\ NeverPanics[p] \subseteq Inputs
             /\ \A r \in TheOutcomes[p] :
                   /\ r.success \in BOOLEAN
                   /\ ~r.success => r.error_message \in TheMessages \ {CP!None}
                   /\ CP!UdpTimeout \in r.error_message => r.success
<1> DEFINE Messages == {ReadTimeout, ConnectionError(Refused), ConnectionError(Other),
                        ConnectionTimeout, Reset, Other}
<1>1. \A r \in TcpResults :
         \/ r.success = TRUE /\ r.error_message = None
         \/ r.success = TRUE /\ r.error_message = Some(ReadTimeout)
         \/ r.success = FALSE /\ \E m \in Messages : r.error_message = Some(m)
  BY DEF TcpResults, ConnectErrors, Answered, TimedOut, Failed, Result
<1>2. \A m \in Messages : CP!WellFormed(m) /\ "udp timeout" \notin m
  <2>1. /\ CP!Within("connection refused") = {"connection"}
        /\ CP!Within("connection reset") = {"connection"}
        /\ CP!Within("connection timeout") = {"connection", "timeout"}
        /\ CP!Within("read timeout") = {"timeout"}
        /\ CP!Within("connection") = {} /\ CP!Within("timeout") = {}
    BY DEF CP!Within
  <2>2. {"connection", "connection refused", "connection reset", "connection timeout",
         "timeout", "read timeout"} \subseteq CP!Phrases
    BY DEF CP!Phrases
  <2>3. /\ CP!WellFormed(ReadTimeout) /\ CP!WellFormed(ConnectionError(Refused))
        /\ CP!WellFormed(ConnectionError(Other))
        /\ CP!WellFormed(ConnectionTimeout) /\ CP!WellFormed(Reset) /\ CP!WellFormed(Other)
    BY <2>1, <2>2 DEF CP!WellFormed, ReadTimeout, ConnectionTimeout, Refused, Reset, Other,
                      ConnectionError
  <2>4. /\ "udp timeout" \notin ReadTimeout /\ "udp timeout" \notin ConnectionError(Refused)
        /\ "udp timeout" \notin ConnectionTimeout /\ "udp timeout" \notin Reset
        /\ "udp timeout" \notin Other
        /\ "udp timeout" \notin ConnectionError(Other)
    BY DEF ReadTimeout, ConnectionTimeout, Refused, Reset, Other, ConnectionError
  <2> QED BY <2>3, <2>4
<1> HIDE DEF Messages
<1>3. TheSeeds["MQTT"] \in Seq(Inputs) /\ Len(TheSeeds["MQTT"]) \in 1..CorpusCap
  BY CompositionAssumption DEF TheSeeds, TheProtocol
<1>4. \A r \in TcpResults :
         /\ r.success \in BOOLEAN /\ r.error_message \in TheMessages
         /\ ~r.success => r.error_message # CP!None
         /\ CP!UdpTimeout \in r.error_message => r.success
  <2> SUFFICES ASSUME NEW r \in TcpResults
               PROVE  /\ r.success \in BOOLEAN /\ r.error_message \in TheMessages
                      /\ ~r.success => r.error_message # CP!None
                      /\ CP!UdpTimeout \in r.error_message => r.success
    OBVIOUS
  <2>1. r.success \in BOOLEAN
    BY <1>1
  <2>2. r.error_message \in TheMessages
    BY DEF TheMessages
  <2>3. ASSUME ~r.success PROVE r.error_message # CP!None /\ CP!UdpTimeout \notin r.error_message
    <3>1. PICK m \in Messages : r.error_message = {m}
      BY <1>1, <2>3 DEF Some
    <3>2. m # CP!UdpTimeout
      BY <1>2 DEF CP!UdpTimeout
    <3> QED BY <3>1, <3>2 DEF CP!None
  <2> QED BY <2>1, <2>2, <2>3
<1>5. ASSUME NEW e \in TheMessages
      PROVE  e = CP!None \/ \E m \in e : e = CP!Some(m) /\ CP!WellFormed(m)
  <2>1. PICK r \in TcpResults : e = r.error_message
    BY DEF TheMessages
  <2>2. e = {} \/ \E m \in Messages : e = {m}
    <3>1. ReadTimeout \in Messages
      BY DEF Messages
    <3> QED BY <1>1, <2>1, <3>1 DEF Some, None
  <2> QED BY <1>2, <2>2 DEF CP!None, CP!Some
<1> QED BY <1>3, <1>4, <1>5, CompositionAssumption, TcpAssumption
     DEF TheProtocol, NeverPanics, TheOutcomes

-----------------------------------------------------------------------------
(* The campaign over its executor behaves as Campaign says *)

ProtocolGiven == protocol_type \in TheProtocol

\* Nothing in a run changes the protocol it was started with.
LEMMA ProtocolKept == CampaignNext => protocol_type' = protocol_type
<1> USE DEF C!runVars
<1> SUFFICES ASSUME CampaignNext PROVE protocol_type' = protocol_type
  OBVIOUS
<1>1. ASSUME NEW case \in Inputs, Submit(case) PROVE protocol_type' = protocol_type
  BY <1>1 DEF Submit, C!Mutate
<1>2. CASE Execute
  BY <1>2 DEF Execute, C!Account, C!CoveragePanics, campaignVars
<1>3. CASE Surround
  BY <1>3 DEF Surround, C!TestConnectivity, C!SeedCorpus, C!StartSaving, C!SaveFile, C!Finish
<1>4. CASE UNCHANGED campaignVars
  BY <1>4 DEF campaignVars
<1> QED BY <1>1, <1>2, <1>3, <1>4 DEF CampaignNext, Process

\* MQTT is the one protocol of the composition.
LEMMA ProtocolAlways == CampaignSpec => []ProtocolGiven
<1>1. CampaignInit => ProtocolGiven
  BY DEF CampaignInit, C!Init, ProtocolGiven
<1>2. ProtocolGiven /\ [CampaignNext]_compositionVars => ProtocolGiven'
  BY ProtocolKept DEF ProtocolGiven, compositionVars, campaignVars
<1> QED BY <1>1, <1>2, PTL DEF CampaignSpec

\* An execution returns one of TcpResults, and no success from a target that is down
\* when it connects.
LEMMA EngineReturns ==
    ASSUME Engine, pc' = "ready"
    PROVE  /\ pc # "ready"
           /\ \E r \in TcpResults :
                 Return(r) /\ (pc = "connecting" /\ server = "down" => ~r.success)
<1>1. \A m : Failed(m).success = FALSE
  BY DEF Failed, Result
<1>2. /\ \A e \in {Reset, Other} : Failed(e) \in TcpResults
      /\ Answered("answer") \in TcpResults /\ Answered("empty") \in TcpResults
      /\ TimedOut(ReadTimeout) \in TcpResults
      /\ \A e \in {Refused, Other} : Failed(ConnectionError(e)) \in TcpResults
      /\ Failed(ConnectionTimeout) \in TcpResults
  BY DEF TcpResults, ConnectErrors
<1>3. ~Connect /\ ~WriteChunk /\ ~WriteEnds
  BY DEF Connect, WriteChunk, WriteEnds
<1>4. CASE ConnectFails
  BY <1>1, <1>2, <1>4 DEF ConnectFails
<1>5. CASE ConnectTimesOut
  BY <1>1, <1>2, <1>5 DEF ConnectTimesOut
<1>6. CASE WriteFails
  BY <1>2, <1>6 DEF WriteFails
<1>7. CASE ReadAnswer
  BY <1>2, <1>7 DEF ReadAnswer
<1>8. CASE ReadEnd
  BY <1>2, <1>8 DEF ReadEnd
<1>9. CASE ReadFails
  BY <1>2, <1>9 DEF ReadFails
<1>10. CASE ReadTimesOut
  BY <1>2, <1>10 DEF ReadTimesOut
<1> QED BY <1>3, <1>4, <1>5, <1>6, <1>7, <1>8, <1>9, <1>10 DEF Engine

\* One that goes on leaves the histories alone, and cannot connect to a dead target.
LEMMA EngineGoesOn ==
    ASSUME Engine, pc' # "ready"
    PROVE  /\ pc # "ready" /\ started' = started /\ results' = results
           /\ server' = server /\ kills' = kills /\ down_since' = down_since
           /\ pc' \in {"writing", "reading"}
           /\ server = "down" => pc \in {"writing", "reading"}
<1>1. Connect \/ WriteChunk \/ WriteEnds
  BY DEF Engine, ConnectFails, ConnectTimesOut, WriteFails, ReadAnswer, ReadEnd, ReadFails,
         ReadTimesOut, Return
<1> QED BY <1>1 DEF Connect, WriteChunk, WriteEnds, serverVars, streamVars

\* What an execution that returned leaves.
LEMMA ReturnLeaves ==
    ASSUME TypeOK, pc # "ready", NEW r \in TcpResults, Return(r)
    PROVE  /\ started' = started /\ server' = server /\ kills' = kills
           /\ down_since' = down_since
           /\ results' = Append(results, r) /\ Len(results) = current - 1
           /\ current \in Nat \ {0} /\ results'[current] = r /\ input \in Inputs
           /\ DOMAIN results' = 1..current
           /\ \A n \in 1..(current - 1) : results'[n] = results[n]
<1>1. /\ current \in Nat \ {0} /\ Len(results) = current - 1 /\ results \in Seq(TcpResults)
      /\ results' = Append(results, r)
  BY Running DEF TypeOK, Return
<1>2. /\ results' \in Seq(TcpResults) /\ Len(results') = current
      /\ results'[current] = r /\ \A n \in 1..(current - 1) : results'[n] = results[n]
  BY <1>1
<1> QED BY <1>1, <1>2, Running DEF Return

\* Begin is Mutate, the step in which an execution returns is Account or
\* CoveragePanics with what it returned, and any other is a stutter.
LEMMA StepImplements ==
    ASSUME TypeOK, ProtocolGiven, [CampaignNext]_compositionVars
    PROVE  [C!Next]_(C!vars)
<1>1. ASSUME UNCHANGED campaignVars PROVE UNCHANGED C!vars
  BY <1>1 DEF campaignVars, C!vars, C!loopVars, C!saveVars, C!runVars, C!detectorVars
<1>2. ASSUME NEW case \in Inputs, Submit(case) PROVE C!Next
  BY <1>2 DEF Submit, C!Next, C!Engine, C!Advance, C!Returns
<1>3. CASE Execute
  <2>1. CASE pc' = "ready"
    <3>1. PICK r \in TcpResults : Return(r) /\ pc # "ready"
      BY <1>3, <2>1, EngineReturns DEF Execute
    <3>2. results'[current] = r
      BY <3>1, ReturnLeaves
    <3>3. CASE C!Account(input, r)
      <4>1. r \in TheOutcomes[protocol_type] /\ input \in mutated_case
        BY <3>3 DEF ProtocolGiven, TheOutcomes, C!Account
      <4> QED BY <3>3, <4>1 DEF C!Next, C!Engine, C!Advance, C!Returns
    <3> QED BY <1>3, <2>1, <3>2, <3>3 DEF Execute, C!Next, C!Engine, C!Advance, C!Returns
  <2>2. CASE pc' # "ready"
    BY <1>1, <1>3, <2>2 DEF Execute
  <2> QED BY <2>1, <2>2
<1>4. CASE Surround
  BY <1>4 DEF Surround, C!Next, C!Engine, C!Advance, C!Returns
<1> QED BY <1>1, <1>2, <1>3, <1>4 DEF CampaignNext, Process, compositionVars

\* Put together, loop and executor take only the steps of Campaign, whose executions
\* return one of TcpResults: what is proved of Campaign for any outcomes is true of a
\* campaign over TCP (mod.rs:81-141 with :263-327).
THEOREM CampaignImplementsCampaign == CampaignSpec => C!Spec
<1>1. CampaignInit => C!Init
  BY DEF CampaignInit
<1>2. CampaignSpec => []TypeOK
  BY CampaignImplementsExecution, TcpTypeCorrect, PTL
<1>3. TypeOK /\ ProtocolGiven /\ [CampaignNext]_compositionVars => [C!Next]_(C!vars)
  BY StepImplements
<1> QED BY <1>1, <1>2, <1>3, ProtocolAlways, PTL DEF CampaignSpec, C!Spec

\* So a campaign over TCP has the invariants of Campaign.
LEMMA CampaignInvInComposition == CampaignSpec => []CP!CampaignInv
BY CampaignImplementsCampaign, SameSpec, CampaignAssumptions, CP!CampaignInvAlways, PTL
-----------------------------------------------------------------------------
(* What the campaign keeps of its executions *)

\* Loop and executor are at one: there is an execution just when the loop waits for
\* one, it is that of the case at hand, and every one before it was accounted for.
Calls == /\ pc # "ready" <=> phase = "executing"
         /\ phase = "executing" => mutated_case = Some(input)
         /\ current = iteration + (IF phase \in {"executing", "panicked"} THEN 1 ELSE 0)

\* Every execution over TCP was kept: none of its results is uninteresting.
AllKept == /\ Len(kept) = iteration
           /\ \A n \in 1..iteration : kept[n] = [data |-> started[n], result |-> results[n]]

\* While the target is down, no execution begun since it went down is a success, or can be.
DeadSince ==
    server = "down" =>
        /\ pc \in {"writing", "reading"} => down_since = current
        /\ \A n \in DOMAIN results : n > down_since => ~results[n].success

\* The input of every failure accounted for is known to the detector by its hash.
FailuresListed ==
    \A n \in 1..iteration :
        ~results[n].success => InputHash[started[n]] \in detector.crash_hashes

\* What the two components know by themselves, and what they know together.
Given == TypeOK /\ ProtocolGiven /\ CP!CampaignInv
CompInv == Calls /\ AllKept /\ DeadSince /\ FailuresListed

\* The facts of Given that the steps below use.
LEMMA GivenFacts ==
    ASSUME Given
    PROVE  /\ started \in Seq(Inputs) /\ current \in Nat /\ iteration \in Nat
           /\ results \in Seq(TcpResults)
           /\ Len(results) = IF pc = "ready" THEN current ELSE current - 1
           /\ kept \in Seq([data: Inputs, result: TcpResults])
           /\ protocol_type \in TheProtocol
<1>1. TheOutcomes[protocol_type] = TcpResults /\ protocol_type \in TheProtocol
  BY DEF Given, ProtocolGiven, TheOutcomes
<1> QED BY <1>1, TcpAssumption
     DEF Given, TypeOK, current, CP!CampaignInv, CP!TypeOK

\* Over TCP every result is worth keeping: only a timeout over UDP is not.
LEMMA TcpResultsInteresting == \A r \in TcpResults : C!is_interesting(r)
<1>1. ReadTimeout # C!UdpTimeout
  <2>1. "read timeout" \in ReadTimeout /\ "read timeout" \notin C!UdpTimeout
    BY DEF ReadTimeout, C!UdpTimeout
  <2> QED BY <2>1
<1>2. \A m : Failed(m).error_message # {} /\ Failed(m).error_message = {m}
  BY DEF Failed, Result, Some
<1>3. C!UdpTimeout \notin {ConnectionError(Refused), ConnectionError(Other), ConnectionTimeout,
                        Reset, Other}
  <2>1. "udp timeout" \in C!UdpTimeout
    BY DEF C!UdpTimeout
  <2>2. /\ "udp timeout" \notin ConnectionError(Refused) /\ "udp timeout" \notin ConnectionTimeout
        /\ "udp timeout" \notin Reset /\ "udp timeout" \notin Other
        /\ "udp timeout" \notin ConnectionError(Other)
    BY DEF ConnectionTimeout, Refused, Reset, Other, ConnectionError
  <2> QED BY <2>1, <2>2
<1>4. /\ C!is_interesting(Answered("answer")) /\ C!is_interesting(Answered("empty"))
      /\ C!is_interesting(TimedOut(ReadTimeout))
  BY <1>1 DEF C!is_interesting, Answered, TimedOut, Result, Some, C!None, C!Some
<1>5. \A m \in {ConnectionError(Refused), ConnectionError(Other), ConnectionTimeout, Reset, Other} :
         C!is_interesting(Failed(m))
  BY <1>2, <1>3 DEF C!is_interesting, C!None, C!Some
<1> QED BY <1>4, <1>5 DEF TcpResults, ConnectErrors

\* Recording a report files its hash, whatever the detector held before.
LEMMA RecordedHash ==
    ASSUME NEW d, NEW i, NEW e, NEW p
    PROVE  LET b == C!crash_count(C!record_crash(d, i, e, FALSE, p))
           IN  \A h : h \in d.crash_hashes \/ h = InputHash[i] => h \in b.crash_hashes
<1> DEFINE a == C!record_crash(d, i, e, FALSE, p)
<1>1. \A h : h \in d.crash_hashes \/ h = InputHash[i] => h \in a.crash_hashes
  BY DEF C!record_crash, C!kept_crash, C!new_crash, C!calculate_hash
<1>2. C!crash_count(a).crash_hashes = a.crash_hashes
  BY DEF C!crash_count
<1> QED BY <1>1, <1>2

-----------------------------------------------------------------------------
\* The next case goes to the executor.
LEMMA SubmitKeeps ==
    ASSUME Given, CompInv, NEW case \in Inputs, Submit(case)
    PROVE  CompInv'
<1>1. /\ pc = "ready" /\ pc' = "connecting" /\ started' = Append(started, case)
      /\ results' = results /\ server' = server /\ kills' = kills /\ down_since' = down_since
      /\ phase = "fuzzing" /\ phase' = "executing" /\ mutated_case' = Some(case)
      /\ iteration' = iteration /\ kept' = kept /\ detector' = detector
  BY DEF Submit, Begin, serverVars, C!Mutate, C!loopVars, C!detectorVars, C!Some, Some
<1>2. /\ current = iteration /\ current' = current + 1 /\ input' = case
      /\ \A n \in 1..current : started'[n] = started[n]
  BY <1>1, GivenFacts DEF CompInv, Calls, current, input
<1>3. Calls'
  BY <1>1, <1>2 DEF Calls
<1>4. AllKept'
  BY <1>1, <1>2 DEF CompInv, AllKept
<1>5. DeadSince'
  BY <1>1 DEF CompInv, DeadSince
<1>6. FailuresListed'
  BY <1>1, <1>2 DEF CompInv, FailuresListed
<1> QED BY <1>3, <1>4, <1>5, <1>6 DEF CompInv

\* An execution goes on, or returns and is accounted for, or the collector panics on it.
LEMMA ExecuteKeeps == ASSUME Given, CompInv, Execute PROVE CompInv'
<1> USE GivenFacts
<1>1. CASE pc' # "ready"
  <2>1. /\ pc # "ready" /\ started' = started /\ results' = results /\ server' = server
        /\ kills' = kills /\ down_since' = down_since
        /\ server = "down" => pc \in {"writing", "reading"}
        /\ phase' = phase /\ mutated_case' = mutated_case /\ iteration' = iteration
        /\ kept' = kept /\ detector' = detector
    BY <1>1, EngineGoesOn DEF Execute, campaignVars
  <2>2. current' = current /\ input' = input
    BY <2>1 DEF current, input
  <2>3. DeadSince'
    BY <2>1, <2>2 DEF CompInv, DeadSince
  <2> QED BY <1>1, <2>1, <2>2, <2>3 DEF CompInv, Calls, AllKept, FailuresListed
<1>2. CASE pc' = "ready"
  <2>1. PICK r \in TcpResults :
           Return(r) /\ pc # "ready" /\ (pc = "connecting" /\ server = "down" => ~r.success)
    BY <1>2, EngineReturns DEF Execute
  <2>2. /\ started' = started /\ server' = server /\ kills' = kills /\ down_since' = down_since
        /\ results' = Append(results, r) /\ Len(results) = current - 1
        /\ current \in Nat \ {0} /\ results'[current] = r /\ input \in Inputs
        /\ DOMAIN results' = 1..current
        /\ \A n \in 1..(current - 1) : results'[n] = results[n]
    BY <2>1, ReturnLeaves DEF Given
  <2>3. /\ phase = "executing" /\ mutated_case = Some(input) /\ current = iteration + 1
        /\ current' = current /\ input' = input
    BY <2>1, <2>2 DEF CompInv, Calls, current, input
  <2>4. DeadSince'
    <3> SUFFICES ASSUME server = "down", NEW n \in 1..current, n > down_since
                 PROVE  ~results'[n].success
      BY <1>2, <2>2 DEF DeadSince
    <3>1. DOMAIN results = 1..(current - 1)
      BY <2>2
    <3>2. CASE n \in 1..(current - 1)
      BY <2>2, <3>1, <3>2 DEF CompInv, DeadSince
    <3>3. CASE n = current
      <4>1. pc \notin {"writing", "reading"}
        BY <2>2, <3>3 DEF CompInv, DeadSince
      <4>2. pc = "connecting"
        BY <2>1, <4>1 DEF Given, TypeOK
      <4> QED BY <2>1, <2>2, <3>3, <4>2
    <3> QED BY <2>2, <3>2, <3>3
  <2>5. CASE C!CoveragePanics
    <3>1. /\ phase' = "panicked" /\ iteration' = iteration /\ kept' = kept
          /\ detector' = detector
      BY <2>5 DEF C!CoveragePanics, C!detectorVars
    <3>2. Calls'
      BY <1>2, <2>3, <3>1 DEF Calls
    <3>3. \A n \in 1..iteration : results'[n] = results[n] /\ started'[n] = started[n]
      BY <2>2, <2>3
    <3> QED BY <2>4, <3>1, <3>2, <3>3 DEF CompInv, AllKept, FailuresListed
  <2>6. CASE C!Account(input, r)
    <3>1. /\ phase' = "fuzzing" /\ iteration' = iteration + 1
          /\ C!Detect(input, r) /\ C!Grow(input, r)
      BY <2>6 DEF C!Account
    <3>2. Calls'
      BY <1>2, <2>3, <3>1 DEF Calls
    <3>3. kept' = Append(kept, [data |-> input, result |-> r])
      BY <3>1, TcpResultsInteresting DEF C!Grow
    <3> DEFINE new == [data |-> input, result |-> r]
    <3>4. Len(kept') = iteration + 1 /\ kept'[iteration + 1] = new
             /\ \A n \in 1..iteration : kept'[n] = kept[n]
      <4>1. kept \in Seq([data: Inputs, result: TcpResults]) /\ Len(kept) = iteration
        BY DEF CompInv, AllKept
      <4>2. new \in [data: Inputs, result: TcpResults]
        BY <2>2
      <4> HIDE DEF new
      <4> QED BY <3>3, <4>1, <4>2 DEF new
    <3> HIDE DEF new
    <3>5. new = [data |-> started'[iteration + 1], result |-> results'[iteration + 1]]
      BY <2>2, <2>3 DEF new, input
    <3>6. \A n \in 1..iteration : results'[n] = results[n] /\ started'[n] = started[n]
      BY <2>2, <2>3
    <3>7. \A n \in 1..(iteration + 1) : n \in 1..iteration \/ n = iteration + 1
      OBVIOUS
    <3>8. AllKept'
      BY <3>1, <3>4, <3>5, <3>6, <3>7 DEF CompInv, AllKept
    <3>9. FailuresListed'
      <4>1. /\ \A h \in detector.crash_hashes : h \in detector'.crash_hashes
            /\ ~r.success => InputHash[input] \in detector'.crash_hashes
        BY <3>1, RecordedHash DEF C!Detect, C!detectorVars
      <4>2. results'[iteration + 1] = r /\ started'[iteration + 1] = input
        BY <2>2, <2>3 DEF input
      <4> QED BY <3>1, <3>6, <3>7, <4>1, <4>2 DEF CompInv, FailuresListed
    <3> QED BY <2>4, <3>2, <3>8, <3>9 DEF CompInv
  <2> QED BY <1>2, <2>2, <2>5, <2>6 DEF Execute
<1> QED BY <1>1, <1>2

\* Before the first execution and after the last nothing of all this changes.
LEMMA SurroundKeeps == ASSUME Given, CompInv, Surround PROVE CompInv'
<1>1. /\ pc' = pc /\ started' = started /\ results' = results /\ server' = server
      /\ kills' = kills /\ down_since' = down_since /\ current' = current /\ input' = input
  BY DEF Surround, vars, engineVars, serverVars, current, input
<1>2. /\ mutated_case' = mutated_case /\ iteration' = iteration /\ kept' = kept
      /\ detector' = detector
      /\ phase \notin {"executing", "panicked"} /\ phase' \notin {"executing", "panicked"}
  BY DEF Surround, C!TestConnectivity, C!SeedCorpus, C!StartSaving, C!SaveFile, C!Finish,
         C!loopVars, C!detectorVars
<1> QED BY <1>1, <1>2 DEF CompInv, Calls, AllKept, DeadSince, FailuresListed

\* A target that goes down starts the count anew, from the execution it went down during.
LEMMA TargetKeeps == ASSUME Given, CompInv, Target, UNCHANGED campaignVars PROVE CompInv'
<1>1. /\ pc' = pc /\ started' = started /\ results' = results
      /\ current' = current /\ input' = input
  BY DEF Target, TargetReads, TargetAnswers, TargetCloses, TargetDies, TargetStops, GoesDown,
         TargetRestarts, engineVars, current, input
<1>2. /\ phase' = phase /\ mutated_case' = mutated_case /\ iteration' = iteration
      /\ kept' = kept /\ detector' = detector
  BY DEF campaignVars
<1>3. DeadSince'
  <2>1. ASSUME GoesDown PROVE DeadSince'
    <3>1. down_since' = current
      BY <2>1 DEF GoesDown
    <3>2. \A n \in DOMAIN results : ~(n > current)
      BY GivenFacts
    <3> QED BY <1>1, <3>1, <3>2 DEF DeadSince
  <2>2. CASE TargetRestarts
    BY <2>2 DEF TargetRestarts, DeadSince
  <2>3. CASE TargetReads \/ TargetAnswers \/ TargetCloses
    <3>1. server' = server /\ down_since' = down_since
      BY <2>3 DEF TargetReads, TargetAnswers, TargetCloses, serverVars
    <3> QED BY <1>1, <3>1 DEF CompInv, DeadSince
  <2> QED BY <2>1, <2>2, <2>3 DEF Target, TargetStops, TargetDies
<1> QED BY <1>1, <1>2, <1>3 DEF CompInv, Calls, AllKept, FailuresListed

\* One step per kind of step of the composition.
LEMMA CompInvAlways == CampaignSpec => [](Given /\ CompInv)
<1>1. CampaignSpec => []Given
  <2>1. CampaignSpec => []TypeOK
    BY CampaignImplementsExecution, TcpTypeCorrect, PTL
  <2> QED BY <2>1, ProtocolAlways, CampaignInvInComposition, PTL DEF Given
<1>2. CampaignInit => CompInv
  <2> SUFFICES ASSUME CampaignInit PROVE CompInv
    OBVIOUS
  <2>1. /\ pc = "ready" /\ started = << >> /\ results = << >> /\ phase = "testing"
        /\ iteration = 0 /\ kept = << >>
    BY DEF CampaignInit, Init, C!Init
  <2> QED BY <2>1 DEF CompInv, Calls, AllKept, DeadSince, FailuresListed, current
<1>3. Given /\ CompInv /\ [CampaignNext]_compositionVars => CompInv'
  <2> SUFFICES ASSUME Given, CompInv, [CampaignNext]_compositionVars PROVE CompInv'
    OBVIOUS
  <2>1. CASE UNCHANGED compositionVars
    BY <2>1 DEF compositionVars, campaignVars, vars, engineVars, serverVars, current, input,
                CompInv, Calls, AllKept, DeadSince, FailuresListed
  <2> QED BY <2>1, SubmitKeeps, ExecuteKeeps, SurroundKeeps, TargetKeeps
       DEF CampaignNext, Process
<1> QED BY <1>1, <1>2, <1>3, PTL DEF CampaignSpec

\* A case that killed the target was pushed onto the corpus once accounted for, whatever
\* its execution returned, however late the target died of it, for any inputs, sizes of
\* them and of the kernels' buffers, corpus and numbers of executions and restarts
\* (mod.rs:109-117).
THEOREM KillersKeptAlways == CampaignSpec => []KillersKept
<1>1. Given /\ CompInv => KillersKept
  <2> SUFFICES ASSUME Given, CompInv, NEW n \in kills, n <= iteration
               PROVE  n \in DOMAIN kept /\ kept[n].data = started[n]
    BY DEF KillersKept
  <2>1. n \in 1..iteration
    BY GivenFacts DEF Given, TypeOK
  <2>2. DOMAIN kept = 1..iteration
    BY GivenFacts DEF CompInv, AllKept
  <2> QED BY <2>1, <2>2 DEF CompInv, AllKept
<1> QED BY <1>1, CompInvAlways, PTL

\* While the target is down, every execution begun since it went down and accounted for
\* has failed, and its input is on the crash list (mod.rs:95-107 and :314-325).
THEOREM DeathReportedAlways == CampaignSpec => []DeathReported
<1>1. Given /\ CompInv => DeathReported
  <2> SUFFICES ASSUME Given, CompInv, server = "down", NEW n \in 1..iteration, n > down_since
               PROVE  ~results[n].success /\ Listed(started[n])
    BY DEF DeathReported
  <2>1. n \in DOMAIN results
    <3>1. Len(results) >= iteration
      BY GivenFacts DEF CompInv, Calls
    <3> QED BY <3>1, GivenFacts
  <2>2. ~results[n].success
    BY <2>1 DEF CompInv, DeadSince
  <2>3. \A h \in detector.crash_hashes :
           \E c \in DOMAIN detector.crashes : detector.crashes[c].input_hash = h
    BY DEF Given, CP!CampaignInv, CP!DetectorInv, CP!IndexAgrees
  <2> QED BY <2>2, <2>3 DEF CompInv, FailuresListed, Listed
<1> QED BY <1>1, CompInvAlways, PTL
=============================================================================
