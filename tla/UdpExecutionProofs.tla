-------------------------- MODULE UdpExecutionProofs ---------------------------
(***************************************************************************)
(* That over UDP an answer credited to a test case is its own, a           *)
(* foreigner's, or one to an earlier test case with the same port, and     *)
(* that the target never reads an input whose execution failed before or   *)
(* in its send, for any inputs, ports and bounds of the model, a network   *)
(* that loses, delays, reorders and duplicates, a kernel that gives out    *)
(* any port, a target that answers when it likes, and other senders.       *)
(*                                                                         *)
(* Both properties speak of results returned.  What makes them inductive   *)
(* is what is under way: whatever could reach the socket goes to a port    *)
(* its execution has had, and nothing that could reach the target is of an *)
(* input that was not sent.                                                *)
(***************************************************************************)
EXTENDS UdpExecution, SequenceTheorems, TLAPS

\* Whatever a test case has under way goes from or to a port it has had.
FromOwnPort ==
    \A d \in requests \cup pending \cup answers : d.execution = Foreign \/ d \in bound

\* The socket is the current execution's.
PortRecorded == \A p \in port : [execution |-> current, port |-> p] \in bound

PendingTaken == \A d \in pending : d.execution \in taken

\* The target has not read the input of execution n, and cannot read it any more.
OutOfReach(n) == n \notin taken /\ \A d \in requests : d.execution # n

NotSentYet == pc \in {"binding", "sending"} => OutOfReach(current)

FailedOutOfReach ==
    \A n \in DOMAIN results :
        ~results[n].success /\ results[n] # Failed(UdpError(Other)) => OutOfReach(n)

IInv == /\ TypeOK /\ FromOwnPort /\ PortRecorded /\ PendingTaken
        /\ StrayAnswersSharePort /\ NotSentYet /\ FailedOutOfReach

-----------------------------------------------------------------------------
\* While an execution runs there is a current one, and one result less.
LEMMA Running ==
    ASSUME TypeOK, pc # "ready"
    PROVE  /\ current \in Nat \ {0} /\ Len(results) = current - 1
           /\ current \in 1..current
<1>1. Len(started) \in Nat /\ Len(results) = current - 1
  BY DEF TypeOK
<1>2. Len(results) \in Nat
  BY DEF TypeOK
<1> QED BY <1>1, <1>2 DEF current

\* Every way out of execute_udp_test_case keeps the invariant, provided that an answer
\* is one that may be credited to it, and that a failure other than of the receive comes
\* before the send.
LEMMA ReturnKeepsIInv ==
    ASSUME IInv, pc # "ready", NEW r \in UdpResults,
           pc' = "ready", port' = None, results' = Append(results, r), started' = started,
           requests' = requests, answers' \subseteq answers,
           UNCHANGED <<bound, serverVars>>,
           \A m \in r.response_data : m = Foreign \/ SamePort(current, m),
           ~r.success /\ r # Failed(UdpError(Other)) => pc \in {"binding", "sending"}
    PROVE  IInv'
<1>1. current \in Nat \ {0} /\ Len(results) = current - 1 /\ current' = current
  BY Running DEF IInv, current
<1>2. /\ results' \in Seq(UdpResults) /\ Len(results') = current
      /\ results'[current] = r
      /\ \A n \in 1..(current - 1) : results'[n] = results[n]
      /\ DOMAIN results' = 1..current
  BY <1>1 DEF IInv, TypeOK
<1>3. /\ UdpResults' = UdpResults /\ \A first : Datagrams(first)' = Datagrams(first)
      /\ server' = server /\ pending' = pending /\ taken' = taken /\ kills' = kills
      /\ down_since' = down_since /\ restarts' = restarts /\ bound' = bound
  BY <1>1 DEF UdpResults, Datagrams, serverVars
<1>4. TypeOK'
  BY <1>1, <1>2, <1>3 DEF IInv, TypeOK
<1>5. FromOwnPort' /\ PortRecorded' /\ PendingTaken' /\ NotSentYet'
  BY <1>3 DEF IInv, FromOwnPort, PortRecorded, PendingTaken, NotSentYet, None
<1>6. ASSUME NEW n \in DOMAIN results'
      PROVE  \/ n \in DOMAIN results /\ results'[n] = results[n]
             \/ n = current /\ results'[n] = r
  <2>1. CASE n < current
    BY <1>1, <1>2, <2>1 DEF IInv, TypeOK
  <2>2. CASE n = current
    BY <1>2, <2>2
  <2> QED BY <1>1, <1>2, <2>1, <2>2
<1>7. StrayAnswersSharePort'
  <2>1. \A n, m : SamePort(n, m)' <=> SamePort(n, m)
    BY <1>3 DEF SamePort
  <2> QED BY <1>6, <2>1 DEF StrayAnswersSharePort, IInv, Foreign
<1>8. FailedOutOfReach'
  <2>1. \A n : OutOfReach(n)' <=> OutOfReach(n)
    BY <1>3 DEF OutOfReach
  <2>2. ~r.success /\ r # Failed(UdpError(Other)) => OutOfReach(current)
    BY DEF IInv, NotSentYet
  <2>3. ASSUME NEW n \in DOMAIN results', ~results'[n].success,
               results'[n] # Failed(UdpError(Other))
        PROVE  OutOfReach(n)
    BY <1>6, <2>2, <2>3 DEF IInv, FailedOutOfReach
  <2> QED BY <2>1, <2>3 DEF FailedOutOfReach
<1> QED BY <1>4, <1>5, <1>7, <1>8 DEF IInv

-----------------------------------------------------------------------------
\* The ways out, one by one.
LEMMA WaysOut ==
    ASSUME IInv, \/ BindFails \/ SendFails \/ ReceiveFails \/ ReceiveTimesOut
                 \/ \E a \in answers : Receive(a)
    PROVE  IInv'
<1>1. /\ \A m : Failed(m).response_data = {} /\ TimedOut(m).response_data = {}
      /\ \A m : TimedOut(m).success = TRUE /\ Answered(m).success = TRUE
      /\ \A m : Answered(m).response_data = {m}
  BY DEF Failed, TimedOut, Answered, Result, None, Some
<1>2. CASE BindFails \/ SendFails
  <2>1. PICK r \in {Failed(SocketError(Other)), Failed(Other)} :
           pc \in {"binding", "sending"} /\ Return(r)
    BY <1>2 DEF BindFails, SendFails
  <2>2. r \in UdpResults /\ r.response_data = {}
    BY <1>1 DEF UdpResults
  <2> QED BY <2>1, <2>2, ReturnKeepsIInv DEF Return, networkVars
<1>3. CASE ReceiveFails
  <2>1. Failed(UdpError(Other)) \in UdpResults
    BY DEF UdpResults
  <2> QED BY <1>1, <1>3, <2>1, ReturnKeepsIInv DEF ReceiveFails, Return, networkVars
<1>4. CASE ReceiveTimesOut
  <2>1. TimedOut(UdpTimeout) \in UdpResults
    BY DEF UdpResults
  <2> QED BY <1>1, <1>4, <2>1, ReturnKeepsIInv DEF ReceiveTimesOut, Return, networkVars
<1>5. ASSUME NEW a \in answers, Receive(a) PROVE IInv'
  <2> DEFINE here == [execution |-> current, port |-> a.port]
  <2>1. /\ a.execution \in 0..current /\ a.port \in Ports
        /\ a = [execution |-> a.execution, port |-> a.port]
    BY DEF IInv, TypeOK, Datagrams, Foreign
  <2>2. here \in bound
    BY <1>5 DEF Receive, IInv, PortRecorded
  <2>3. a.execution = Foreign \/ a \in bound
    BY DEF IInv, FromOwnPort
  <2>4. a.execution = Foreign \/ SamePort(current, a.execution)
    BY <2>1, <2>2, <2>3 DEF SamePort
  <2>5. Answered(a.execution) \in UdpResults
    BY <2>1 DEF UdpResults
  <2>6. /\ pc = "receiving" /\ pc' = "ready" /\ port' = None /\ started' = started
        /\ results' = Append(results, Answered(a.execution))
        /\ requests' = requests /\ answers' \subseteq answers
        /\ UNCHANGED <<bound, serverVars>>
    BY <1>5 DEF Receive
  <2>7. \A m \in Answered(a.execution).response_data : m = Foreign \/ SamePort(current, m)
    BY <1>1, <2>4
  <2> HIDE DEF here
  <2> QED BY <1>1, <2>5, <2>6, <2>7, ReturnKeepsIInv
<1> QED BY <1>2, <1>3, <1>4, <1>5

\* A new execution: nothing of it is under way yet.
LEMMA BeginKeepsIInv == ASSUME IInv, NEW i \in Inputs, Begin(i) PROVE IInv'
<1>1. /\ pc = "ready" /\ pc' = "binding" /\ started' = Append(started, i)
      /\ results' = results /\ port' = port /\ requests' = requests /\ answers' = answers
      /\ server' = server /\ pending' = pending /\ taken' = taken /\ kills' = kills
      /\ down_since' = down_since /\ restarts' = restarts /\ bound' = bound
  BY DEF Begin, networkVars, serverVars
<1>2. /\ current \in Nat /\ current' = current + 1 /\ Len(results) = current
      /\ started' \in Seq(Inputs) /\ port = None
  BY <1>1 DEF IInv, TypeOK, current
<1>3. /\ 1..current \subseteq 1..(current + 1) /\ 0..current \subseteq 0..(current + 1)
      /\ current + 1 \notin 1..current
  BY <1>2
<1>4. TypeOK'
  <2>1. /\ UdpResults \subseteq UdpResults' /\ Datagrams(1) \subseteq Datagrams(1)'
        /\ Datagrams(Foreign) \subseteq Datagrams(Foreign)'
    BY <1>2, <1>3 DEF UdpResults, Datagrams, Foreign
  <2>2. results' \in Seq(UdpResults')
    BY <1>1, <2>1 DEF IInv, TypeOK
  <2>3. taken \subseteq 1..(current + 1) /\ down_since \in 0..(current + 1)
    BY <1>3 DEF IInv, TypeOK
  <2>4. /\ requests \cup pending \cup bound \subseteq Datagrams(1)'
        /\ answers \subseteq Datagrams(Foreign)'
    BY <2>1 DEF IInv, TypeOK
  <2>5. Len(results') = current' - 1
    BY <1>1, <1>2
  <2> QED BY <1>1, <1>2, <2>2, <2>3, <2>4, <2>5 DEF IInv, TypeOK, Foreign
<1>5. FromOwnPort' /\ PortRecorded' /\ PendingTaken' /\ StrayAnswersSharePort'
  BY <1>1, <1>2
     DEF IInv, FromOwnPort, PortRecorded, PendingTaken, StrayAnswersSharePort, SamePort, None,
         Foreign
<1>6. NotSentYet'
  <2>1. \A d \in requests : d.execution \in 1..current
    BY DEF IInv, TypeOK, Datagrams
  <2>2. OutOfReach(current + 1)
    BY <1>3, <2>1 DEF IInv, TypeOK, OutOfReach
  <2> QED BY <1>1, <1>2, <2>2 DEF NotSentYet, OutOfReach
<1>7. FailedOutOfReach'
  BY <1>1 DEF IInv, FailedOutOfReach, OutOfReach
<1> QED BY <1>4, <1>5, <1>6, <1>7 DEF IInv

\* Whatever port is bound, it is recorded; no port once recorded is taken back.
LEMMA BindKeepsIInv == ASSUME IInv, NEW p \in Ports, Bind(p) PROVE IInv'
<1> DEFINE here == [execution |-> current, port |-> p]
<1>1. /\ pc = "binding" /\ pc' = "sending" /\ port' = Some(p) /\ bound' = bound \cup {here}
      /\ started' = started /\ results' = results /\ requests' = requests /\ answers' = answers
      /\ server' = server /\ pending' = pending /\ taken' = taken /\ kills' = kills
      /\ down_since' = down_since /\ restarts' = restarts
  BY DEF Bind, networkVars, serverVars
<1>2. /\ current' = current /\ UdpResults' = UdpResults
      /\ \A first : Datagrams(first)' = Datagrams(first)
  BY <1>1 DEF current, UdpResults, Datagrams
<1>3. here \in Datagrams(1)
  BY <1>1, Running DEF IInv, Datagrams
<1>4. PortRecorded'
  BY <1>1, <1>2 DEF PortRecorded, Some
<1> HIDE DEF here
<1>5. TypeOK'
  BY <1>1, <1>2, <1>3 DEF IInv, TypeOK
<1>6. FromOwnPort' /\ PendingTaken' /\ NotSentYet' /\ FailedOutOfReach'
  BY <1>1, <1>2
     DEF IInv, FromOwnPort, PendingTaken, NotSentYet, FailedOutOfReach, OutOfReach, Foreign
<1>7. StrayAnswersSharePort'
  BY <1>1 DEF IInv, StrayAnswersSharePort, SamePort, Foreign
<1> QED BY <1>4, <1>5, <1>6, <1>7 DEF IInv

\* What is sent is the current input, to and from the socket's own port.
LEMMA SendKeepsIInv == ASSUME IInv, Send PROVE IInv'
<1>1. /\ pc = "sending" /\ pc' = "receiving"
      /\ requests' = requests \cup {[execution |-> current, port |-> p] : p \in port}
      /\ started' = started /\ results' = results /\ port' = port /\ answers' = answers
      /\ server' = server /\ pending' = pending /\ taken' = taken /\ kills' = kills
      /\ down_since' = down_since /\ restarts' = restarts /\ bound' = bound
  BY DEF Send, serverVars
<1>2. /\ current' = current /\ UdpResults' = UdpResults
      /\ \A first : Datagrams(first)' = Datagrams(first)
      /\ current \in Nat \ {0} /\ Len(results) = current - 1 /\ current \in 1..current
  BY <1>1, Running DEF current, UdpResults, Datagrams, IInv
<1>3. PICK p \in Ports : port = Some(p)
  BY <1>1 DEF IInv, TypeOK
<1> DEFINE sent == [execution |-> current, port |-> p]
<1>4. /\ requests' = requests \cup {sent} /\ sent \in Datagrams(1) /\ sent.execution = current
      /\ sent \in bound
  BY <1>1, <1>2, <1>3 DEF Some, Datagrams, IInv, PortRecorded
<1> HIDE DEF sent
<1>5. TypeOK'
  BY <1>1, <1>2, <1>4 DEF IInv, TypeOK
<1>6. FromOwnPort'
  BY <1>1, <1>4 DEF IInv, FromOwnPort, Foreign
<1>7. PortRecorded' /\ PendingTaken' /\ StrayAnswersSharePort' /\ NotSentYet'
  BY <1>1, <1>2
     DEF IInv, PortRecorded, PendingTaken, StrayAnswersSharePort, SamePort, NotSentYet,
         Foreign
<1>8. FailedOutOfReach'
  <2>1. \A n \in DOMAIN results : n # current
    BY <1>2 DEF IInv, TypeOK
  <2> QED BY <1>1, <1>4, <2>1 DEF IInv, FailedOutOfReach, OutOfReach
<1> QED BY <1>5, <1>6, <1>7, <1>8 DEF IInv

-----------------------------------------------------------------------------
\* The network, the target and other senders leave the engine alone, and what they put
\* under way is a foreigner's, or answers something that was.
LEMMA EnvironmentKeepsIInv == ASSUME IInv, Environment PROVE IInv'
<1>1. UNCHANGED engineVars /\ requests' \subseteq requests
  BY DEF Environment, TargetTakes, TargetAnswers, ForeignSends, Lose, TargetDies, TargetStops,
         GoesDown, TargetRestarts, networkVars
<1>2. /\ pc' = pc /\ started' = started /\ results' = results /\ port' = port
      /\ bound' = bound /\ current' = current /\ UdpResults' = UdpResults
      /\ \A first : Datagrams(first)' = Datagrams(first)
  BY <1>1 DEF engineVars, current, UdpResults, Datagrams
<1>3. PortRecorded' /\ StrayAnswersSharePort'
  BY <1>2 DEF IInv, PortRecorded, StrayAnswersSharePort, SamePort, Foreign
<1>4. SUFFICES ASSUME TRUE
               PROVE  TypeOK' /\ FromOwnPort' /\ PendingTaken' /\ NotSentYet' /\ FailedOutOfReach'
  BY <1>3 DEF IInv
<1>5. current \in Nat
  BY DEF IInv, TypeOK, current
<1>6. ASSUME taken' = taken PROVE NotSentYet' /\ FailedOutOfReach'
  BY <1>1, <1>2, <1>6 DEF IInv, NotSentYet, FailedOutOfReach, OutOfReach
<1>7. ASSUME NEW r \in requests, TargetTakes(r)
      PROVE  TypeOK' /\ FromOwnPort' /\ PendingTaken' /\ NotSentYet' /\ FailedOutOfReach'
  <2>1. /\ answers' = answers /\ pending' = pending \cup {r}
        /\ taken' = taken \cup {r.execution} /\ server' = server /\ kills' = kills
        /\ down_since' = down_since /\ restarts' = restarts
    BY <1>7 DEF TargetTakes
  <2>2. r \in Datagrams(1) /\ r.execution \in 1..current
    BY DEF IInv, TypeOK, Datagrams
  <2>3. TypeOK'
    BY <1>1, <1>2, <2>1, <2>2 DEF IInv, TypeOK
  <2>4. FromOwnPort' /\ PendingTaken'
    BY <1>1, <1>2, <2>1 DEF IInv, FromOwnPort, PendingTaken, Foreign
  <2>5. \A n : OutOfReach(n) => OutOfReach(n)'
    BY <1>1, <2>1 DEF OutOfReach
  <2>6. NotSentYet' /\ FailedOutOfReach'
    BY <1>2, <2>5 DEF IInv, NotSentYet, FailedOutOfReach
  <2> QED BY <2>3, <2>4, <2>6
<1>8. ASSUME NEW d, d \in Datagrams(Foreign), d.execution = Foreign \/ d \in bound,
             answers' \subseteq answers \cup {d}, UNCHANGED serverVars
      PROVE  TypeOK' /\ FromOwnPort' /\ PendingTaken' /\ NotSentYet' /\ FailedOutOfReach'
  <2>1. /\ server' = server /\ pending' = pending /\ taken' = taken /\ kills' = kills
        /\ down_since' = down_since /\ restarts' = restarts
    BY <1>8 DEF serverVars
  <2>2. TypeOK'
    BY <1>1, <1>2, <1>8, <2>1 DEF IInv, TypeOK
  <2>3. FromOwnPort' /\ PendingTaken'
    BY <1>1, <1>2, <1>8, <2>1 DEF IInv, FromOwnPort, PendingTaken, Foreign
  <2> QED BY <1>6, <2>1, <2>2, <2>3
<1>9. ASSUME NEW r \in pending, TargetAnswers(r)
      PROVE  TypeOK' /\ FromOwnPort' /\ PendingTaken' /\ NotSentYet' /\ FailedOutOfReach'
  <2>1. r \in Datagrams(Foreign) /\ (r.execution = Foreign \/ r \in bound)
    BY <1>5 DEF IInv, TypeOK, Datagrams, FromOwnPort, Foreign
  <2> QED BY <1>8, <1>9, <2>1 DEF TargetAnswers
<1>10. ASSUME NEW p \in Ports, ForeignSends(p)
       PROVE  TypeOK' /\ FromOwnPort' /\ PendingTaken' /\ NotSentYet' /\ FailedOutOfReach'
  <2> DEFINE d == [execution |-> Foreign, port |-> p]
  <2>1. d \in Datagrams(Foreign) /\ d.execution = Foreign
    BY <1>5 DEF Datagrams, Foreign
  <2>2. answers' = answers \cup {d} /\ UNCHANGED serverVars
    BY <1>10 DEF ForeignSends
  <2> HIDE DEF d
  <2> QED BY <1>8, <2>1, <2>2
<1>11. ASSUME answers' \subseteq answers, server' \in {"up", "down"}, pending' \subseteq pending,
              taken' = taken, kills' \subseteq taken, down_since' \in 0..current,
              restarts' \in 0..MaxRestarts
       PROVE  TypeOK' /\ FromOwnPort' /\ PendingTaken' /\ NotSentYet' /\ FailedOutOfReach'
  <2>1. TypeOK'
    BY <1>1, <1>2, <1>11 DEF IInv, TypeOK
  <2>2. FromOwnPort' /\ PendingTaken'
    BY <1>1, <1>2, <1>11 DEF IInv, FromOwnPort, PendingTaken, Foreign
  <2> QED BY <1>6, <1>11, <2>1, <2>2
<1>12. CASE Lose
  <2>1. /\ answers' \subseteq answers /\ server' = server /\ pending' = pending
        /\ taken' = taken /\ kills' = kills /\ down_since' = down_since /\ restarts' = restarts
    BY <1>12 DEF Lose, serverVars
  <2> QED BY <1>11, <2>1 DEF IInv, TypeOK
<1>13. CASE TargetStops \/ \E r \in pending : TargetDies(r)
  <2>1. /\ answers' = answers /\ server' = "down" /\ pending' = {} /\ taken' = taken
        /\ down_since' = current /\ restarts' = restarts
    BY <1>13 DEF TargetStops, TargetDies, GoesDown, networkVars
  <2>2. kills' \subseteq taken
    <3>1. kills \subseteq taken
      BY DEF IInv, TypeOK
    <3>2. ASSUME NEW r \in pending, TargetDies(r) PROVE kills' = kills \cup {r.execution}
      BY <3>2 DEF TargetDies
    <3> QED BY <1>13, <3>1, <3>2 DEF TargetStops, IInv, PendingTaken
  <2> QED BY <1>5, <1>11, <2>1, <2>2 DEF IInv, TypeOK
<1>14. CASE TargetRestarts
  <2>1. /\ answers' = answers /\ server' = "up" /\ pending' = pending /\ taken' = taken
        /\ kills' = kills /\ down_since' = down_since /\ restarts' \in 0..MaxRestarts
    BY <1>14, UdpAssumption DEF TargetRestarts, networkVars, IInv, TypeOK
  <2> QED BY <1>11, <2>1 DEF IInv, TypeOK
<1> QED BY <1>7, <1>9, <1>10, <1>12, <1>13, <1>14 DEF Environment

-----------------------------------------------------------------------------
\* The invariant is inductive.
LEMMA IInvAlways == Spec => []IInv
<1>1. Init => IInv
  <2> SUFFICES ASSUME Init PROVE IInv
    OBVIOUS
  <2>1. started = << >> /\ results = << >> /\ current = 0
    BY DEF Init, current
  <2>2. started \in Seq(Inputs) /\ results \in Seq(UdpResults) /\ Len(results) = 0
    BY <2>1
  <2>3. 0 \in 0..MaxRestarts
    BY UdpAssumption
  <2>4. TypeOK
    <3>1. /\ pc \in {"ready", "binding", "sending", "receiving"} /\ server \in {"up", "down"}
          /\ pc = "ready" /\ port = None
      BY DEF Init
    <3>2. /\ requests \cup pending \cup bound \subseteq Datagrams(1)
          /\ answers \subseteq Datagrams(Foreign)
          /\ kills \subseteq taken /\ taken \subseteq 1..current /\ down_since \in 0..current
          /\ restarts \in 0..MaxRestarts
      BY <2>1, <2>3 DEF Init
    <3>3. Len(results) = IF pc = "ready" THEN current ELSE current - 1
      BY <2>1, <2>2, <3>1
    <3> QED BY <2>2, <3>1, <3>2, <3>3 DEF TypeOK
  <2> QED BY <2>1, <2>4
       DEF Init, IInv, FromOwnPort, PortRecorded, PendingTaken, StrayAnswersSharePort, NotSentYet,
           FailedOutOfReach, None
<1>2. IInv /\ [Next]_vars => IInv'
  <2> SUFFICES ASSUME IInv, [Next]_vars PROVE IInv'
    OBVIOUS
  <2>1. CASE Next
    BY <2>1, BeginKeepsIInv, BindKeepsIInv, SendKeepsIInv, WaysOut, EnvironmentKeepsIInv
       DEF Next, Engine, EngineFails
  <2>2. CASE UNCHANGED vars
    <3>1. /\ pc' = pc /\ started' = started /\ results' = results /\ port' = port
          /\ bound' = bound /\ requests' = requests /\ answers' = answers /\ server' = server
          /\ pending' = pending /\ taken' = taken /\ kills' = kills
          /\ down_since' = down_since /\ restarts' = restarts /\ current' = current
      BY <2>2 DEF vars, engineVars, networkVars, serverVars, current
    <3>2. UdpResults' = UdpResults /\ \A first : Datagrams(first)' = Datagrams(first)
      BY <3>1 DEF UdpResults, Datagrams
    <3>3. TypeOK'
      BY <3>1, <3>2 DEF IInv, TypeOK
    <3>4. FromOwnPort' /\ PortRecorded' /\ PendingTaken' /\ NotSentYet' /\ FailedOutOfReach'
      BY <3>1 DEF IInv, FromOwnPort, PortRecorded, PendingTaken, NotSentYet, FailedOutOfReach,
                  OutOfReach, Foreign
    <3>5. StrayAnswersSharePort'
      BY <3>1 DEF IInv, StrayAnswersSharePort, SamePort, Foreign
    <3> QED BY <3>3, <3>4, <3>5 DEF IInv
  <2> QED BY <2>1, <2>2
<1> QED BY <1>1, <1>2, PTL DEF Spec

\* The executor's type invariant, with the socket bound only while an execution uses it,
\* holds for any inputs, ports and bounds.
THEOREM UdpTypeCorrect == Spec => []TypeOK
<1>1. IInv => TypeOK
  BY DEF IInv
<1> QED BY <1>1, IInvAlways, PTL

\* An answer credited to a test case is its own, a foreigner's, or one to an earlier test
\* case for which the kernel had given out the same port, however late the target answers
\* and whatever the network holds copies of: no port is recorded for two executions as long
\* as the kernel gives out a new one each time, and then no stray answer of the target to
\* another test case is credited to this one.
THEOREM StrayAnswersSharePortAlways == Spec => []StrayAnswersSharePort
<1>1. IInv => StrayAnswersSharePort
  BY DEF IInv
<1> QED BY <1>1, IInvAlways, PTL

\* An input whose bind or send failed is never read by the target, not even late.
THEOREM FailedInputNotTakenAlways == Spec => []FailedInputNotTaken
<1>1. IInv => FailedInputNotTaken
  BY DEF IInv, FailedOutOfReach, OutOfReach, FailedInputNotTaken
<1> QED BY <1>1, IInvAlways, PTL
=============================================================================
