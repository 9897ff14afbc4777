------------------------- MODULE LoadGeneratorProofs --------------------------
(***************************************************************************)
(* That the load generator keeps its rate and that its report is complete, *)
(* for any number of connections, rate, duration and delays.               *)
(*                                                                         *)
(* The rate is kept by each worker for itself (Paced).  That the report    *)
(* counts every request once is a bijection, which the invariant extends   *)
(* worker by worker, between the results the caller has and the requests   *)
(* of the workers it has joined (Collected).                               *)
(***************************************************************************)
EXTENDS LoadGenerator, FiniteSetTheorems, FunctionTheorems, SequenceTheorems, TLAPS

Entries == [success: BOOLEAN, begun: Nat, ended: Nat]

\* Type invariant of the load generator.
LoadTypeOK ==
    /\ now \in Nat /\ joined \in 0..concurrent_connections
    /\ pc \in [Workers -> {"spawned", "connecting", "writing", "stuck", "sleeping", "returned"}]
    /\ since \in [Workers -> Nat]
    /\ worker_start \in [Workers -> Nat] /\ request_start \in [Workers -> Nat]
    /\ worker_results \in [Workers -> Seq(Entries)]
    /\ results \in Seq(Entries)

\* Every request but a worker's first came a pause after the one before.
Paced ==
    \A w \in Workers :
        LET requests == Len(worker_results[w])
        IN  /\ since[w] <= now
            /\ pc[w] = "spawned" => requests = 0
            /\ pc[w] \in {"connecting", "writing", "stuck"} =>
                  requests * delay_between_requests <= now
            /\ requests > 0 => (requests - 1) * delay_between_requests <= now
            /\ pc[w] = "sleeping" =>
                  requests > 0 /\ (requests - 1) * delay_between_requests <= since[w]
            /\ \A k \in 1..requests : worker_results[w][k].ended <= now

\* Who has returned was there for the whole duration, and whoever was joined has returned.
Returned ==
    /\ \A w \in Workers : pc[w] = "returned" => now >= duration
    /\ \A w \in 1..joined : pc[w] = "returned"

\* The results the caller has are the requests of the workers it has joined.
Filed(f) == /\ f \in Bijection(DOMAIN results, RequestsOf(1..joined))
            /\ \A k \in DOMAIN results : results[k] = Outcome(f[k])
Collected == \E f : Filed(f)

Succeeded(success) == {k \in DOMAIN results : results[k].success = success}

Reported ==
    report # {} =>
        /\ joined = concurrent_connections
        /\ report = {[total_requests      |-> Len(results),
                      successful_requests |-> Cardinality(Succeeded(TRUE)),
                      failed_requests     |-> Cardinality(Succeeded(FALSE)),
                      total_time          |-> now]}

LoadInv == LoadTypeOK /\ Paced /\ Returned /\ Collected /\ Reported

-----------------------------------------------------------------------------
(* Arithmetic *)

\* A product grows with its factor.
LEMMA Monotone == \A a, b \in Int, c \in Nat : a <= b => a * c <= b * c
  OBVIOUS

\* Chains of inequalities between opaque products.
LEMMA Transitive == \A a, b, c \in Int : a <= b /\ b <= c => a <= c
  OBVIOUS

\* The pause is what the rate and the number of workers make of a second.
LEMMA PauseIs ==
    /\ delay_between_requests \in Nat \ {0}
    /\ request_rate <= concurrent_connections => delay_between_requests = Second
    /\ request_rate > concurrent_connections =>
          delay_between_requests * request_rate = Second * concurrent_connections
<1>1. /\ concurrent_connections \in Nat \ {0} /\ request_rate \in Nat \ {0}
      /\ Second \in Nat \ {0}
  BY LoadAssumption
<1>2. CASE request_rate <= concurrent_connections
  BY <1>1, <1>2 DEF delay_between_requests
<1>3. CASE request_rate > concurrent_connections
  <2> DEFINE m == Second * concurrent_connections
             d == m \div request_rate
  <2>1. m \in Nat \ {0} /\ m % request_rate = 0
    <3>1. \A x, y \in Nat \ {0} : x * y \in Nat \ {0}
      OBVIOUS
    <3> QED BY <1>1, <1>3, <3>1, LoadAssumption
  <2> HIDE DEF m
  <2>2. m = request_rate * d + (m % request_rate) /\ d \in Nat
    BY <1>1, <2>1
  <2> HIDE DEF d
  <2>3. d * request_rate = m
    BY <1>1, <2>1, <2>2
  <2>4. d # 0
    BY <1>1, <2>1, <2>3
  <2>5. delay_between_requests = d
    BY <1>1, <1>3 DEF delay_between_requests, d, m
  <2> QED BY <1>1, <1>3, <2>2, <2>3, <2>4, <2>5 DEF m
<1> QED BY <1>1, <1>2, <1>3

-----------------------------------------------------------------------------
(* Counting *)

\* A bijection that takes a part of one finite set to a part of the other counts both.
LEMMA SameCount ==
    ASSUME NEW S, IsFiniteSet(S), NEW T, NEW f \in Bijection(S, T),
           NEW P \in SUBSET S, NEW Q \in SUBSET T, \A s \in S : s \in P <=> f[s] \in Q
    PROVE  Cardinality(P) = Cardinality(Q)
<1> DEFINE g == [s \in P |-> f[s]]
<1>1. /\ f \in [S -> T] /\ \A a, b \in S : f[a] = f[b] => a = b
      /\ \A t \in T : \E s \in S : f[s] = t
  BY DEF Bijection, Injection, IsInjective, Surjection
<1>2. g \in [P -> Q] /\ \A a, b \in P : g[a] = g[b] => a = b
  BY <1>1
<1>3. \A t \in Q : \E s \in P : g[s] = t
  BY <1>1
<1>4. g \in Bijection(P, Q)
  BY <1>2, <1>3 DEF Bijection, Injection, IsInjective, Surjection
<1>5. ExistsBijection(P, Q)
  BY <1>4 DEF ExistsBijection
<1>6. IsFiniteSet(P)
  BY FS_Subset
<1> QED BY <1>5, <1>6, FS_Bijection

-----------------------------------------------------------------------------
(* The workers *)

\* A worker that has not returned was not joined, so that its steps are none of the
\* caller's business.
LEMMA CallerUntouched ==
    ASSUME LoadInv, NEW w \in Workers, pc[w] # "returned",
           UNCHANGED <<now, callerVars>>,
           \A v \in Workers : v # w => pc'[v] = pc[v] /\ worker_results'[v] = worker_results[v]
    PROVE  /\ \A v \in 1..joined : pc'[v] = "returned"
           /\ Collected' /\ Reported'
<1>1. \A v \in 1..joined : v \in Workers /\ pc[v] = "returned" /\ v # w
  BY LoadAssumption DEF LoadInv, LoadTypeOK, Returned, Workers
<1>2. \A v \in 1..joined : pc'[v] = "returned" /\ worker_results'[v] = worker_results[v]
  BY <1>1
<1>3. joined' = joined /\ results' = results /\ report' = report /\ now' = now
  BY DEF callerVars
<1>4. RequestsOf(1..joined)' = RequestsOf(1..joined)
  BY <1>2, <1>3 DEF RequestsOf
<1>5. \A q \in RequestsOf(1..joined) : Outcome(q)' = Outcome(q)
  BY <1>2 DEF RequestsOf, Outcome
<1>6. Collected'
  <2>1. PICK f : Filed(f)
    BY DEF LoadInv, Collected
  <2>2. f \in [DOMAIN results -> RequestsOf(1..joined)]
    BY <2>1 DEF Filed, Bijection, Injection
  <2>3. Filed(f)'
    BY <1>3, <1>4, <1>5, <2>1, <2>2 DEF Filed
  <2> QED BY <2>3 DEF Collected
<1>7. Reported'
  BY <1>3 DEF LoadInv, Reported, Succeeded
<1> QED BY <1>2, <1>6, <1>7

\* The steps of a worker that end no request.
LEMMA MoveKeepsInv ==
    ASSUME LoadInv, NEW w \in Workers, NEW place, Goto(w, place),
           UNCHANGED <<now, worker_results, callerVars>>,
           place \in {"connecting", "writing", "stuck", "returned"}, pc[w] # "returned",
           pc[w] = "sleeping" => now >= since[w] + delay_between_requests,
           place \in {"writing", "stuck"} => pc[w] \in {"connecting", "writing"},
           place = "connecting" => pc[w] \in {"spawned", "sleeping"},
           place = "returned" => now >= duration,
           worker_start' \in [Workers -> Nat], request_start' \in [Workers -> Nat]
    PROVE  LoadInv'
<1>1. /\ pc' = [pc EXCEPT ![w] = place] /\ since' = [since EXCEPT ![w] = now]
      /\ now' = now /\ worker_results' = worker_results /\ joined' = joined
      /\ results' = results
  BY DEF Goto, callerVars
<1>2. LoadTypeOK'
  BY <1>1 DEF LoadInv, LoadTypeOK
<1>3. \A v \in Workers : /\ pc'[v] = IF v = w THEN place ELSE pc[v]
                         /\ since'[v] = IF v = w THEN now ELSE since[v]
  BY <1>1 DEF LoadInv, LoadTypeOK
<1>4. /\ \A v \in 1..joined : pc'[v] = "returned"
      /\ Collected' /\ Reported'
  BY <1>1, <1>3, CallerUntouched
<1>5. Returned'
  BY <1>1, <1>3, <1>4 DEF LoadInv, Returned
<1>6. delay_between_requests \in Nat
  BY PauseIs
<1> DEFINE requests == Len(worker_results[w])
<1>7. requests \in Nat /\ now \in Nat /\ since[w] \in Nat
  BY DEF LoadInv, LoadTypeOK
<1>8. place \in {"connecting", "writing", "stuck"} => requests * delay_between_requests <= now
  <2>1. CASE pc[w] \in {"connecting", "writing"}
    BY <2>1 DEF LoadInv, Paced
  <2>2. CASE pc[w] = "spawned"
    BY <2>2, <1>6, <1>7 DEF LoadInv, Paced
  <2>3. CASE pc[w] = "sleeping"
    <3>1. requests > 0 /\ (requests - 1) * delay_between_requests <= since[w]
      BY <2>3 DEF LoadInv, Paced
    <3> HIDE DEF requests
    <3>2. (requests - 1) * delay_between_requests + delay_between_requests
             = requests * delay_between_requests
      BY <1>6, <1>7
    <3>3. (requests - 1) * delay_between_requests \in Int
      BY <1>6, <1>7
    <3> QED BY <1>6, <1>7, <2>3, <3>1, <3>2, <3>3
  <2> QED BY <2>1, <2>2, <2>3
<1>9. Paced'
  <2>1. \A v \in Workers : (delay_between_requests * 0 = 0) /\ worker_results'[v] = worker_results[v]
    BY <1>1, <1>6
  <2> SUFFICES ASSUME NEW v \in Workers
               PROVE  LET n == Len(worker_results[v])
                      IN  /\ since'[v] <= now
                          /\ pc'[v] = "spawned" => n = 0
                          /\ pc'[v] \in {"connecting", "writing", "stuck"} =>
                                n * delay_between_requests <= now
                          /\ n > 0 => (n - 1) * delay_between_requests <= now
                          /\ pc'[v] = "sleeping" =>
                                n > 0 /\ (n - 1) * delay_between_requests <= since'[v]
                          /\ \A k \in 1..n : worker_results[v][k].ended <= now
    BY <1>1 DEF Paced
  <2>2. CASE v = w
    BY <1>3, <1>7, <1>8, <2>2 DEF LoadInv, Paced
  <2>3. CASE v # w
    BY <1>3, <2>3 DEF LoadInv, Paced
  <2> QED BY <2>2, <2>3
<1> QED BY <1>2, <1>4, <1>5, <1>9 DEF LoadInv

\* A request ends.
LEMMA FinishKeepsInv ==
    ASSUME LoadInv, NEW w \in Workers, NEW success \in BOOLEAN, Finish(w, success),
           pc[w] \in {"connecting", "writing"}
    PROVE  LoadInv'
<1> DEFINE entry == [success |-> success, begun |-> request_start[w], ended |-> now]
           longer == Append(worker_results[w], entry)
           n == Len(worker_results[w])
<1>1. /\ pc' = [pc EXCEPT ![w] = "sleeping"] /\ since' = [since EXCEPT ![w] = now]
      /\ worker_results' = [worker_results EXCEPT ![w] = longer]
      /\ now' = now /\ joined' = joined /\ results' = results
      /\ worker_start' = worker_start /\ request_start' = request_start
  BY DEF Finish, Goto, callerVars
<1>2. /\ now \in Nat /\ n \in Nat /\ entry \in Entries /\ worker_results[w] \in Seq(Entries)
  BY DEF LoadInv, LoadTypeOK, Entries
<1>3. entry.ended = now
  OBVIOUS
<1> HIDE DEF entry
<1>4. /\ longer \in Seq(Entries) /\ Len(longer) = n + 1 /\ longer[n + 1] = entry
      /\ \A k \in 1..n : longer[k] = worker_results[w][k]
  BY <1>2, AppendProperties
<1> HIDE DEF longer
<1>5. LoadTypeOK'
  BY <1>1, <1>4 DEF LoadInv, LoadTypeOK
<1>6. \A v \in Workers : /\ pc'[v] = IF v = w THEN "sleeping" ELSE pc[v]
                         /\ since'[v] = IF v = w THEN now ELSE since[v]
                         /\ worker_results'[v] = IF v = w THEN longer ELSE worker_results[v]
  BY <1>1 DEF LoadInv, LoadTypeOK
<1>7. /\ \A v \in 1..joined : pc'[v] = "returned"
      /\ Collected' /\ Reported'
  BY <1>1, <1>6, CallerUntouched DEF Finish
<1>8. Returned'
  BY <1>1, <1>6, <1>7 DEF LoadInv, Returned
<1>9. /\ n * delay_between_requests <= now
      /\ \A k \in 1..n : worker_results[w][k].ended <= now
  BY DEF LoadInv, Paced
<1>10. Paced'
  <2> SUFFICES ASSUME NEW v \in Workers
               PROVE  LET m == Len(worker_results'[v])
                      IN  /\ since'[v] <= now
                          /\ pc'[v] = "spawned" => m = 0
                          /\ pc'[v] \in {"connecting", "writing", "stuck"} =>
                                m * delay_between_requests <= now
                          /\ m > 0 => (m - 1) * delay_between_requests <= now
                          /\ pc'[v] = "sleeping" =>
                                m > 0 /\ (m - 1) * delay_between_requests <= since'[v]
                          /\ \A k \in 1..m : worker_results'[v][k].ended <= now
    BY <1>1 DEF Paced
  <2>1. CASE v = w
    <3>1. /\ worker_results'[v] = longer /\ Len(longer) > 0 /\ Len(longer) - 1 = n
          /\ now <= now /\ pc'[v] = "sleeping" /\ since'[v] = now
      BY <1>2, <1>4, <1>6, <2>1
    <3>2. \A k \in 1..Len(longer) : longer[k].ended <= now
      <4>1. TAKE k \in 1..Len(longer)
      <4>2. CASE k \in 1..n
        BY <1>4, <1>9, <4>2
      <4>3. CASE k = n + 1
        BY <1>2, <1>3, <1>4, <4>3
      <4> QED BY <1>2, <1>4, <4>2, <4>3
    <3> QED BY <1>9, <3>1, <3>2
  <2>2. CASE v # w
    BY <1>6, <2>2 DEF LoadInv, Paced
  <2> QED BY <2>1, <2>2
<1> QED BY <1>5, <1>7, <1>8, <1>10 DEF LoadInv

\* A worker keeps to its own pace.
LEMMA WorkerKeepsInv ==
    ASSUME LoadInv, NEW w \in Workers, Worker(w) \/ Stall(w)
    PROVE  LoadInv'
<1>1. /\ now \in Nat /\ duration \in Nat
      /\ worker_start \in [Workers -> Nat] /\ request_start \in [Workers -> Nat]
  BY LoadAssumption DEF LoadInv, LoadTypeOK
<1>2. CASE Start(w)
  <2>1. /\ worker_start' \in [Workers -> Nat] /\ request_start' \in [Workers -> Nat]
        /\ pc[w] = "spawned"
    BY <1>1, <1>2 DEF Start
  <2>2. CASE duration > 0
    BY <1>2, <2>1, <2>2, MoveKeepsInv DEF Start
  <2>3. CASE ~(duration > 0)
    <3>1. now >= duration
      BY <1>1, <2>3
    <3> QED BY <1>2, <2>1, <2>3, <3>1, MoveKeepsInv DEF Start
  <2> QED BY <2>2, <2>3
<1>3. CASE Again(w)
  <2>1. /\ worker_start' \in [Workers -> Nat] /\ request_start' \in [Workers -> Nat]
        /\ pc[w] = "sleeping" /\ now >= since[w] + delay_between_requests
    BY <1>1, <1>3 DEF Again
  <2>2. CASE now - worker_start[w] < duration
    BY <1>3, <2>1, <2>2, MoveKeepsInv DEF Again
  <2>3. CASE ~(now - worker_start[w] < duration)
    <3>1. now >= duration
      <4>1. worker_start[w] \in Nat
        BY <1>1
      <4> QED BY <1>1, <2>3, <4>1
    <3> QED BY <1>3, <2>1, <2>3, <3>1, MoveKeepsInv DEF Again
  <2> QED BY <2>2, <2>3
<1>4. CASE Connect(w)
  BY <1>1, <1>4, MoveKeepsInv DEF Connect
<1>5. CASE Stall(w)
  BY <1>1, <1>5, MoveKeepsInv DEF Stall
<1>6. CASE ConnectFails(w)
  BY <1>6, FinishKeepsInv DEF ConnectFails
<1>7. CASE WriteReturns(w)
  BY <1>7, FinishKeepsInv DEF WriteReturns
<1> QED BY <1>2, <1>3, <1>4, <1>5, <1>6, <1>7 DEF Worker

-----------------------------------------------------------------------------
(* The caller, and time *)

\* Joining one more worker extends the bijection by that worker's requests, in their order.
LEMMA JoinKeepsCollected ==
    ASSUME LoadInv, Join
    PROVE  Collected'
<1>0. PICK j, more, old, n : /\ j = joined + 1 /\ more = worker_results[j]
                             /\ old = Len(results) /\ n = Len(more)
  <2>1. \E j, more, old, n : /\ j = joined + 1 /\ more = worker_results[j]
                             /\ old = Len(results) /\ n = Len(more)
    <3> WITNESS joined + 1, worker_results[joined + 1], Len(results),
                Len(worker_results[joined + 1])
    <3> QED OBVIOUS
  <2> QED BY <2>1
<1>1. /\ joined \in Nat /\ j \in Workers /\ j \in Nat /\ joined' = j
      /\ worker_results' = worker_results /\ results' = results \o more
      /\ results \in Seq(Entries) /\ more \in Seq(Entries) /\ old \in Nat /\ n \in Nat
      /\ DOMAIN more = 1..n /\ DOMAIN results = 1..old
  BY <1>0, LoadAssumption DEF LoadInv, LoadTypeOK, Join, workerVars, Workers
<1>2. PICK f : Filed(f)
  BY DEF LoadInv, Collected
<1>3. /\ f \in [1..old -> RequestsOf(1..joined)]
      /\ \A a, b \in 1..old : f[a] = f[b] => a = b
      /\ \A q \in RequestsOf(1..joined) : \E k \in 1..old : f[k] = q
      /\ \A k \in 1..old : results[k] = Outcome(f[k])
  BY <1>1, <1>2 DEF Filed, Bijection, Injection, IsInjective, Surjection
<1>4. /\ DOMAIN results' = 1..(old + n)
      /\ \A k \in 1..old : results'[k] = results[k]
      /\ \A k \in 1..n : results'[old + k] = more[k]
  <2>1. /\ results' \in Seq(Entries) /\ Len(results') = old + n
        /\ \A k \in 1..(old + n) :
              results'[k] = IF k <= old THEN results[k] ELSE more[k - old]
    BY <1>0, <1>1, ConcatProperties
  <2>2. DOMAIN results' = 1..(old + n)
    BY <2>1
  <2>3. \A k \in 1..old : k \in 1..(old + n) /\ k <= old
    BY <1>1
  <2>4. \A k \in 1..n : old + k \in 1..(old + n) /\ ~(old + k <= old) /\ (old + k) - old = k
    BY <1>1
  <2> QED BY <2>1, <2>2, <2>3, <2>4
<1>5. \A q : q \in RequestsOf(1..joined)' <=>
                q \in RequestsOf(1..joined) \/ \E k \in 1..n : q = <<j, k>>
  <2>1. 1..joined' = 1..joined \cup {j}
    BY <1>0, <1>1
  <2>2. DOMAIN worker_results[j] = 1..n
    BY <1>0, <1>1
  <2>3. \A q, W : q \in RequestsOf(W) <=>
                    \E w \in W : \E k \in DOMAIN worker_results[w] : q = <<w, k>>
    BY DEF RequestsOf
  <2>4. RequestsOf(1..joined)' = RequestsOf(1..joined \cup {j})
    BY <1>1, <2>1 DEF RequestsOf
  <2>5. \A q : q \in RequestsOf(1..joined \cup {j}) <=>
                  \E w \in 1..joined \cup {j} : \E k \in DOMAIN worker_results[w] : q = <<w, k>>
    BY <2>3
  <2>6. \A q : q \in RequestsOf(1..joined) <=>
                  \E w \in 1..joined : \E k \in DOMAIN worker_results[w] : q = <<w, k>>
    BY <2>3
  <2> SUFFICES ASSUME NEW q
               PROVE  q \in RequestsOf(1..joined \cup {j}) <=>
                         q \in RequestsOf(1..joined) \/ \E k \in 1..n : q = <<j, k>>
    BY <2>4
  <2>7. (\E w \in 1..joined \cup {j} : \E k \in DOMAIN worker_results[w] : q = <<w, k>>)
           <=> \/ \E w \in 1..joined : \E k \in DOMAIN worker_results[w] : q = <<w, k>>
               \/ \E k \in 1..n : q = <<j, k>>
    BY <2>2, Zenon
  <2> QED BY <2>5, <2>6, <2>7
<1>6. \A k \in 1..n : <<j, k>> \notin RequestsOf(1..joined)
  <2>1. j \notin 1..joined
    BY <1>0, <1>1
  <2> QED BY <2>1 DEF RequestsOf
<1> DEFINE g == [k \in 1..(old + n) |-> IF k <= old THEN f[k] ELSE <<j, k - old>>]
<1>7. /\ \A k \in 1..old : k \in 1..(old + n) /\ g[k] = f[k]
      /\ \A k \in 1..n : old + k \in 1..(old + n) /\ g[old + k] = <<j, k>>
  BY <1>1
<1>8. \A k \in 1..(old + n) : k \in 1..old \/ \E i \in 1..n : k = old + i
  <2>1. \A k \in 1..(old + n) : k \in 1..old \/ (k - old \in 1..n /\ k = old + (k - old))
    BY <1>1
  <2> QED BY <2>1
<1>9. DOMAIN g = 1..(old + n) /\ g = [k \in 1..(old + n) |-> g[k]]
  OBVIOUS
<1> HIDE DEF g
<1>10. \A k \in 1..(old + n) : g[k] \in RequestsOf(1..joined)'
  <2>1. \A k \in 1..old : f[k] \in RequestsOf(1..joined)
    BY <1>3
  <2>2. \A k \in 1..old : g[k] \in RequestsOf(1..joined)'
    BY <1>5, <1>7, <2>1
  <2>3. \A k \in 1..n : g[old + k] \in RequestsOf(1..joined)'
    BY <1>5, <1>7
  <2> QED BY <1>8, <2>2, <2>3
<1>11. \A a, b \in 1..(old + n) : g[a] = g[b] => a = b
  <2> SUFFICES ASSUME NEW a \in 1..(old + n), NEW b \in 1..(old + n), g[a] = g[b]
               PROVE  a = b
    OBVIOUS
  <2>1. CASE a \in 1..old /\ b \in 1..old
    BY <1>3, <1>7, <2>1
  <2>2. ASSUME NEW k \in 1..n, NEW i \in 1..n, a = old + k, b = old + i PROVE a = b
    BY <1>7, <2>2
  <2>5. \A k \in 1..n, i \in 1..old : g[old + k] # g[i]
    <3>1. \A i \in 1..old : f[i] \in RequestsOf(1..joined)
      BY <1>3
    <3> QED BY <1>6, <1>7, <3>1
  <2>3. ASSUME NEW k \in 1..n, a = old + k, b \in 1..old PROVE FALSE
    BY <2>3, <2>5
  <2>4. ASSUME NEW k \in 1..n, b = old + k, a \in 1..old PROVE FALSE
    BY <2>4, <2>5
  <2> QED BY <1>8, <2>1, <2>2, <2>3, <2>4
<1>12. \A q \in RequestsOf(1..joined)' : \E k \in 1..(old + n) : g[k] = q
  BY <1>3, <1>5, <1>7
<1>13. \A k \in 1..(old + n) : results'[k] = Outcome(g[k])'
  <2> SUFFICES ASSUME NEW k \in 1..(old + n) PROVE results'[k] = Outcome(g[k])
    BY <1>1 DEF Outcome
  <2>1. CASE k \in 1..old
    BY <1>3, <1>4, <1>7, <2>1
  <2>2. ASSUME NEW i \in 1..n, k = old + i PROVE results'[k] = Outcome(g[k])
    BY <1>0, <1>4, <1>7, <2>2 DEF Outcome
  <2> QED BY <1>8, <2>1, <2>2
<1>14. g \in [1..(old + n) -> RequestsOf(1..joined)']
  BY <1>9, <1>10
<1>15. g \in Bijection(1..(old + n), RequestsOf(1..joined)')
  BY <1>11, <1>12, <1>14 DEF Bijection, Injection, IsInjective, Surjection
<1>16. \E h : Filed(h)'
  BY <1>4, <1>13, <1>15 DEF Filed
<1> QED BY <1>16 DEF Collected

\* The caller takes what a worker returns.
LEMMA JoinKeepsInv == ASSUME LoadInv, Join PROVE LoadInv'
<1>1. /\ joined < concurrent_connections /\ pc[joined + 1] = "returned" /\ joined' = joined + 1
      /\ results' = results \o worker_results[joined + 1] /\ report' = report
      /\ UNCHANGED <<now, pc, since, worker_start, request_start, worker_results>>
  BY DEF Join, workerVars
<1>2. joined \in 0..concurrent_connections /\ concurrent_connections \in Nat
         /\ joined + 1 \in Workers
  BY <1>1, LoadAssumption DEF LoadInv, LoadTypeOK, Workers
<1>3. LoadTypeOK'
  <2>1. results \o worker_results[joined + 1] \in Seq(Entries)
    BY <1>2, ConcatProperties DEF LoadInv, LoadTypeOK
  <2> QED BY <1>1, <1>2, <2>1 DEF LoadInv, LoadTypeOK
<1>4. Paced'
  BY <1>1 DEF LoadInv, Paced
<1>5. Returned'
  <2>1. \A v \in 1..(joined + 1) : v \in 1..joined \/ v = joined + 1
    BY <1>2
  <2> QED BY <1>1, <2>1 DEF LoadInv, Returned
<1>6. Reported'
  <2>1. joined # concurrent_connections
    BY <1>1, <1>2
  <2>2. report = {}
    BY <2>1 DEF LoadInv, Reported
  <2> QED BY <1>1, <2>2 DEF Reported
<1> QED BY <1>3, <1>4, <1>5, <1>6, JoinKeepsCollected DEF LoadInv

\* The report is made once, from all the results.
LEMMA ReportKeepsInv == ASSUME LoadInv, Report PROVE LoadInv'
<1>1. /\ joined = concurrent_connections /\ joined' = joined /\ results' = results
      /\ UNCHANGED <<now, pc, since, worker_start, request_start, worker_results>>
      /\ report' = {[total_requests      |-> Len(results),
                     successful_requests |-> Cardinality(Succeeded(TRUE)),
                     failed_requests     |-> Cardinality(Succeeded(FALSE)),
                     total_time          |-> now]}
  BY DEF Report, workerVars, Succeeded
<1>2. LoadTypeOK' /\ Paced' /\ Returned'
  BY <1>1 DEF LoadInv, LoadTypeOK, Paced, Returned
<1>3. Collected'
  <2>1. RequestsOf(1..joined)' = RequestsOf(1..joined) /\ \A q : Outcome(q)' = Outcome(q)
    BY <1>1 DEF RequestsOf, Outcome
  <2> QED BY <1>1, <2>1 DEF LoadInv, Collected, Filed
<1>4. Reported'
  <2>1. Succeeded(TRUE)' = Succeeded(TRUE) /\ Succeeded(FALSE)' = Succeeded(FALSE)
    BY <1>1 DEF Succeeded
  <2> QED BY <1>1, <2>1 DEF Reported
<1> QED BY <1>2, <1>3, <1>4 DEF LoadInv

\* Time passes until the report is made.
LEMMA TickKeepsInv == ASSUME LoadInv, Tick PROVE LoadInv'
<1>1. /\ now' = now + 1 /\ report = {} /\ report' = report /\ joined' = joined
      /\ results' = results
      /\ UNCHANGED <<pc, since, worker_start, request_start, worker_results>>
  BY DEF Tick, workerVars, callerVars
<1>2. /\ now \in Nat /\ duration \in Nat /\ delay_between_requests \in Nat
      /\ \A x \in Int : x <= now => x <= now + 1
  BY LoadAssumption, PauseIs DEF LoadInv, LoadTypeOK
<1>3. LoadTypeOK'
  BY <1>1, <1>2 DEF LoadInv, LoadTypeOK
<1>4. Paced'
  <2> SUFFICES ASSUME NEW v \in Workers
               PROVE  LET n == Len(worker_results[v])
                      IN  /\ since[v] <= now + 1
                          /\ pc[v] = "spawned" => n = 0
                          /\ pc[v] \in {"connecting", "writing", "stuck"} =>
                                n * delay_between_requests <= now + 1
                          /\ n > 0 => (n - 1) * delay_between_requests <= now + 1
                          /\ pc[v] = "sleeping" =>
                                n > 0 /\ (n - 1) * delay_between_requests <= since[v]
                          /\ \A k \in 1..n : worker_results[v][k].ended <= now + 1
    BY <1>1 DEF Paced
  <2> DEFINE n == Len(worker_results[v])
  <2>1. /\ n \in Nat /\ since[v] \in Nat
        /\ \A k \in 1..n : worker_results[v][k].ended \in Nat
    <3>1. worker_results[v] \in Seq(Entries)
      BY DEF LoadInv, LoadTypeOK
    <3>2. \A k \in 1..n : worker_results[v][k] \in Entries
      BY <3>1, ElementOfSeq
    <3>3. \A e \in Entries : e.ended \in Nat
      BY DEF Entries
    <3> QED BY <3>1, <3>2, <3>3 DEF LoadInv, LoadTypeOK
  <2>2. n * delay_between_requests \in Int /\ (n - 1) * delay_between_requests \in Int
    <3> HIDE DEF n
    <3> QED BY <1>2, <2>1
  <2> QED BY <1>2, <2>1, <2>2 DEF LoadInv, Paced
<1>5. Returned'
  BY <1>1, <1>2 DEF LoadInv, Returned
<1>6. Collected'
  <2>1. RequestsOf(1..joined)' = RequestsOf(1..joined) /\ \A q : Outcome(q)' = Outcome(q)
    BY <1>1 DEF RequestsOf, Outcome
  <2> QED BY <1>1, <2>1 DEF LoadInv, Collected, Filed
<1>7. Reported'
  BY <1>1 DEF Reported
<1> QED BY <1>3, <1>4, <1>5, <1>6, <1>7 DEF LoadInv

\* The invariant holds at the start and is kept by every step.
LEMMA LoadInvAlways == Spec => []LoadInv
<1>1. Init => LoadInv
  <2> SUFFICES ASSUME Init PROVE LoadInv
    OBVIOUS
  <2>1. concurrent_connections \in Nat /\ delay_between_requests \in Nat
    BY LoadAssumption, PauseIs
  <2>2. LoadTypeOK
    BY <2>1 DEF Init, LoadTypeOK
  <2>3. \A w \in Workers : Len(worker_results[w]) = 0 /\ since[w] = 0 /\ pc[w] = "spawned"
    BY DEF Init
  <2>4. Paced
    BY <2>1, <2>3 DEF Init, Paced
  <2>5. Returned
    BY <2>3 DEF Init, Returned
  <2>6. Collected
    <3>1. RequestsOf(1..joined) = {} /\ DOMAIN results = {} /\ results = << >>
      BY DEF Init, RequestsOf
    <3>2. << >> \in Bijection({}, {})
      BY DEF Bijection, Injection, IsInjective, Surjection
    <3> QED BY <3>1, <3>2 DEF Collected, Filed
  <2>7. Reported
    BY DEF Init, Reported
  <2> QED BY <2>2, <2>4, <2>5, <2>6, <2>7 DEF LoadInv
<1>2. LoadInv /\ [Next]_vars => LoadInv'
  <2> SUFFICES ASSUME LoadInv, [Next]_vars PROVE LoadInv'
    OBVIOUS
  <2>1. CASE UNCHANGED vars
    <3>1. UNCHANGED <<now, pc, since, worker_start, request_start, worker_results, joined,
                      results, report>>
      BY <2>1 DEF vars, workerVars, callerVars
    <3>2. LoadTypeOK' /\ Paced' /\ Returned'
      BY <3>1 DEF LoadInv, LoadTypeOK, Paced, Returned
    <3>3. Collected'
      <4>1. RequestsOf(1..joined)' = RequestsOf(1..joined) /\ \A q : Outcome(q)' = Outcome(q)
        BY <3>1 DEF RequestsOf, Outcome
      <4> QED BY <3>1, <4>1 DEF LoadInv, Collected, Filed
    <3>4. Reported'
      BY <3>1 DEF LoadInv, Reported, Succeeded
    <3> QED BY <3>2, <3>3, <3>4 DEF LoadInv
  <2> QED BY <2>1, WorkerKeepsInv, JoinKeepsInv, ReportKeepsInv, TickKeepsInv DEF Next, Caller
<1> QED BY <1>1, <1>2, PTL DEF Spec

-----------------------------------------------------------------------------
(* What the invariant says *)

\* The state of the load generator keeps its shape.
THEOREM LoadTypeCorrect == Spec => []LoadTypeOK
<1>1. LoadInv => LoadTypeOK
  BY DEF LoadInv
<1> QED BY <1>1, LoadInvAlways, PTL

\* There are finitely many requests: q pauses after its first one, a worker has made
\* at most q + 1 of them.
LEMMA RequestsBounded ==
    ASSUME LoadInv
    PROVE  /\ IsFiniteSet(RequestsOf(Workers))
           /\ \E q \in Nat :
                 /\ q * delay_between_requests <= now
                 /\ Cardinality(RequestsOf(Workers)) <= concurrent_connections * (1 + q)
<1>1. /\ now \in Nat /\ delay_between_requests \in Nat \ {0}
      /\ concurrent_connections \in Nat \ {0}
  BY LoadAssumption, PauseIs DEF LoadInv, LoadTypeOK
<1>2. PICK d \in Nat \ {0} : d = delay_between_requests
  BY <1>1
<1>3. PICK q \in Nat : q * d <= now /\ now < (q + 1) * d
  <2> DEFINE quotient == now \div d
  <2>1. /\ quotient \in Nat /\ now = d * quotient + (now % d) /\ now % d \in Nat /\ now % d < d
    BY <1>1, <1>2
  <2> HIDE DEF quotient
  <2>2. (quotient + 1) * d = d * quotient + d /\ quotient * d = d * quotient
    BY <2>1
  <2>3. quotient * d <= now /\ now < (quotient + 1) * d
    BY <1>1, <2>1, <2>2
  <2> QED BY <2>1, <2>3
<1>4. RequestsOf(Workers) \subseteq Workers \X (1..(1 + q))
  <2> SUFFICES ASSUME NEW w \in Workers, NEW k \in DOMAIN worker_results[w]
               PROVE  k \in 1..(1 + q)
    BY DEF RequestsOf
  <2>1. PICK n \in Nat : n = Len(worker_results[w])
    BY DEF LoadInv, LoadTypeOK
  <2>2. k \in 1..n
    <3>1. worker_results[w] \in Seq(Entries)
      BY DEF LoadInv, LoadTypeOK
    <3> QED BY <2>1, <3>1
  <2>3. n > 0 => (n - 1) * d <= now
    BY <1>2, <2>1 DEF LoadInv, Paced
  <2>4. n <= 1 + q
    <3> SUFFICES ASSUME n > 1 + q PROVE FALSE
      BY <1>3, <2>1
    <3>1. q + 1 <= n - 1 /\ q + 1 \in Int /\ n - 1 \in Int
      BY <1>3, <2>1
    <3>2. (q + 1) * d <= (n - 1) * d
      BY <1>2, <3>1, Monotone
    <3>3. (n - 1) * d <= now
      BY <2>1, <2>3, <1>3
    <3>4. PICK x \in Int, y \in Int : x = (q + 1) * d /\ y = (n - 1) * d
      BY <1>2, <3>1
    <3>5. x <= y /\ y <= now /\ now < x
      BY <1>3, <3>2, <3>3, <3>4
    <3> QED BY <1>1, <3>4, <3>5
  <2> QED BY <1>3, <2>1, <2>2, <2>4
<1>5. /\ IsFiniteSet(Workers) /\ Cardinality(Workers) = concurrent_connections
      /\ IsFiniteSet(1..(1 + q)) /\ Cardinality(1..(1 + q)) = 1 + q
  <2>1. /\ IsFiniteSet(Workers)
        /\ Cardinality(Workers) = IF 1 > concurrent_connections THEN 0
                                  ELSE concurrent_connections - 1 + 1
    BY <1>1, FS_Interval DEF Workers
  <2>2. /\ IsFiniteSet(1..(1 + q))
        /\ Cardinality(1..(1 + q)) = IF 1 > 1 + q THEN 0 ELSE (1 + q) - 1 + 1
    BY FS_Interval
  <2> QED BY <1>1, <2>1, <2>2
<1>6. /\ IsFiniteSet(Workers \X (1..(1 + q)))
      /\ Cardinality(Workers \X (1..(1 + q))) = concurrent_connections * (1 + q)
  BY <1>5, FS_Product
<1>7. /\ IsFiniteSet(RequestsOf(Workers))
      /\ Cardinality(RequestsOf(Workers)) <= concurrent_connections * (1 + q)
  BY <1>4, <1>6, FS_Subset
<1> QED BY <1>2, <1>3, <1>7

\* However late the workers and the answers are, and whatever fails: apart from the
\* first request of every connection, no more requests than the rate allows
\* (network.rs:398-442).
THEOREM RateKeptAlways == Spec => []RateKept
<1>1. LoadInv => RateKept
  <2> SUFFICES ASSUME LoadInv PROVE RateKept
    OBVIOUS
  <2>1. /\ now \in Nat /\ concurrent_connections \in Nat \ {0}
        /\ request_rate \in Nat \ {0} /\ Second \in Nat \ {0}
    BY LoadAssumption DEF LoadInv, LoadTypeOK
  <2>2. PICK q \in Nat :
           /\ q * delay_between_requests <= now
           /\ Cardinality(RequestsOf(Workers)) <= concurrent_connections * (1 + q)
    BY RequestsBounded
  <2>3. PICK a \in Nat : a = Cardinality(RequestsOf(Workers))
    BY RequestsBounded, FS_CardinalityType
  <2>4. PICK C \in Nat, d \in Nat, R \in Nat : /\ C = concurrent_connections
                                               /\ d = delay_between_requests
                                               /\ R = request_rate
    BY <2>1, PauseIs
  <2>5. a - C <= C * q
    <3>1. C * (1 + q) = C + C * q /\ C * q \in Nat
      BY <2>4
    <3>2. a <= C * (1 + q)
      BY <2>2, <2>3, <2>4
    <3> QED BY <2>3, <2>4, <3>1, <3>2
  <2>6. (a - C) * Second <= (C * q) * Second
    <3>1. a - C \in Int /\ C * q \in Int /\ Second \in Nat
      BY <2>1, <2>3, <2>4
    <3> QED BY <2>5, <3>1, Monotone
  <2>7. (C * q) * Second = q * (Second * C)
    BY <2>1, <2>4
  <2>8. q * d \in Nat /\ q * d <= now
    BY <2>2, <2>4
  <2>9. CASE R <= C
    <3>1. d = Second
      BY <2>4, <2>9, PauseIs
    <3>2. q * (Second * C) = (q * d) * C
      BY <2>4, <3>1
    <3>3. (q * d) * C <= now * C
      BY <2>1, <2>4, <2>8, Monotone
    <3>4. now * C = C * now
      BY <2>1, <2>4
    <3>5. (a - C) * Second <= C * now
      BY <2>6, <2>7, <3>2, <3>3, <3>4, Transitive, <2>1, <2>3, <2>4, <2>8
    <3> QED BY <2>3, <2>4, <2>9, <3>5 DEF RateKept
  <2>10. CASE R > C
    <3>1. d * R = Second * C
      BY <2>4, <2>10, PauseIs
    <3>2. q * (Second * C) = (q * d) * R
      <4>1. q * (d * R) = (q * d) * R
        BY <2>4
      <4> QED BY <3>1, <4>1
    <3>3. (q * d) * R <= now * R
      BY <2>1, <2>4, <2>8, Monotone
    <3>4. now * R = R * now
      BY <2>1, <2>4
    <3>5. (a - C) * Second <= R * now
      BY <2>6, <2>7, <3>2, <3>3, <3>4, Transitive, <2>1, <2>3, <2>4, <2>8
    <3>6. ~(R <= C)
      BY <2>4, <2>10
    <3> QED BY <2>3, <2>4, <3>5, <3>6 DEF RateKept
  <2> QED BY <2>4, <2>9, <2>10
<1> QED BY <1>1, LoadInvAlways, PTL

\* The report counts every request of every worker, each once and by its outcome, and
\* its total time is that of the last of them, or more (network.rs:446-462).
THEOREM ReportCoversAlways == Spec => []ReportCovers
<1>1. LoadInv => ReportCovers
  <2> SUFFICES ASSUME LoadInv, NEW r \in report
               PROVE  LET all == RequestsOf(Workers)
                      IN  /\ r.total_requests = Cardinality(all)
                          /\ r.successful_requests = Cardinality({q \in all : Outcome(q).success})
                          /\ r.failed_requests = Cardinality({q \in all : ~Outcome(q).success})
                          /\ r.successful_requests + r.failed_requests = r.total_requests
                          /\ \A q \in all : Outcome(q).ended <= r.total_time
                          /\ r.total_time >= duration
    BY DEF ReportCovers
  <2> DEFINE all == RequestsOf(Workers)
  <2>1. /\ joined = concurrent_connections
        /\ r.total_requests = Len(results) /\ r.total_time = now
        /\ r.successful_requests = Cardinality(Succeeded(TRUE))
        /\ r.failed_requests = Cardinality(Succeeded(FALSE))
    <3>1. PICK n, s, t : n = Len(results) /\ s = Cardinality(Succeeded(TRUE))
                            /\ t = Cardinality(Succeeded(FALSE))
      OBVIOUS
    <3>2. /\ joined = concurrent_connections
          /\ report = {[total_requests |-> n, successful_requests |-> s,
                        failed_requests |-> t, total_time |-> now]}
      BY <3>1 DEF LoadInv, Reported
    <3>3. r = [total_requests |-> n, successful_requests |-> s,
               failed_requests |-> t, total_time |-> now]
      BY <3>2
    <3> QED BY <3>1, <3>2, <3>3
  <2>2. PICK f : /\ f \in Bijection(DOMAIN results, all)
                 /\ \A k \in DOMAIN results : results[k] = Outcome(f[k])
    BY <2>1 DEF LoadInv, Collected, Filed, Workers
  <2>3. /\ \A k \in DOMAIN results : f[k] \in all
        /\ \A q \in all : \E k \in DOMAIN results : f[k] = q
    BY <2>2 DEF Bijection, Injection, Surjection
  <2>4. /\ results \in Seq(Entries) /\ Len(results) \in Nat
        /\ DOMAIN results = 1..Len(results)
    BY DEF LoadInv, LoadTypeOK
  <2>5. /\ IsFiniteSet(DOMAIN results) /\ IsFiniteSet(all)
        /\ Cardinality(DOMAIN results) = Len(results)
    <3>1. /\ IsFiniteSet(1..Len(results))
          /\ Cardinality(1..Len(results)) = IF 1 > Len(results) THEN 0 ELSE Len(results) - 1 + 1
      BY <2>4, FS_Interval
    <3> QED BY <2>4, <3>1, RequestsBounded
  <2> HIDE DEF all
  <2>6. \A k \in DOMAIN results : results[k].success \in BOOLEAN
    <3>1. \A k \in 1..Len(results) : results[k] \in Entries
      BY <2>4, ElementOfSeq
    <3>2. \A e \in Entries : e.success \in BOOLEAN
      BY DEF Entries
    <3> QED BY <2>4, <3>1, <3>2
  <2>7. Cardinality(DOMAIN results) = Cardinality(all)
    <3>1. /\ DOMAIN results \in SUBSET DOMAIN results /\ all \in SUBSET all
          /\ \A k \in DOMAIN results : k \in DOMAIN results <=> f[k] \in all
      BY <2>3
    <3> QED BY <2>2, <2>5, <3>1, SameCount
  <2>8. /\ Succeeded(TRUE) \in SUBSET DOMAIN results
        /\ \A k \in DOMAIN results : k \in Succeeded(TRUE) <=> results[k].success
    BY <2>6 DEF Succeeded
  <2>9. /\ Succeeded(FALSE) \in SUBSET DOMAIN results
        /\ \A k \in DOMAIN results : k \in Succeeded(FALSE) <=> ~results[k].success
    BY <2>6 DEF Succeeded
  <2>10. Cardinality(Succeeded(TRUE)) = Cardinality({q \in all : Outcome(q).success})
    <3> DEFINE P == Succeeded(TRUE)
               Q == {q \in all : Outcome(q).success}
    <3>1. /\ Q \in SUBSET all
          /\ \A k \in DOMAIN results : k \in P <=> f[k] \in Q
      BY <2>2, <2>3, <2>8
    <3>2. P \in SUBSET DOMAIN results
      BY <2>8
    <3> HIDE DEF P, Q
    <3>3. Cardinality(P) = Cardinality(Q)
      BY <2>2, <2>5, <3>1, <3>2, SameCount
    <3> QED BY <3>3 DEF P, Q
  <2>11. Cardinality(Succeeded(FALSE)) = Cardinality({q \in all : ~Outcome(q).success})
    <3> DEFINE P == Succeeded(FALSE)
               Q == {q \in all : ~Outcome(q).success}
    <3>1. /\ Q \in SUBSET all
          /\ \A k \in DOMAIN results : k \in P <=> f[k] \in Q
      BY <2>2, <2>3, <2>9
    <3>2. P \in SUBSET DOMAIN results
      BY <2>9
    <3> HIDE DEF P, Q
    <3>3. Cardinality(P) = Cardinality(Q)
      BY <2>2, <2>5, <3>1, <3>2, SameCount
    <3> QED BY <3>3 DEF P, Q
  <2>12. Cardinality(Succeeded(TRUE)) + Cardinality(Succeeded(FALSE)) = Len(results)
    <3> DEFINE P == Succeeded(TRUE)
               Q == Succeeded(FALSE)
    <3>1. P \cup Q = DOMAIN results /\ P \cap Q = {}
      BY <2>8, <2>9
    <3>2. P \in SUBSET DOMAIN results /\ Q \in SUBSET DOMAIN results
      BY <2>8, <2>9
    <3> HIDE DEF P, Q
    <3>3. IsFiniteSet(P) /\ IsFiniteSet(Q)
      BY <2>5, <3>2, FS_Subset
    <3>4. Cardinality(P \cup Q) = Cardinality(P) + Cardinality(Q) - Cardinality(P \cap Q)
      BY <3>3, FS_Union
    <3>5. Cardinality(P \cap Q) = 0
      BY <3>1, FS_EmptySet
    <3>6. Cardinality(P) \in Nat /\ Cardinality(Q) \in Nat
      BY <3>3, FS_CardinalityType
    <3>7. Cardinality(P \cup Q) = Len(results)
      BY <2>5, <3>1
    <3>8. Cardinality(P) + Cardinality(Q) = Len(results)
      BY <2>4, <3>4, <3>5, <3>6, <3>7
    <3> QED BY <3>8 DEF P, Q
  <2>13. \A q \in all : Outcome(q).ended <= now
    <3>1. \A w \in Workers : \A k \in DOMAIN worker_results[w] : worker_results[w][k].ended <= now
      BY DEF LoadInv, LoadTypeOK, Paced
    <3> QED BY <3>1 DEF all, RequestsOf, Outcome
  <2>14. now >= duration
    <3>1. 1 \in Workers /\ 1 \in 1..joined
      BY <2>1, LoadAssumption DEF Workers
    <3> QED BY <3>1 DEF LoadInv, Returned
  <2> QED BY <2>1, <2>5, <2>7, <2>10, <2>11, <2>12, <2>13, <2>14 DEF all
<1> QED BY <1>1, LoadInvAlways, PTL

-----------------------------------------------------------------------------
(***************************************************************************)
(* The other way of this program to keep a rate is the token bucket of     *)
(* RateLimiter, which has its own clock and knows nothing of the workers.  *)
(***************************************************************************)

CONSTANT capacity
VARIABLES tokens, last_refill, clock, granted, marked_at, marked_granted

Limiter == INSTANCE RateLimiter WITH now <- clock

\* A request and the passing of time keep the invariant of the bucket.
LEMMA LimiterStep ==
    ASSUME capacity \in Nat, Limiter!IInv, [Limiter!Next]_(Limiter!vars)
    PROVE  Limiter!IInv'
<1> USE DEF Limiter!IInv, Limiter!TypeOK
<1>1. ASSUME NEW n \in Nat, Limiter!TryAcquire(n) PROVE Limiter!IInv'
  <2>1. /\ Limiter!refilled \in Nat /\ Limiter!refilled <= capacity
        /\ Limiter!refilled <= tokens + (clock - last_refill)
    BY DEF Limiter!refilled
  <2>2. /\ tokens' \in 0..capacity /\ granted' \in Nat
        /\ granted' + tokens' = granted + Limiter!refilled
    BY <1>1, <2>1 DEF Limiter!TryAcquire
  <2>3. /\ last_refill' = clock /\ clock' = clock
        /\ marked_at' = marked_at /\ marked_granted' = marked_granted
    BY <1>1 DEF Limiter!TryAcquire
  <2>4. granted + Limiter!refilled <= marked_granted + (capacity + (clock - marked_at))
    <3>1. CASE granted = marked_granted
      BY <2>1, <3>1
    <3>2. CASE granted + tokens <= marked_granted + (capacity + (last_refill - marked_at))
      BY <2>1, <3>2
    <3> QED BY <3>1, <3>2
  <2>5. Limiter!TypeOK' /\ last_refill' >= marked_at'
    BY <2>2, <2>3
  <2>6. granted' + tokens' <= marked_granted' + (capacity + (last_refill' - marked_at'))
    BY <2>2, <2>3, <2>4
  <2> QED BY <2>5, <2>6
<1>2. ASSUME NEW n \in Nat, Limiter!Elapse(n) PROVE Limiter!IInv'
  BY <1>2 DEF Limiter!Elapse
<1>3. CASE Limiter!Mark
  BY <1>3 DEF Limiter!Mark
<1>4. CASE UNCHANGED Limiter!vars
  BY <1>4 DEF Limiter!vars
<1> QED BY <1>1, <1>2, <1>3, <1>4 DEF Limiter!Next

\* From any instant on, no more is granted than a full bucket and what the time since then
\* refills, for any capacity, any amounts and any passing of time (utils/mod.rs:246-264).
THEOREM RateBoundedAlways ==
    ASSUME capacity \in Nat PROVE Limiter!Spec => []Limiter!RateBounded
<1>1. Limiter!Init => Limiter!IInv
  BY DEF Limiter!Init, Limiter!IInv, Limiter!TypeOK
<1>2. Limiter!IInv /\ [Limiter!Next]_(Limiter!vars) => Limiter!IInv'
  BY LimiterStep
<1>3. Limiter!IInv => Limiter!RateBounded
  BY DEF Limiter!IInv, Limiter!TypeOK, Limiter!RateBounded
<1> QED BY <1>1, <1>2, <1>3, PTL DEF Limiter!Spec
=============================================================================
