--------------------------- MODULE LoadTestProofs ---------------------------
(***************************************************************************)
(* Proofs about LoadTest, for every configuration and every bound: the     *)
(* counters of the dashboard count each request once, in whatever order    *)
(* its two messages are delivered.                                         *)
(***************************************************************************)
EXTENDS LoadTest, FiniteSetTheorems, SequenceTheorems, FunctionTheorems, TLAPS

\* Requests that are not started yet have no attempt under way.
NotStarted == \A r \in Requests : r > seed => attempt[r] = 0

Injective(s) == \A i, j \in 1..Len(s) : s[i] = s[j] => i = j

\* The log names done requests, each once.
LogOfDone ==
    /\ logs \in Seq(Requests) /\ Injective(logs)
    /\ \A i \in 1..Len(logs) : logs[i] \in Done
    /\ Len(logs) = (IF ok + fail < MaxLogs THEN ok + fail ELSE MaxLogs)

Counted ==
    /\ sent = seed - Cardinality(unsent) /\ ok + fail = Cardinality(Done)
    /\ latencies = ok + fail

IInv == TypeOK /\ NotStarted /\ LogOfDone /\ Counted /\ InFlightGauge

-----------------------------------------------------------------------------
(* Finite sets and the log.                                                *)

LEMMA RequestSetsFinite ==
    ASSUME TypeOK
    PROVE  /\ IsFiniteSet(unsent) /\ Cardinality(unsent) \in Nat
           /\ IsFiniteSet(Done) /\ Cardinality(Done) \in Nat
  <1>1. seed \in Nat
    BY LoadAssumption DEF TypeOK
  <1>2. IsFiniteSet(1..seed)
    BY <1>1, FS_Interval
  <1>3. unsent \subseteq 1..seed /\ Done \subseteq 1..seed
    BY DEF TypeOK, Done
  <1> QED
    BY <1>2, <1>3, FS_Subset, FS_CardinalityType

\* A sequence without repetition has as many elements as it is long.
LEMMA InjectiveCardinality ==
    ASSUME NEW S, NEW s \in Seq(S), Injective(s)
    PROVE  Cardinality(ToSet(s)) = Len(s)
  <1>1. Len(s) \in Nat /\ DOMAIN s = 1..Len(s)
    OBVIOUS
  <1>2. IsFiniteSet(1..Len(s)) /\ Cardinality(1..Len(s)) = Len(s)
    BY <1>1, FS_Interval
  <1>3. s \in [1..Len(s) -> ToSet(s)] /\ \A t \in ToSet(s) : \E i \in 1..Len(s) : s[i] = t
    BY <1>1 DEF ToSet
  <1>4. s \in Surjection(1..Len(s), ToSet(s))
    BY <1>3, Fun_IsSurj
  <1>5. s \in Injection(1..Len(s), ToSet(s))
    BY <1>3, Fun_IsInj DEF Injective
  <1> QED
    BY <1>2, <1>4, <1>5, FS_Surjection

\* appendLog: a log without repetition stays one, and is as long as it may be.
LEMMA AppendLogFacts ==
    ASSUME NEW r \in Requests, logs \in Seq(Requests), Injective(logs), Len(logs) <= MaxLogs,
           \A i \in 1..Len(logs) : logs[i] # r, AppendLog(r)
    PROVE  /\ logs' \in Seq(Requests) /\ Injective(logs')
           /\ \A i \in 1..Len(logs') : logs'[i] = r \/ \E j \in 1..Len(logs) : logs'[i] = logs[j]
           /\ Len(logs') = (IF Len(logs) < MaxLogs THEN Len(logs) + 1 ELSE MaxLogs)
  <1> DEFINE n == Len(logs)
             t == Append(logs, r)
  <1>1. n \in Nat /\ MaxLogs \in Nat /\ MaxLogs > 0
    BY LoadAssumption
  <1>2. /\ t \in Seq(Requests) /\ Len(t) = n + 1
        /\ \A i \in 1..n : t[i] = logs[i]
        /\ t[n + 1] = r
    BY AppendProperties
  <1>3. /\ n = MaxLogs => logs' = SubSeq(t, 2, n + 1)
        /\ n < MaxLogs => logs' = t
    <2> HIDE DEF n
    <2>1. /\ Len(t) > MaxLogs => logs' = SubSeq(t, Len(t) - MaxLogs + 1, Len(t))
          /\ ~(Len(t) > MaxLogs) => logs' = t
      BY Zenon DEF AppendLog
    <2>2. n = MaxLogs => Len(t) > MaxLogs /\ Len(t) - MaxLogs + 1 = 2 /\ Len(t) = n + 1
      BY <1>1, <1>2
    <2>3. n < MaxLogs => ~(Len(t) > MaxLogs)
      BY <1>1, <1>2
    <2> QED
      BY <2>1, <2>2, <2>3, Zenon
  <1>4. \A i \in 1..(n + 1) : t[i] \in Requests
    BY <1>2, ElementOfSeq
  <1>5. Injective(t)
    BY <1>1, <1>2 DEF Injective
  <1>6. \A i \in 1..(n + 1) : t[i] = r \/ \E j \in 1..n : t[i] = logs[j]
    BY <1>1, <1>2
  <1> HIDE DEF n, t
  <1>7. CASE n < MaxLogs
    BY <1>1, <1>2, <1>3, <1>5, <1>6, <1>7 DEF n
  <1>8. CASE n = MaxLogs
    <2> DEFINE u == SubSeq(t, 2, n + 1)
    <2>1. logs' = u
      BY <1>1, <1>3, <1>8
    <2>2. /\ u \in Seq(Requests) /\ Len(u) = n
          /\ \A i \in 1..n : u[i] = t[i + 1]
      BY <1>1, <1>4, <1>8, SubSeqProperties
    <2> HIDE DEF u
    <2>3. Injective(u)
      BY <1>1, <1>2, <1>5, <2>2 DEF Injective
    <2>4. \A i \in 1..n : u[i] = r \/ \E j \in 1..n : u[i] = logs[j]
      <3> TAKE i \in 1..n
      <3>1. i + 1 \in 1..(n + 1)
        BY <1>1
      <3>2. u[i] = t[i + 1]
        BY <2>2
      <3> QED
        BY <1>6, <3>1, <3>2
    <2> QED
      BY <1>1, <1>8, <2>1, <2>2, <2>3, <2>4 DEF n
  <1> QED
    BY <1>1, <1>7, <1>8 DEF n

-----------------------------------------------------------------------------
(* The inductive invariant.                                                *)

LEMMA InitIInv == Init => IInv
  <1> SUFFICES ASSUME Init PROVE IInv
    OBVIOUS
  <1>1. TypeOK
    BY ConfigAssumption, LoadAssumption DEF Init, TypeOK
  <1>2. unsent = {} /\ Done = {} /\ Cardinality({}) = 0
    BY FS_EmptySet DEF Init, Done
  <1>3. Len(logs) = 0 /\ logs \in Seq(Requests) /\ ok + fail = 0 /\ MaxLogs > 0
    BY LoadAssumption, EmptySeq DEF Init
  <1>4. LogOfDone
    BY <1>3 DEF LogOfDone, Injective
  <1> QED
    BY <1>1, <1>2, <1>4 DEF Init, IInv, NotStarted, Counted, InFlightGauge

\* A step that starts, reports or ends no request.
LEMMA Keeps == ASSUME IInv, UNCHANGED <<requests, metrics>>, TypeOK' PROVE IInv'
  BY DEF IInv, NotStarted, LogOfDone, Counted, InFlightGauge, Done, requests, metrics

\* scheduleBurst: n requests are started that were not, and none is done.
LEMMA BurstFacts ==
    ASSUME IInv, NEW n \in Int, ScheduleBurst(n)
    PROVE  /\ seed' \in 0..MaxRequests /\ unsent' \subseteq 1..seed'
           /\ attempt' \in [Requests -> 0..MaxRetries]
           /\ NotStarted' /\ Done' = Done
           /\ seed' - Cardinality(unsent') = seed - Cardinality(unsent)
  <1> DEFINE new == (seed + 1)..(seed + n)
  <1>1. /\ seed \in Nat /\ seed <= MaxRequests /\ MaxRequests \in Nat /\ MaxRetries \in Nat \ {0}
        /\ seed + n <= MaxRequests /\ seed' = (IF n > 0 THEN seed + n ELSE seed)
        /\ unsent' = unsent \cup new
        /\ attempt' = [r \in Requests |-> IF r \in new THEN 1 ELSE attempt[r]]
        /\ unsent \subseteq 1..seed /\ attempt \in [Requests -> 0..MaxRetries]
    BY LoadAssumption DEF IInv, TypeOK, ScheduleBurst
  <1>2. seed' \in 0..MaxRequests /\ unsent' \subseteq 1..seed'
    BY <1>1
  <1>3. attempt' \in [Requests -> 0..MaxRetries]
    BY <1>1
  <1>4. NotStarted'
    BY <1>1 DEF NotStarted, IInv, Requests
  <1>5. Done' = Done
    <2>1. \A r \in new : r \in Requests /\ attempt'[r] = 1 /\ r > seed
      BY <1>1 DEF Requests
    <2>2. \A r \in 1..seed : r \in Requests /\ r \in 1..seed' /\ attempt'[r] = attempt[r]
      BY <1>1 DEF Requests
    <2>3. \A r \in 1..seed' : r \in 1..seed \/ r \in new
      BY <1>1
    <2> QED
      BY <2>1, <2>2, <2>3 DEF Done
  <1>6. seed' - Cardinality(unsent') = seed - Cardinality(unsent)
    <2>1. /\ IsFiniteSet(new) /\ Cardinality(new) \in Nat
          /\ Cardinality(new) = IF n > 0 THEN n ELSE 0
      <3>1. seed + 1 \in Int /\ seed + n \in Int
        BY <1>1
      <3>2. /\ IsFiniteSet(new)
            /\ Cardinality(new) = IF seed + 1 > seed + n THEN 0 ELSE (seed + n) - (seed + 1) + 1
        BY <3>1, FS_Interval, Zenon
      <3> QED
        BY <1>1, <3>2
    <2>2. unsent \cap new = {} /\ Cardinality({}) = 0
      BY <1>1, FS_EmptySet
    <2>3. IsFiniteSet(unsent) /\ Cardinality(unsent) \in Nat
      BY RequestSetsFinite DEF IInv
    <2>4. Cardinality(unsent') = Cardinality(unsent) + Cardinality(new)
      <3>1. Cardinality(unsent \cup new)
              = Cardinality(unsent) + Cardinality(new) - Cardinality(unsent \cap new)
        BY <2>1, <2>3, FS_Union, Zenon
      <3>2. Cardinality(unsent \cap new) = 0
        BY <2>2, Zenon
      <3> QED
        BY <1>1, <2>1, <2>3, <3>1, <3>2
    <2> QED
      BY <1>1, <2>1, <2>3, <2>4
  <1> QED
    BY <1>2, <1>3, <1>4, <1>5, <1>6

LEMMA BurstStep ==
    ASSUME IInv, NEW n \in Int, ScheduleBurst(n), UNCHANGED <<mode, config, metrics>>,
           paused' \in BOOLEAN, due' \in BOOLEAN
    PROVE  IInv'
  <1> USE BurstFacts
  <1>1. TypeOK'
    BY DEF IInv, TypeOK, config, metrics
  <1>2. LogOfDone'
    BY DEF IInv, LogOfDone, metrics
  <1>3. Counted'
    BY DEF IInv, Counted, metrics
  <1>4. InFlightGauge'
    BY DEF IInv, InFlightGauge, metrics
  <1> QED
    BY <1>1, <1>2, <1>3, <1>4 DEF IInv

LEMMA SentStep == ASSUME IInv, NEW r \in Requests, MarkSent(r) PROVE IInv'
  <1> USE DEF IInv, TypeOK, config
  <1>1. IsFiniteSet(unsent) /\ Cardinality(unsent) \in Nat
    BY RequestSetsFinite
  <1>2. Cardinality(unsent') = Cardinality(unsent) - 1
    BY <1>1, FS_RemoveElement DEF MarkSent
  <1>3. Done' = Done
    BY DEF MarkSent, Done
  <1>4. seed \in Nat /\ {sent, ok, fail, waiting, maxWaiting, overtaken} \subseteq Nat
    BY LoadAssumption
  <1>5. /\ waiting' = waiting + 1 /\ sent' = sent + 1
        /\ maxWaiting' = IF waiting + 1 > maxWaiting THEN waiting + 1 ELSE maxWaiting
    BY DEF MarkSent
  <1>6. maxWaiting' \in Nat /\ waiting' <= maxWaiting' /\ maxWaiting' <= sent'
    BY <1>4, <1>5 DEF InFlightGauge
  <1>7. TypeOK'
    BY <1>4, <1>5, <1>6 DEF MarkSent
  <1>8. NotStarted' /\ LogOfDone'
    BY <1>3 DEF MarkSent, NotStarted, LogOfDone
  <1>9. Counted'
    BY <1>1, <1>2, <1>3, <1>4 DEF MarkSent, Counted
  <1>10. InFlightGauge'
    BY <1>3, <1>4, <1>5, <1>6 DEF MarkSent, InFlightGauge
  <1> QED
    BY <1>7, <1>8, <1>9, <1>10

LEMMA RetryStep == ASSUME IInv, NEW r \in Requests, Retry(r) PROVE IInv'
  <1> USE LoadAssumption DEF IInv, TypeOK, config, metrics
  <1>1. attempt[r] # 0 /\ attempt'[r] # 0 /\ attempt' = [attempt EXCEPT ![r] = attempt[r] + 1]
    BY DEF Retry
  <1>2. Done' = Done
    BY <1>1 DEF Retry, Done, Requests
  <1>3. TypeOK'
    BY DEF Retry
  <1>4. NotStarted'
    BY <1>1 DEF Retry, NotStarted
  <1> QED
    BY <1>2, <1>3, <1>4 DEF Retry, LogOfDone, Counted, InFlightGauge

\* MarkOK or MarkFail: whichever message of the request comes first, it is counted
\* and logged now and was not before.
LEMMA DoneStep == ASSUME IInv, NEW r \in Requests, MarkDone(r) PROVE IInv'
  <1> USE DEF IInv, TypeOK, config
  <1>1. /\ seed \in Nat /\ MaxLogs \in Nat \ {0} /\ MaxRetries \in Nat
        /\ {sent, ok, fail, waiting, maxWaiting, latencies, overtaken} \subseteq Nat
    BY LoadAssumption
  <1>2. r \in 1..seed /\ r \notin Done
    BY <1>1 DEF MarkDone, NotStarted, Done, Requests
  <1>3. Done' = Done \cup {r}
    BY <1>1, <1>2 DEF MarkDone, Done, Requests
  <1>4. Cardinality(Done') = Cardinality(Done) + 1 /\ Cardinality(Done) \in Nat
    BY <1>2, <1>3, RequestSetsFinite, FS_AddElement
  <1>5. /\ ok' \in Nat /\ fail' \in Nat /\ ok' + fail' = ok + fail + 1
        /\ latencies' = latencies + 1 /\ sent' = sent /\ maxWaiting' = maxWaiting
    BY <1>1 DEF MarkDone
  <1>6. /\ waiting' \in Nat /\ overtaken' \in Nat /\ waiting' <= waiting
        /\ overtaken' <= overtaken + 1
        /\ waiting' - overtaken' = waiting - overtaken - 1
    <2>1. Completed
      BY DEF MarkDone
    <2>2. CASE waiting > 0
      BY <1>1, <2>1, <2>2 DEF Completed
    <2>3. CASE ~(waiting > 0)
      BY <1>1, <2>1, <2>3 DEF Completed
    <2> QED
      BY <2>2, <2>3
  <1>7. TypeOK'
    BY <1>1, <1>5, <1>6 DEF MarkDone
  <1>8. NotStarted'
    BY DEF MarkDone, NotStarted
  <1>9. LogOfDone'
    <2>1. Len(logs) <= MaxLogs /\ \A i \in 1..Len(logs) : logs[i] # r
      BY <1>1, <1>2 DEF LogOfDone
    <2>2. /\ logs' \in Seq(Requests) /\ Injective(logs')
          /\ \A i \in 1..Len(logs') : logs'[i] = r \/ \E j \in 1..Len(logs) : logs'[i] = logs[j]
          /\ Len(logs') = (IF Len(logs) < MaxLogs THEN Len(logs) + 1 ELSE MaxLogs)
      BY <2>1, AppendLogFacts DEF LogOfDone, MarkDone
    <2>3. \A i \in 1..Len(logs') : logs'[i] \in Done'
      BY <1>3, <2>2 DEF LogOfDone
    <2>4. Len(logs') = (IF ok' + fail' < MaxLogs THEN ok' + fail' ELSE MaxLogs)
      <3> DEFINE k == ok + fail
                 l == ok' + fail'
                 n == Len(logs)
                 m == Len(logs')
      <3>1. k \in Nat /\ l = k + 1 /\ MaxLogs \in Nat
        BY <1>1, <1>5
      <3>2. n = (IF k < MaxLogs THEN k ELSE MaxLogs)
        BY DEF LogOfDone
      <3>3. m = (IF n < MaxLogs THEN n + 1 ELSE MaxLogs)
        BY <2>2
      <3> HIDE DEF k, l, n, m
      <3>4. m = (IF l < MaxLogs THEN l ELSE MaxLogs)
        BY <3>1, <3>2, <3>3
      <3> QED
        BY <3>4 DEF m, l
    <2> QED
      BY <2>2, <2>3, <2>4 DEF LogOfDone, Injective
  <1>10. Counted'
    BY <1>1, <1>4, <1>5 DEF MarkDone, Counted
  <1>11. InFlightGauge'
    BY <1>1, <1>4, <1>5, <1>6 DEF InFlightGauge
  <1> QED
    BY <1>7, <1>8, <1>9, <1>10, <1>11

LEMMA NextStep == IInv /\ [Next]_vars => IInv'
  <1> SUFFICES ASSUME IInv, [Next]_vars
               PROVE  IInv'
    OBVIOUS
  <1>1. burst \in Int /\ rate \in Int
    BY DEF IInv, TypeOK
  <1>2. CASE Burst
    BY <1>1, <1>2, BurstStep DEF Burst, IInv, TypeOK
  <1>3. CASE Tick
    BY <1>1, <1>3, BurstStep DEF Tick, IInv, TypeOK
  <1>4. CASE RateEveryPasses \/ Start \/ Pause \/ Stop
    <2>1. TypeOK'
      BY <1>4 DEF RateEveryPasses, Start, Pause, Stop, IInv, TypeOK, config, requests, metrics
    <2> QED
      BY <1>4, <2>1, Keeps DEF RateEveryPasses, Start, Pause, Stop
  <1>5. CASE Edit
    <2>1. edits' \in 0..MaxEdits
      BY <1>5, LoadAssumption DEF Edit, IInv, TypeOK
    <2>2. burst' \in Int /\ burst' > -10
      BY <1>5 DEF Edit, IInv, TypeOK
    <2>3. rate' \in Nat \ {0}
      BY <1>5 DEF Edit, IInv, TypeOK
    <2>4. TypeOK'
      BY <1>5, <2>1, <2>2, <2>3 DEF Edit, IInv, TypeOK, requests, metrics
    <2> QED
      BY <1>5, <2>4, Keeps DEF Edit
  <1>6. CASE UNCHANGED vars
    <2>1. TypeOK'
      BY <1>6 DEF vars, IInv, TypeOK, config, requests, metrics
    <2> QED
      BY <1>6, <2>1, Keeps DEF vars
  <1> QED
    BY <1>2, <1>3, <1>4, <1>5, <1>6, SentStep, RetryStep, DoneStep DEF Next, RequestStep

LEMMA InductiveInvariant == Spec => []IInv
  BY InitIInv, NextStep, PTL DEF Spec

-----------------------------------------------------------------------------
\* The counters are natural numbers whatever is configured, and no request is tried
\* more often than sendChat may.
THEOREM TypeCorrect == Spec => []TypeOK
  BY InductiveInvariant, PTL DEF IInv

\* MarkSent, MarkOK and MarkFail in any order of the messages: the in-flight gauge
\* is the requests sent minus those done plus the completions that overtook.
THEOREM GaugeCorrect == Spec => []InFlightGauge
  BY InductiveInvariant, PTL DEF IInv

\* scheduleBurst, MarkSent, MarkOK, MarkFail and appendLog count and log each request
\* once; a log of any length holds the completions it may.
THEOREM RequestsCountedOnce == Spec => []CountedOnce
  <1>1. IInv => CountedOnce
    <2> SUFFICES ASSUME IInv PROVE CountedOnce
      OBVIOUS
    <2>1. Cardinality(ToSet(logs)) = Len(logs)
      BY InjectiveCardinality DEF IInv, LogOfDone
    <2>2. ToSet(logs) \subseteq Done
      BY DEF IInv, LogOfDone, ToSet
    <2> QED
      BY <2>1, <2>2 DEF IInv, Counted, LogOfDone, CountedOnce
  <1> QED
    BY InductiveInvariant, <1>1, PTL
=============================================================================
