------------------------------ MODULE Metrics ------------------------------
(***************************************************************************)
(* Measuring the cluster: the collector of master/lib/metrics.go as the    *)
(* chat handlers feed it and the autoscaler reads it, and the bounded      *)
(* histories of master/monitoring.  Floats are integers scaled by hand;    *)
(* a second lies between two collections.                                  *)
(***************************************************************************)
EXTENDS Integers, Sequences, FiniteSets, SequencesExt

CONSTANTS
    Handlers,       \* chat handlers
    Writers,        \* goroutines that call Event
    Latencies,      \* latencies a request may have
    LatencySize,    \* LatencyWindowSize
    RPSSize,        \* RPSWindowSize
    Cap, Keep,      \* histories longer than Cap are cut down to Keep
    MaxRecords      \* bound of the model: requests, attempts and events together

ASSUME SizeAssumption == {LatencySize, RPSSize} \subseteq Nat \ {0} /\ Latencies \subseteq Nat
ASSUME HistoryAssumption == Cap \in Nat /\ Keep \in 1..Cap
ASSUME BoundAssumption == MaxRecords \in Nat

VARIABLES
    pc,                     \* handlers: "idle", "active"
    latency, rps,           \* the rolling windows
    totalRequests, totalErrors, prevRequests, prevErrors, \* counters of the collector
    latencies,              \* latencies recorded so far (history)
    completed, events, verbose, \* InFlightStore.completed, eventEntries, logEntries
    ended, notified, logged,    \* entries appended so far (history)
    mirroring               \* writers between the two logs

counters == <<totalRequests, totalErrors, prevRequests, prevErrors>>
histories == <<completed, events, verbose, ended, notified, logged, mirroring>>
vars == <<pc, latency, rps, counters, latencies, histories>>

-----------------------------------------------------------------------------
(* Rolling windows *)

NewWindow(size) == [data |-> [i \in 0..(size - 1) |-> 0], pos |-> 0, full |-> FALSE]
SizeOf(w) == Cardinality(DOMAIN w.data)

\* Mutant of AddTo: the position wraps one sample late or early.
AddToEarly(w, v) ==
    LET wraps == w.pos + 2 >= SizeOf(w)
    IN  [data |-> [w.data EXCEPT ![w.pos] = v],
         pos |-> IF wraps THEN 0 ELSE w.pos + 1, full |-> w.full \/ wraps]

\* RollingWindow.Add
AddTo(w, v) ==
    LET wraps == w.pos + 1 >= SizeOf(w)
    IN  [data |-> [w.data EXCEPT ![w.pos] = v],
         pos |-> IF wraps THEN 0 ELSE w.pos + 1, full |-> w.full \/ wraps]

\* RollingWindow.Len and Values: the two halves of the ring, oldest sample first.
WindowLen(w) == IF w.full THEN SizeOf(w) ELSE w.pos
Values(w) ==
    [i \in 1..WindowLen(w) |->
       IF w.full THEN w.data[(w.pos + i - 1) % SizeOf(w)] ELSE w.data[i - 1]]

\* sortFloat64s: each key goes behind the sorted values that do not exceed it.
InsertKey(sorted, key) ==
    LET n == Cardinality({i \in 1..Len(sorted) : sorted[i] <= key})
    IN  InsertAt(sorted, n + 1, key)
Sorted(s) ==
    LET sort[n \in 0..Len(s)] == IF n = 0 THEN <<>> ELSE InsertKey(sort[n - 1], s[n])
    IN  sort[Len(s)]

\* Mutant of Percentile: the rank of an array that starts at one.
PercentileShifted(w, p) ==
    LET n == WindowLen(w)
        sorted == Sorted(Values(w))
        rank == p * n
        lower == (rank \div 100) + 1
        frac == rank % 100
    IN  IF n = 0 THEN 0
        ELSE IF frac = 0 \/ lower >= n THEN 100 * sorted[IF lower > n THEN n ELSE lower]
        ELSE sorted[lower] * (100 - frac) + sorted[lower + 1] * frac

\* RollingWindow.Percentile, a hundred times: between the two neighbours of the rank.
Percentile(w, p) ==
    LET n == WindowLen(w)
        sorted == Sorted(Values(w))
        rank == p * (n - 1)
        lower == (rank \div 100) + 1
        frac == rank % 100
    IN  IF n = 0 THEN 0 ELSE IF frac = 0 THEN 100 * sorted[lower]
        ELSE sorted[lower] * (100 - frac) + sorted[lower + 1] * frac

\* The accumulators of computeRPSTrend: f[1] + ... + f[n].
SumTo(n, f) ==
    LET sum[i \in 0..n] == IF i = 0 THEN 0 ELSE sum[i - 1] + f[i]
    IN  sum[n]

\* Mutant of Trend: positions count from one in one of the sums only.
TrendShifted(w) ==
    LET y == Values(w)
        n == Len(y)
        sumX == SumTo(n, [i \in 1..n |-> i - 1])
        sumY == SumTo(n, y)
        sumXY == SumTo(n, [i \in 1..n |-> i * y[i]])
        sumX2 == SumTo(n, [i \in 1..n |-> (i - 1) * (i - 1)])
    IN  IF n < 3 THEN [over |-> 0, under |-> 1]
        ELSE [over |-> n * sumXY - sumX * sumY, under |-> n * sumX2 - sumX * sumX]

\* computeRPSTrend: the slope of the least-squares line as a fraction.
Trend(w) ==
    LET y == Values(w)
        n == Len(y)
        sumX == SumTo(n, [i \in 1..n |-> i - 1])
        sumY == SumTo(n, y)
        sumXY == SumTo(n, [i \in 1..n |-> (i - 1) * y[i]])
        sumX2 == SumTo(n, [i \in 1..n |-> (i - 1) * (i - 1)])
    IN  IF n < 3 THEN [over |-> 0, under |-> 1]
        ELSE [over |-> n * sumXY - sumX * sumY, under |-> n * sumX2 - sumX * sumX]

-----------------------------------------------------------------------------
(* Histories: an entry is the number of its append *)

\* Mutant of Logged: the front is kept.
LoggedFront(s, entry) ==
    LET t == Append(s, entry) IN IF Len(t) > Cap THEN SubSeq(t, 1, Keep) ELSE t

\* Verbose, Event and InFlightStore.Remove: append, and beyond Cap keep the end.
Logged(s, entry) ==
    LET t == Append(s, entry)
    IN  IF Len(t) > Cap THEN SubSeq(t, Len(t) - Keep + 1, Len(t)) ELSE t

\* LogSnapshot, EventsSnapshot and InFlightStore.Recent.
Recent(s, limit) ==
    IF limit <= 0 \/ limit >= Len(s) THEN s ELSE SubSeq(s, Len(s) - limit + 1, Len(s))

Verbose == verbose' = Logged(verbose, logged + 1) /\ logged' = logged + 1

-----------------------------------------------------------------------------

Bounded == totalRequests + ended + notified < MaxRecords

Init ==
    /\ pc = [h \in Handlers |-> "idle"]
    /\ latency = NewWindow(LatencySize) /\ rps = NewWindow(RPSSize)
    /\ totalRequests = 0 /\ totalErrors = 0 /\ prevRequests = 0 /\ prevErrors = 0
    /\ latencies = 0 /\ completed = <<>> /\ events = <<>> /\ verbose = <<>>
    /\ ended = 0 /\ notified = 0 /\ logged = 0 /\ mirroring = {}

\* chatRequestHandler: RecordRequest once the request is decoded.
Begin(h) ==
    /\ pc[h] = "idle" /\ Bounded
    /\ pc' = [pc EXCEPT ![h] = "active"] /\ totalRequests' = totalRequests + 1
    /\ UNCHANGED <<latency, rps, totalErrors, prevRequests, prevErrors, latencies, histories>>

\* InFlightStore.Remove at the end of an attempt; a request may have several.
EndAttempt(h) ==
    /\ pc[h] = "active" /\ Bounded
    /\ completed' = Logged(completed, ended + 1) /\ ended' = ended + 1
    /\ UNCHANGED <<pc, latency, rps, counters, latencies, events, verbose, notified, logged, mirroring>>

\* Mutant of Fail: a client that went away while queued is no error.
FailUncounted(h) ==
    /\ pc[h] = "active" /\ pc' = [pc EXCEPT ![h] = "idle"]
    /\ UNCHANGED <<latency, rps, counters, latencies, histories>>

\* Not admitted, no request id, no worker after all rounds, or a failed request.
Fail(h) ==
    /\ pc[h] = "active" /\ pc' = [pc EXCEPT ![h] = "idle"]
    /\ totalErrors' = totalErrors + 1
    /\ UNCHANGED <<latency, rps, totalRequests, prevRequests, prevErrors, latencies, histories>>

\* RecordLatency after the reply.
Succeed(h) ==
    /\ pc[h] = "active" /\ pc' = [pc EXCEPT ![h] = "idle"]
    /\ \E v \in Latencies : latency' = AddTo(latency, v)
    /\ latencies' = latencies + 1
    /\ UNCHANGED <<rps, counters, histories>>

\* Collect, by the loop of the autoscaler or by TriggerScaleUp in a handler.
Collect ==
    /\ rps' = AddTo(rps, totalRequests - prevRequests)
    /\ prevRequests' = totalRequests /\ prevErrors' = totalErrors
    /\ UNCHANGED <<pc, latency, totalRequests, totalErrors, latencies, histories>>

\* Event: the entry goes into the notifications, then, outside their lock, into
\* the verbose log as well.
Event(w) ==
    /\ w \notin mirroring /\ Bounded /\ mirroring' = mirroring \cup {w}
    /\ events' = Logged(events, notified + 1) /\ notified' = notified + 1
    /\ UNCHANGED <<pc, latency, rps, counters, latencies, completed, verbose, ended, logged>>
Mirror(w) ==
    /\ w \in mirroring /\ mirroring' = mirroring \ {w} /\ Verbose
    /\ UNCHANGED <<pc, latency, rps, counters, latencies, completed, events, ended, notified>>

Next ==
    \/ \E h \in Handlers : Begin(h) \/ EndAttempt(h) \/ Fail(h) \/ Succeed(h)
    \/ Collect
    \/ \E w \in Writers : Event(w) \/ Mirror(w)

Spec == Init /\ [][Next]_vars

-----------------------------------------------------------------------------
(* Properties *)

\* The rings are well formed, and no collection remembers more than was counted.
TypeOK ==
    /\ pc \in [Handlers -> {"idle", "active"}]
    /\ \A w \in {latency, rps} :
         /\ w.pos \in DOMAIN w.data /\ w.full \in BOOLEAN
         /\ \A i \in DOMAIN w.data : w.data[i] \in Nat
    /\ prevRequests \in 0..totalRequests /\ prevErrors \in 0..totalErrors
    /\ totalRequests \in 0..MaxRecords /\ latencies \in Nat
    /\ {ended, notified, logged} \subseteq Nat /\ mirroring \subseteq Writers

Active == {h \in Handlers : pc[h] = "active"}

\* Every path through the chat handler records its outcome exactly once: requests are
\* the failed ones, those with a latency and those still running.  The error rate and
\* the RPS the autoscaler acts on are derived from these counters.
OutcomeLedger == totalRequests = totalErrors + latencies + Cardinality(Active)

\* The percentile of the ring, wrapped or not, splits the samples: enough lie at or
\* below it and enough at or above it, and it grows with p.
PercentileSplits ==
    LET n == WindowLen(latency)
        values == Values(latency)
        below(x) == Cardinality({i \in 1..n : 100 * values[i] <= x})
        above(x) == Cardinality({i \in 1..n : 100 * values[i] >= x})
    IN  \A p \in {0, 50, 95, 100} :
          n > 0 => /\ 100 * below(Percentile(latency, p)) >= p * (n - 1) + (IF p = 100 THEN 100 ELSE 1)
                   /\ 100 * above(Percentile(latency, p)) >= (100 - p) * (n - 1) + (IF p = 0 THEN 100 ELSE 1)
                   /\ Percentile(latency, p) <= Percentile(latency, 100)

\* The trend that prewarms workers is the mean rise over all pairs of collections,
\* the further apart the heavier; with fewer than three there is none.
TrendIsMeanRise ==
    LET y == Values(rps)
        n == Len(y)
        rise == SumTo(n, [j \in 1..n |-> SumTo(j - 1, [i \in 1..(j - 1) |-> (j - i) * (y[j] - y[i])])])
        run == SumTo(n, [j \in 1..n |-> SumTo(j - 1, [i \in 1..(j - 1) |-> (j - i) * (j - i)])])
    IN  /\ Trend(rps).under > 0
        /\ n >= 3 => Trend(rps).over * run = rise * Trend(rps).under
        /\ n < 3 => Trend(rps).over = 0

\* Cutting a history never loses recent entries: up to Keep of the latest appends are
\* there, in order, whatever was cut before.
KeepsRecent(s, count) ==
    \A limit \in 1..Keep :
      LET n == IF limit < count THEN limit ELSE count
      IN  Recent(s, limit) = [i \in 1..n |-> count - n + i]
HistoryKept ==
    KeepsRecent(completed, ended) /\ KeepsRecent(events, notified) /\ KeepsRecent(verbose, logged)

\* The ring with its wrapping position implements a sliding window: what readers are
\* given is always the last LatencySize samples, oldest first.
Window == INSTANCE SlidingWindow
            WITH Size <- LatencySize, Samples <- Latencies, window <- Values(latency)
WindowSpec == Window!Spec
=============================================================================
