------------------------------ MODULE LoadTest ------------------------------
(***************************************************************************)
(* The load generator (client/loadtest): bursts by key or by clock, the    *)
(* requests they start and the counters of its dashboard.  A request is    *)
(* two commands started together, one that reports it as sent and one that *)
(* runs it; Bubble Tea delivers their messages in any order.  A request is *)
(* identified by the seed it is made from.                                 *)
(***************************************************************************)
EXTENDS Integers, Sequences, FiniteSets, SequencesExt

CONSTANTS
    BurstStart, RateStart,            \* BurstCount and RateCount at start
    MaxRetries,                       \* maxRetries of sendChat
    MaxLogs,                          \* log entries kept
    MaxRequests, MaxEdits             \* bounds: requests, configuration keys

ASSUME ConfigAssumption == {BurstStart, RateStart} \subseteq Nat \ {0}
ASSUME LoadAssumption ==
    /\ {MaxRetries, MaxLogs} \subseteq Nat \ {0}
    /\ {MaxRequests, MaxEdits} \subseteq Nat

VARIABLES
    paused, mode, due,          \* due: RateEvery has passed since lastRate
    burst, rate, edits,         \* cfg.BurstCount and cfg.RateCount
    seed, unsent,               \* requests started so far; those whose sendMsg is due
    attempt,                    \* requests: attempt under way, 0 when done
    sent, ok, fail, waiting, maxWaiting, \* Metrics: the counters of its dashboard
    latencies,                  \* Metrics: the number of latencies kept
    logs,                       \* the requests in the log
    overtaken                   \* completions that found nothing waiting (history)

config == <<burst, rate, edits>>
requests == <<seed, unsent, attempt>>
metrics == <<sent, ok, fail, waiting, maxWaiting, latencies, logs, overtaken>>
vars == <<paused, mode, due, config, requests, metrics>>

Requests == 1..MaxRequests
Done == {r \in 1..seed : attempt[r] = 0}

Init ==
    /\ paused = TRUE /\ mode = "burst" /\ due = TRUE
    /\ burst = BurstStart /\ rate = RateStart /\ edits = 0
    /\ seed = 0 /\ unsent = {}
    /\ attempt = [r \in Requests |-> 0]
    /\ sent = 0 /\ ok = 0 /\ fail = 0 /\ waiting = 0 /\ maxWaiting = 0
    /\ latencies = 0 /\ logs = <<>> /\ overtaken = 0

-----------------------------------------------------------------------------
(* Starting requests *)

\* scheduleBurst: n times sendOne, each with a seed of its own; nothing for n <= 0.
ScheduleBurst(n) ==
    LET new == (seed + 1)..(seed + n)
    IN  /\ seed + n <= MaxRequests
        /\ seed' = IF n > 0 THEN seed + n ELSE seed
        /\ unsent' = unsent \cup new
        /\ attempt' = [r \in Requests |-> IF r \in new THEN 1 ELSE attempt[r]]

\* "b": whether paused or not.
Burst == ScheduleBurst(burst) /\ UNCHANGED <<paused, mode, due, config, metrics>>

\* tickMsg in rate mode.
Tick ==
    /\ ~paused /\ mode = "rate" /\ due /\ due' = FALSE /\ ScheduleBurst(rate)
    /\ UNCHANGED <<paused, mode, config, metrics>>
RateEveryPasses == ~due /\ due' = TRUE /\ UNCHANGED <<paused, mode, config, requests, metrics>>

\* "r", "p" and "s"
Start ==
    /\ mode' = "rate" /\ paused' = FALSE /\ due' = FALSE
    /\ UNCHANGED <<config, requests, metrics>>
Pause == paused' = TRUE /\ UNCHANGED <<mode, due, config, requests, metrics>>

Stop == mode' = "burst" /\ paused' = TRUE /\ UNCHANGED <<due, config, requests, metrics>>

\* "+", "-", "]" and "[": a burst is taken down by ten when it is more than one.
Edit ==
    /\ edits < MaxEdits /\ edits' = edits + 1
    /\ \/ burst' \in {burst + 10} \cup (IF burst > 1 THEN {burst - 10} ELSE {}) /\ UNCHANGED rate
       \/ rate' \in {rate + 1} \cup (IF rate > 1 THEN {rate - 1} ELSE {}) /\ UNCHANGED burst
    /\ UNCHANGED <<paused, mode, due, requests, metrics>>

-----------------------------------------------------------------------------
(* Requests *)

\* sendMsg: MarkSent
MarkSent(r) ==
    /\ r \in unsent /\ unsent' = unsent \ {r}
    /\ sent' = sent + 1 /\ waiting' = waiting + 1
    /\ maxWaiting' = IF waiting' > maxWaiting THEN waiting' ELSE maxWaiting
    /\ UNCHANGED <<paused, mode, due, config, seed, attempt, ok, fail, latencies, logs, overtaken>>

\* Mutant of Retry: attempts without an end.
RetryStartsOver(r) ==
    /\ attempt[r] # 0 /\ attempt' = [attempt EXCEPT ![r] = (@ % MaxRetries) + 1]
    /\ UNCHANGED <<paused, mode, due, config, seed, unsent, metrics>>
\* sendChat: a network error, 429 or 5xx is tried again.
Retry(r) ==
    /\ attempt[r] \in 1..(MaxRetries - 1) /\ attempt' = [attempt EXCEPT ![r] = @ + 1]
    /\ UNCHANGED <<paused, mode, due, config, seed, unsent, metrics>>

\* Mutant of Completed: the gauge is only kept from going below zero.
CompletedUncounted ==
    IF waiting > 1 THEN waiting' = waiting - 1 /\ UNCHANGED overtaken
    ELSE overtaken' = overtaken + 1 - waiting /\ UNCHANGED waiting

\* The end of MarkOK and MarkFail: nothing waiting is left at zero.
Completed ==
    IF waiting > 0 THEN waiting' = waiting - 1 /\ UNCHANGED overtaken
    ELSE overtaken' = overtaken + 1 /\ UNCHANGED waiting

\* Mutant of AppendLog: a full log loses one entry too many.
AppendLogOffByOne(r) ==
    LET t == Append(logs, r)
    IN  logs' = IF Len(t) >= MaxLogs THEN SubSeq(t, Len(t) - MaxLogs + 2, Len(t)) ELSE t
\* appendLog keeps the latest entries.
AppendLog(r) ==
    LET t == Append(logs, r)
    IN  logs' = IF Len(t) > MaxLogs THEN SubSeq(t, Len(t) - MaxLogs + 1, Len(t)) ELSE t

\* doneMsg: MarkOK or MarkFail, the latency and the log entry.
MarkDone(r) ==
    /\ attempt[r] # 0 /\ attempt' = [attempt EXCEPT ![r] = 0]
    /\ \/ ok' = ok + 1 /\ UNCHANGED fail
       \/ fail' = fail + 1 /\ UNCHANGED ok
    /\ Completed
    /\ latencies' = latencies + 1 /\ AppendLog(r)
    /\ UNCHANGED <<paused, mode, due, config, seed, unsent, sent, maxWaiting>>

RequestStep(r) == MarkSent(r) \/ Retry(r) \/ MarkDone(r)

Next ==
    \/ Burst \/ Tick \/ RateEveryPasses \/ Start \/ Pause \/ Stop \/ Edit
    \/ \E r \in Requests : RequestStep(r)

Spec == Init /\ [][Next]_vars

\* Commands run and their messages are delivered; requests have a deadline.
Fairness == \A r \in Requests : WF_vars(RequestStep(r))
FairSpec == Spec /\ Fairness

-----------------------------------------------------------------------------
(* Properties *)

\* The ranges of the variables; taking a burst down by ten may leave it below one.
TypeOK ==
    /\ paused \in BOOLEAN /\ mode \in {"burst", "rate"} /\ due \in BOOLEAN
    /\ burst \in Int /\ burst > -10 /\ rate \in Nat \ {0} /\ edits \in 0..MaxEdits
    /\ seed \in 0..MaxRequests /\ unsent \subseteq 1..seed
    /\ attempt \in [Requests -> 0..MaxRetries]
    /\ {sent, ok, fail, waiting, maxWaiting, latencies, overtaken} \subseteq Nat

\* In whatever order the two messages of a request arrive: the in-flight gauge never
\* shows less than the requests counted as sent minus those counted as done, it is
\* too high by exactly the completions that overtook, and the peak is at least it.
InFlightGauge ==
    /\ waiting = sent - (ok + fail) + overtaken
    /\ waiting <= maxWaiting /\ maxWaiting <= sent
    /\ overtaken <= Cardinality(Done)

\* Each request is counted once as sent and once as done, its latency kept, and logged
\* once; the log holds as many completions as it may.
CountedOnce ==
    /\ sent = seed - Cardinality(unsent) /\ ok + fail = Cardinality(Done)
    /\ latencies = ok + fail /\ Cardinality(ToSet(logs)) = Len(logs)
    /\ Len(logs) = (IF ok + fail < MaxLogs THEN ok + fail ELSE MaxLogs)
    /\ ToSet(logs) \subseteq Done

\* Every request that was started is done in the end, after its retries.
RequestsEnd == \A r \in Requests : (r <= seed) ~> (r \in Done /\ r \notin unsent)
=============================================================================
