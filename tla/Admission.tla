------------------------------ MODULE Admission ------------------------------
(***************************************************************************)
(* The admission controller of the master (master/lib/admission.go), at    *)
(* the granularity of its atomic counters.  Every request is a goroutine   *)
(* running Admit and, once admitted, the chat handler that holds the       *)
(* release function.  Each Load, Store and Add of an atomic.Int64 is a     *)
(* step of its own: that is where two requests interleave.                 *)
(*                                                                         *)
(* The local variables of Admit are the functions "limit" (maxActive) and  *)
(* "seen" (current, and the queue length on its way to the metrics); both  *)
(* are reset to 0 when they are dead, so equal situations are equal states.*)
(***************************************************************************)
EXTENDS Integers, FiniteSets

CONSTANTS
    Requests,        \* chat handler goroutines that may be alive at once
    PerWorker,       \* AdmissionConfig.MaxConcurrencyPerWorker
    MaxQueueSize,    \* AdmissionConfig.MaxQueueSize
    EliteBurstSlots, \* limits.go
    ProBurstSlots,   \* limits.go
    MaxHealthy       \* bound: the largest healthy worker count ever reported

ASSUME RequestsAssumption == IsFiniteSet(Requests)
ASSUME ParameterAssumption ==
    /\ PerWorker \in Nat /\ MaxQueueSize \in Nat
    /\ EliteBurstSlots \in Nat /\ ProBurstSlots \in Nat
    /\ MaxHealthy \in Nat \ {0}

VARIABLES
    active,     \* ac.active: slots taken, including tentative ones
    maxActive,  \* ac.maxActive: the concurrency limit in force
    queueSize,  \* ac.queueSize: requests inside the wait queue
    gauge,      \* MetricsCollector.queueSize, fed by SetQueueSize
    pc,         \* where each request is in Admit or in its handler
    tier,       \* the tier each request was sent with
    limit,      \* local maxActive of Admit
    seen,       \* local value of the last counter load
    won         \* requests leaving the queue with a release function

vars == <<active, maxActive, queueSize, gauge, pc, tier, limit, seen, won>>

Tiers == {"elite", "pro", "free"}

BurstSlots == [elite |-> EliteBurstSlots, pro |-> ProBurstSlots, free |-> 0]

MaxLimit == MaxHealthy * PerWorker

\* Between Enter and Dequeue a request is counted in ac.queueSize.
QueuePCs == {"loadIn", "publishIn", "waiting", "tickCheck", "tickAdd",
             "tickUndo", "dequeue"}
LeavingPCs == {"dequeue", "loadOut", "publishOut"}
PCs == {"idle", "loadActive", "decide", "fastUndo", "checkQueue", "enqueue",
        "loadOut", "publishOut", "holding"} \cup QueuePCs

Init ==
    /\ active = 0 /\ queueSize = 0 /\ gauge = 0
    /\ maxActive = PerWorker
    /\ pc = [r \in Requests |-> "idle"]
    /\ tier = [r \in Requests |-> "free"]
    /\ limit = [r \in Requests |-> 0]
    /\ seen = [r \in Requests |-> 0]
    /\ won = {}

-----------------------------------------------------------------------------
At(r, label) == pc[r] = label
Goto(r, label) == pc' = [pc EXCEPT ![r] = label]
LoadLimit(r) == limit' = [limit EXCEPT ![r] = maxActive]
Remember(r, value) == seen' = [seen EXCEPT ![r] = value]
ForgetLimit(r) == limit' = [limit EXCEPT ![r] = 0]
ForgetSeen(r) == seen' = [seen EXCEPT ![r] = 0]

\* The handler calls Admit, which first loads the limit.
Arrive(r) ==
    /\ At(r, "idle")
    /\ \E t \in Tiers : tier' = [tier EXCEPT ![r] = t]
    /\ LoadLimit(r) /\ Goto(r, "loadActive")
    /\ UNCHANGED <<active, maxActive, queueSize, gauge, seen, won>>

LoadActive(r) ==
    /\ At(r, "loadActive")
    /\ Remember(r, active) /\ Goto(r, "decide")
    /\ UNCHANGED <<active, maxActive, queueSize, gauge, tier, limit, won>>

HasBurst(r) == tier[r] # "free" /\ seen[r] < limit[r] + BurstSlots[tier[r]]

\* Elite and pro skip the queue on the strength of the value they loaded; the
\* increment does not look at the counter again.
AdmitBurst(r) ==
    /\ At(r, "decide") /\ HasBurst(r)
    /\ active' = active + 1
    /\ Goto(r, "holding") /\ ForgetLimit(r) /\ ForgetSeen(r)
    /\ UNCHANGED <<maxActive, queueSize, gauge, tier, won>>

\* Mutant of WithinLimit: compares the value before the increment.
WithinLimitOffByOne(r) == active <= limit[r]

\* The test ac.active.Add(1) <= maxActive of both optimistic increments.
WithinLimit(r) == active + 1 <= limit[r]

FastPath(r) == limit[r] > 0 /\ seen[r] < limit[r]

\* Mutant of TryFast: the slot is taken on the strength of the earlier load.
TryFastUnchecked(r) ==
    /\ At(r, "decide") /\ ~HasBurst(r) /\ FastPath(r)
    /\ active' = active + 1
    /\ Goto(r, "holding") /\ ForgetLimit(r) /\ ForgetSeen(r)
    /\ UNCHANGED <<maxActive, queueSize, gauge, tier, won>>

\* The fast path takes a slot and keeps it only if it is within the limit.
TryFast(r) ==
    /\ At(r, "decide") /\ ~HasBurst(r) /\ FastPath(r)
    /\ active' = active + 1
    /\ \/ WithinLimit(r)  /\ Goto(r, "holding")
       \/ ~WithinLimit(r) /\ Goto(r, "fastUndo")
    /\ ForgetLimit(r) /\ ForgetSeen(r)
    /\ UNCHANGED <<maxActive, queueSize, gauge, tier, won>>

UndoFast(r) ==
    /\ At(r, "fastUndo")
    /\ active' = active - 1
    /\ Goto(r, "checkQueue")
    /\ UNCHANGED <<maxActive, queueSize, gauge, tier, limit, seen, won>>

SkipFast(r) ==
    /\ At(r, "decide") /\ ~HasBurst(r) /\ ~FastPath(r)
    /\ Goto(r, "checkQueue") /\ ForgetLimit(r) /\ ForgetSeen(r)
    /\ UNCHANGED <<active, maxActive, queueSize, gauge, tier, won>>

RejectFull(r) ==
    /\ At(r, "checkQueue") /\ queueSize >= MaxQueueSize
    /\ Goto(r, "idle")
    /\ UNCHANGED <<active, maxActive, queueSize, gauge, tier, limit, seen, won>>

PassQueueCheck(r) ==
    /\ At(r, "checkQueue") /\ queueSize < MaxQueueSize
    /\ Goto(r, "enqueue")
    /\ UNCHANGED <<active, maxActive, queueSize, gauge, tier, limit, seen, won>>

Enqueue(r) ==
    /\ At(r, "enqueue")
    /\ queueSize' = queueSize + 1
    /\ Goto(r, "loadIn")
    /\ UNCHANGED <<active, maxActive, gauge, tier, limit, seen, won>>

\* SetQueueSize(int(queueSize.Load())) loads first and stores under the metrics
\* mutex afterwards: two steps, on the way in and on the way out.
LoadQueueSize(r) ==
    /\ Remember(r, queueSize)
    /\ \/ At(r, "loadIn")  /\ Goto(r, "publishIn")
       \/ At(r, "loadOut") /\ Goto(r, "publishOut")
    /\ UNCHANGED <<active, maxActive, queueSize, gauge, tier, limit, won>>

PublishEntry(r) ==
    /\ At(r, "publishIn")
    /\ gauge' = seen[r]
    /\ Goto(r, "waiting") /\ ForgetSeen(r)
    /\ UNCHANGED <<active, maxActive, queueSize, tier, limit, won>>

\* The ticker case of the select loop: reload the limit, then compare.
Tick(r) ==
    /\ At(r, "waiting")
    /\ LoadLimit(r) /\ Goto(r, "tickCheck")
    /\ UNCHANGED <<active, maxActive, queueSize, gauge, tier, seen, won>>

TickCheck(r) ==
    /\ At(r, "tickCheck")
    /\ \/ active < limit[r] /\ Goto(r, "tickAdd") /\ UNCHANGED limit
       \/ active >= limit[r] /\ Goto(r, "waiting") /\ ForgetLimit(r)
    /\ UNCHANGED <<active, maxActive, queueSize, gauge, tier, seen, won>>

TickAdd(r) ==
    /\ At(r, "tickAdd")
    /\ active' = active + 1
    /\ \/ WithinLimit(r)  /\ Goto(r, "dequeue")  /\ won' = won \cup {r}
       \/ ~WithinLimit(r) /\ Goto(r, "tickUndo") /\ UNCHANGED won
    /\ ForgetLimit(r)
    /\ UNCHANGED <<maxActive, queueSize, gauge, tier, seen>>

\* Mutant of TickUndo: the overshooting increment is not taken back.
TickUndoForgotten(r) ==
    /\ At(r, "tickUndo") /\ Goto(r, "waiting")
    /\ UNCHANGED <<active, maxActive, queueSize, gauge, tier, limit, seen, won>>

TickUndo(r) ==
    /\ At(r, "tickUndo")
    /\ active' = active - 1
    /\ Goto(r, "waiting")
    /\ UNCHANGED <<maxActive, queueSize, gauge, tier, limit, seen, won>>

\* The other two cases of the select: both return an error.
GiveUp(r) ==
    /\ At(r, "waiting") /\ Goto(r, "dequeue")
    /\ UNCHANGED <<active, maxActive, queueSize, gauge, tier, limit, seen, won>>
ClientGone(r) == GiveUp(r)
\* Mutant of QueueTimeout: requests wait out a cluster without workers.
QueueTimeoutNeedsWorkers(r) == maxActive > 0 /\ GiveUp(r)
QueueTimeout(r) == GiveUp(r)

\* Mutant of Dequeue: the success path leaves the queue counter alone.
DequeueOnErrorOnly(r) ==
    /\ At(r, "dequeue")
    /\ queueSize' = IF r \in won THEN queueSize ELSE queueSize - 1
    /\ Goto(r, "loadOut")
    /\ UNCHANGED <<active, maxActive, gauge, tier, limit, seen, won>>

\* The deferred function of Admit, on every way out of the queue.
Dequeue(r) ==
    /\ At(r, "dequeue")
    /\ queueSize' = queueSize - 1
    /\ Goto(r, "loadOut")
    /\ UNCHANGED <<active, maxActive, gauge, tier, limit, seen, won>>

PublishExit(r) ==
    /\ At(r, "publishOut")
    /\ gauge' = seen[r]
    /\ \/ r \in won /\ Goto(r, "holding")
       \/ r \notin won /\ Goto(r, "idle")
    /\ won' = won \ {r}
    /\ ForgetSeen(r)
    /\ UNCHANGED <<active, maxActive, queueSize, tier, limit>>

\* The handler's deferred release(), on every return path of the handler.
Release(r) ==
    /\ At(r, "holding")
    /\ active' = active - 1
    /\ Goto(r, "idle")
    /\ UNCHANGED <<maxActive, queueSize, gauge, tier, limit, seen, won>>

\* admissionUpdateLoop, every two seconds, whatever the requests are doing.
UpdateLimits ==
    /\ \E healthy \in 0..MaxHealthy : maxActive' = healthy * PerWorker
    /\ UNCHANGED <<active, queueSize, gauge, pc, tier, limit, seen, won>>

\* The steps a goroutine inside Admit takes without waiting for anything.
AdmitStep(r) ==
    \/ LoadActive(r) \/ AdmitBurst(r) \/ TryFast(r) \/ UndoFast(r)
    \/ SkipFast(r) \/ RejectFull(r) \/ PassQueueCheck(r) \/ Enqueue(r)
    \/ LoadQueueSize(r) \/ PublishEntry(r) \/ TickCheck(r) \/ TickAdd(r)
    \/ TickUndo(r) \/ Dequeue(r) \/ PublishExit(r)

Next ==
    \/ UpdateLimits
    \/ \E r \in Requests :
          Arrive(r) \/ AdmitStep(r) \/ Tick(r) \/ ClientGone(r)
            \/ QueueTimeout(r) \/ Release(r)

Spec == Init /\ [][Next]_vars

\* Goroutines run; the select picks at random among its ready cases, so a
\* timer that stays ready is not passed over for ever; a holder's handler
\* ends because HandleChat is a bounded loop over calls with a deadline.
Fairness ==
    \A r \in Requests :
        /\ WF_vars(AdmitStep(r))
        /\ SF_vars(QueueTimeout(r))
        /\ WF_vars(Release(r))

FairSpec == Spec /\ Fairness

-----------------------------------------------------------------------------
\* No limit stored or read by Admit exceeds that of the whole cluster, and only a request
\* that leaves the queue has won a slot there.
TypeOK ==
    /\ active \in Int /\ queueSize \in Int /\ gauge \in Int
    /\ maxActive \in 0..MaxLimit
    /\ pc \in [Requests -> PCs]
    /\ tier \in [Requests -> Tiers]
    /\ limit \in [Requests -> 0..MaxLimit]
    /\ seen \in [Requests -> Int]
    /\ won \subseteq {r \in Requests : pc[r] \in LeavingPCs}

\* A request owns a slot from the increment that took it to the decrement
\* that gives it back.
Owns(r) == pc[r] \in {"holding", "fastUndo", "tickUndo"} \/ r \in won
Owners == {r \in Requests : Owns(r)}

\* Owners for which Admit has decided to admit.
Admitted == {r \in Requests : At(r, "holding") \/ r \in won}
Queued == {r \in Requests : pc[r] \in QueuePCs}

\* The concurrency counter is exactly the number of slots somebody will give
\* back: no path through Admit, its select loop or the handler leaks a slot or
\* returns one twice.
SlotLedger == active = Cardinality(Owners)

\* The queue counter is exactly the number of requests inside the queue, on
\* every one of the three ways out of it.
QueueLedger == queueSize = Cardinality(Queued)

\* However stale the limit a free request compared with, free requests never
\* hold more slots than the largest limit the cluster can have: the optimistic
\* increment is undone whenever it overshoots.
FreeWithinLimit ==
    Cardinality({r \in Admitted : tier[r] = "free"}) <= MaxLimit

\* The code does not keep the next two (README, "Known disagreements").
\* Once no request is in the queue nor on its way in or out, the gauge the
\* autoscaler reads is back to zero (metrics.go:258: SetQueueSize "updates the
\* current pending queue size").
GaugeSettles ==
    (\A r \in Requests : pc[r] \in {"idle", "holding"}) => gauge = 0

\* admission.go:32 calls MaxQueueSize the "maximum pending requests in queue".
QueueBounded == queueSize <= MaxQueueSize

\* Every call of Admit returns, admitted or refused, even when no worker is
\* ever healthy: the queue timer bounds the wait.
AdmitReturns ==
    \A r \in Requests :
        ~At(r, "idle") /\ ~At(r, "holding") ~> At(r, "idle") \/ At(r, "holding")

\* The counters with their optimistic increments, undo steps and ticker implement a
\* controller that counts the slots really in use: a free request, or a request that
\* finds no burst, gets a slot only if fewer were in use at that moment than a limit in
\* force during its call; and only a queue that is full at that moment refuses.
Service ==
    INSTANCE AdmissionService WITH
        Burst <- BurstSlots, QueueSize <- MaxQueueSize,
        Capacities <- {healthy * PerWorker : healthy \in 0..MaxHealthy},
        capacity <- maxActive, known <- limit,
        asking <- {r \in Requests : pc[r] \in {"loadActive", "decide", "fastUndo", "checkQueue"}},
        looked <- {r \in Requests : At(r, "decide") /\ HasBurst(r)},
        cleared <- {r \in Requests : At(r, "enqueue")},
        queue <- Queued, slots <- Admitted
ServiceSpec == Service!Spec
=============================================================================
