------------------------------ MODULE Autoscaler ------------------------------
(***************************************************************************)
(* The autoscaler (master/lib/autoscaler.go): the evaluation loop, the     *)
(* request goroutines that call TriggerScaleUp when a pick finds no        *)
(* worker, the scaling operations they start and the drain goroutines.     *)
(*                                                                         *)
(* A scaler is a goroutine that may scale: Loop runs tick, the Callers run *)
(* TriggerScaleUp.  Spawning blocks on HTTP calls, so each attempt is a    *)
(* step, and workers register, fail and leave between any two steps.       *)
(* Durations are kept as "zero" (unset), "recent" and "past".              *)
(***************************************************************************)
EXTENDS Integers, FiniteSets

CONSTANTS
    Agents,           \* agents that may register
    Workers,          \* worker ids that may be alive at once
    Loop,             \* the goroutine of Run
    Callers,          \* goroutines in TriggerScaleUp
    NoAgent,          \* "no agent"
    Queues,           \* the queue lengths Collect may report
    MinWorkers, MaxWorkers,             \* AutoscalerConfig; MaxWorkers is per agent
    MaxScaleUpStep, MaxScaleDownStep,   \* most workers per operation
    PrewarmWorkers, SpawnMaxRetries

ASSUME ScalerAssumption == IsFiniteSet(Callers) /\ Loop \notin Callers
ASSUME ClusterAssumption ==
    IsFiniteSet(Agents) /\ IsFiniteSet(Workers) /\ NoAgent \notin Agents
ASSUME ConfigAssumption ==
    /\ {MinWorkers, MaxWorkers, MaxScaleUpStep, MaxScaleDownStep, PrewarmWorkers} \subseteq Nat
    /\ SpawnMaxRetries \in Nat \ {0} /\ Queues \subseteq Nat

VARIABLES
    agents,      \* Router.agents
    state,       \* the life-cycle state of a worker in Router.workers; "none" when it
                 \* has no entry, "coming" when its container starts without one
    host,        \* Worker.agentID
    draining,    \* drainAndRemoveWorker goroutines: "no", "chosen", "marked"
    scalingInOp, \* the operation flag
    penalized,   \* agents whose penalizedUntil lies ahead
    lowLoad,     \* lowLoadSince: "zero", "recent" (under 5 s ago) or "past"
    pc, m, count, known, todo, remaining, target, tries, spawned
                 \* scalers: position; metrics; workers asked for; locals of scaleUp:
                 \* agents, those left to visit, workers left, agent asked, attempt,
                 \* workers spawned

clusterVars == <<agents, state, host>>
opVars == <<known, todo, remaining, target, tries, spawned>>
vars == <<clusterVars, draining, scalingInOp, penalized, lowLoad, pc, m, count, opVars>>

Scalers == Callers \cup {Loop}
States == {"none", "coming", "STARTING", "HEALTHY", "DRAINING"}
InOp == {"visit", "rest", "spawnVisit", "spawnRest", "select", "end"}
PCs == InOp \cup {"idle", "decide", "up", "down"}

Entries == {w \in Workers : state[w] \notin {"none", "coming"}}
Healthy == {w \in Workers : state[w] = "HEALTHY"}
On(a, S) == {w \in S : host[w] = a}

\* Agents that HealthyWorkerCountByAgent does not count a worker for.
Lacking == {a \in agents : On(a, Healthy) = {}}
MaxWorkersTotal == IF agents = {} THEN MaxWorkers ELSE Cardinality(agents) * MaxWorkers
Least(a, b) == IF a < b THEN a ELSE b
CapTotal(n) == IF MaxWorkersTotal > 0 THEN Least(n, MaxWorkersTotal) ELSE n

NoMetrics == [total |-> 0, healthy |-> 0]

Init ==
    /\ agents = {} /\ state = [w \in Workers |-> "none"]
    /\ host = [w \in Workers |-> NoAgent]
    /\ draining = [w \in Workers |-> "no"] /\ scalingInOp = FALSE /\ penalized = {} /\ lowLoad = "zero"
    /\ pc = [p \in Scalers |-> "idle"] /\ m = [p \in Scalers |-> NoMetrics]
    /\ count = [p \in Scalers |-> 0] /\ known = [p \in Scalers |-> {}]
    /\ todo = [p \in Scalers |-> {}] /\ remaining = [p \in Scalers |-> 0]
    /\ target = [p \in Scalers |-> NoAgent] /\ tries = [p \in Scalers |-> 0]
    /\ spawned = [p \in Scalers |-> 0]

Goto(p, label) == pc' = [pc EXCEPT ![p] = label]
Set(f, p, v) == [f EXCEPT ![p] = v]

-----------------------------------------------------------------------------
(* Deciding *)

\* MetricsCollector.Collect counts the workers.  What else it reports depends on
\* nothing modelled here and is chosen at the decision: the queue (QueueSize, or the
\* truncated QueueDepth), whether no request waits or runs, whether the queue grows.
Collect(p) ==
    /\ pc[p] = "idle" /\ Goto(p, "decide")
    /\ m' = Set(m, p, [total |-> Cardinality(Entries), healthy |-> Cardinality(Healthy)])
    /\ UNCHANGED <<clusterVars, draining, scalingInOp, penalized, lowLoad, count, opVars>>

\* The decision is taken; the metrics are not used any more.
Ask(p, label, n) ==
    /\ Goto(p, label) /\ count' = Set(count, p, n) /\ m' = Set(m, p, NoMetrics)
    /\ UNCHANGED <<clusterVars, draining, scalingInOp, opVars>>

\* TriggerScaleUp: one worker per three queued requests, at least one.
TriggerScaleUp(p) ==
    /\ p \in Callers /\ pc[p] = "decide"
    /\ \E queue \in Queues :
         LET wanted == m[p].healthy + queue \div 3
             needed == CapTotal(IF wanted < 1 THEN 1 ELSE wanted) - m[p].total
         IN  IF needed <= 0 THEN Ask(p, "idle", 0)
             ELSE Ask(p, "up", Least(needed, MaxScaleUpStep))
    /\ UNCHANGED <<penalized, lowLoad>>

\* evaluateScaleUp: the workers to add, 0 for none.
EvaluateScaleUp(total, queue) ==
    LET wanted == total + queue \div 5
        needed == CapTotal(IF wanted < 1 THEN 1 ELSE wanted) - total
    IN  IF queue = 0 \/ needed <= 0 \/ (MaxWorkersTotal > 0 /\ total >= MaxWorkersTotal)
        THEN 0 ELSE Least(needed, MaxScaleUpStep)

\* evaluateScaleDown: low load lasts while nothing waits or runs and workers exceed
\* the minimum; it must have lasted five seconds.
LowLoad(total, quiet) == quiet /\ total > MinWorkers
EvaluateScaleDown(total, quiet) ==
    IF LowLoad(total, quiet) /\ lowLoad = "past"
    THEN Least(total - MinWorkers, MaxScaleDownStep) ELSE 0
LowLoadSince(total, quiet) ==
    IF ~LowLoad(total, quiet) THEN "zero" ELSE IF lowLoad = "zero" THEN "recent" ELSE lowLoad

\* Mutant of Bootstrap: off by one in the test of the minimum.
BootstrapOffByOne ==
    /\ pc[Loop] = "decide" /\ m[Loop].total = 0
    /\ IF agents # {} /\ MinWorkers > 1
       THEN Ask(Loop, "up", MinWorkers) /\ penalized' = penalized \ agents
       ELSE Ask(Loop, "idle", 0) /\ UNCHANGED penalized
    /\ UNCHANGED lowLoad

\* tick with no worker at all: bootstrap, penalties forgotten.
Bootstrap ==
    /\ pc[Loop] = "decide" /\ m[Loop].total = 0
    /\ IF agents # {} /\ MinWorkers > 0
       THEN Ask(Loop, "up", MinWorkers) /\ penalized' = penalized \ agents
       ELSE Ask(Loop, "idle", 0) /\ UNCHANGED penalized
    /\ UNCHANGED lowLoad

\* tick with agents that have no healthy worker: one worker for each of them.
ServeLacking ==
    /\ pc[Loop] = "decide" /\ m[Loop].total > 0 /\ Lacking # {}
    /\ Ask(Loop, "up", Cardinality(Lacking))
    /\ UNCHANGED <<penalized, lowLoad>>

\* The rest of tick: scale up before down, and up also on a growing trend.
Evaluate ==
    /\ pc[Loop] = "decide" /\ m[Loop].total > 0 /\ Lacking = {}
    /\ \E queue \in Queues \cup {0}, quiet, growing \in BOOLEAN :
         LET up == EvaluateScaleUp(m[Loop].total, queue)
             down == EvaluateScaleDown(m[Loop].total, quiet)
         IN  /\ quiet => queue = 0
             /\ lowLoad' = LowLoadSince(m[Loop].total, quiet)
             /\ CASE up > 0 -> Ask(Loop, "up", up)
                  [] up = 0 /\ growing -> Ask(Loop, "up", PrewarmWorkers)
                  [] up = 0 /\ ~growing /\ down > 0 -> Ask(Loop, "down", down)
                  [] OTHER -> Ask(Loop, "idle", 0)
    /\ UNCHANGED penalized

Tick == Bootstrap \/ ServeLacking \/ Evaluate

-----------------------------------------------------------------------------
(* Scaling up *)

\* Mutant of StartUp: the flag is read and set as if it were not tested.
StartUpUnguarded(p) ==
    /\ pc[p] = "up" /\ Goto(p, "visit") /\ scalingInOp' = TRUE
    /\ known' = Set(known, p, agents) /\ remaining' = Set(remaining, p, count[p])
    /\ todo' = Set(todo, p, IF count[p] > 0 THEN Lacking ELSE {})
    /\ UNCHANGED <<clusterVars, draining, penalized, lowLoad, m, count, target, tries, spawned>>

\* scaleUp: CompareAndSwap, then the agents and those without a healthy worker.
StartUp(p) ==
    /\ pc[p] = "up"
    /\ IF scalingInOp
       THEN /\ Goto(p, "idle") /\ count' = Set(count, p, 0)
            /\ UNCHANGED <<scalingInOp, known, todo, remaining>>
       ELSE /\ Goto(p, "visit") /\ scalingInOp' = TRUE /\ UNCHANGED count
            /\ known' = Set(known, p, agents) /\ remaining' = Set(remaining, p, count[p])
            /\ todo' = Set(todo, p, IF count[p] > 0 THEN Lacking ELSE {})
    /\ UNCHANGED <<clusterVars, draining, penalized, lowLoad, m, target, tries, spawned>>

CallAgent(p, a, label) ==
    /\ Goto(p, label) /\ target' = Set(target, p, a) /\ tries' = Set(tries, p, 1)
    /\ UNCHANGED <<clusterVars, draining, scalingInOp, penalized, lowLoad, m, count, known,
                   remaining, spawned>>

\* First every agent without a healthy worker, in map order, penalized or not.
VisitAgent(p) ==
    /\ pc[p] = "visit" /\ remaining[p] > 0
    /\ \E a \in todo[p] :
         CallAgent(p, a, "spawnVisit") /\ todo' = Set(todo, p, todo[p] \ {a})

EndVisits(p) ==
    /\ pc[p] = "visit" /\ (remaining[p] = 0 \/ todo[p] = {})
    /\ Goto(p, "rest") /\ todo' = Set(todo, p, {})
    /\ UNCHANGED <<clusterVars, draining, scalingInOp, penalized, lowLoad, m, count, known,
                   remaining, target, tries, spawned>>

\* pickBestAgent: the fewest workers among the agents without a penalty.
Best(p) ==
    LET ready == known[p] \ penalized
        load(a) == Cardinality(On(a, Entries))
    IN  {a \in ready : \A b \in ready : load(a) <= load(b)}

\* Then the rest, one pick and one spawn after the other.
SpawnNext(p) ==
    /\ pc[p] = "rest" /\ remaining[p] > 0
    /\ \E a \in Best(p) : CallAgent(p, a, "spawnRest")
    /\ UNCHANGED todo

\* Nothing left, or every agent is penalized.
EndUp(p) ==
    /\ pc[p] = "rest" /\ (remaining[p] = 0 \/ Best(p) = {})
    /\ Goto(p, "end")
    /\ UNCHANGED <<clusterVars, draining, scalingInOp, penalized, lowLoad, m, count, opVars>>

Unused(w) == state[w] = "none" /\ draining[w] = "no"
Spawning(p) == pc[p] \in {"spawnVisit", "spawnRest"}
AfterSpawn(p) == Goto(p, IF pc[p] = "spawnVisit" THEN "visit" ELSE "rest")
Hire(w, a, s) == state' = Set(state, w, s) /\ host' = Set(host, w, a)

\* Mutant of SpawnOK: a worker spawned on a visit does not count against the rest.
SpawnOKUncounted(p) ==
    /\ Spawning(p) /\ AfterSpawn(p)
    /\ \E w \in Workers : Unused(w) /\ Hire(w, target[p], "STARTING")
    /\ penalized' = penalized \ {target[p]}
    /\ spawned' = Set(spawned, p, spawned[p] + 1)
    /\ remaining' = Set(remaining, p, IF pc[p] = "spawnRest" THEN remaining[p] - 1 ELSE remaining[p])
    /\ target' = Set(target, p, NoAgent) /\ tries' = Set(tries, p, 0)
    /\ UNCHANGED <<agents, draining, scalingInOp, lowLoad, m, count, known, todo>>

\* spawnWorkerWithRetry succeeds: a placeholder is registered, the penalty reset.
SpawnOK(p) ==
    /\ Spawning(p) /\ AfterSpawn(p)
    /\ \E w \in Workers : Unused(w) /\ Hire(w, target[p], "STARTING")
    /\ penalized' = penalized \ {target[p]}
    /\ spawned' = Set(spawned, p, spawned[p] + 1)
    /\ remaining' = Set(remaining, p, remaining[p] - 1)
    /\ target' = Set(target, p, NoAgent) /\ tries' = Set(tries, p, 0)
    /\ UNCHANGED <<agents, draining, scalingInOp, lowLoad, m, count, known, todo>>

\* Mutant of SpawnFails: a failed turn is not used up.
SpawnFailsUncounted(p) ==
    /\ Spawning(p)
    /\ \/ UNCHANGED <<state, host>>
       \/ \E w \in Workers : Unused(w) /\ Hire(w, target[p], "coming")
    /\ IF tries[p] < SpawnMaxRetries
       THEN /\ tries' = Set(tries, p, tries[p] + 1) /\ UNCHANGED <<pc, penalized, target>>
       ELSE /\ AfterSpawn(p) /\ penalized' = penalized \cup {target[p]}
            /\ target' = Set(target, p, NoAgent) /\ tries' = Set(tries, p, 0)
    /\ UNCHANGED <<agents, draining, scalingInOp, lowLoad, m, count, known, todo, remaining, spawned>>

\* An attempt fails; when only its answer was lost, the container starts all the
\* same.  The last one is recorded, and in the second loop it uses up its turn.
SpawnFails(p) ==
    /\ Spawning(p)
    /\ \/ UNCHANGED <<state, host>>
       \/ \E w \in Workers : Unused(w) /\ Hire(w, target[p], "coming")
    /\ IF tries[p] < SpawnMaxRetries
       THEN /\ tries' = Set(tries, p, tries[p] + 1)
            /\ UNCHANGED <<pc, penalized, remaining, target>>
       ELSE /\ AfterSpawn(p) /\ penalized' = penalized \cup {target[p]}
            /\ remaining' = Set(remaining, p, remaining[p] - (IF pc[p] = "spawnRest" THEN 1 ELSE 0))
            /\ target' = Set(target, p, NoAgent) /\ tries' = Set(tries, p, 0)
    /\ UNCHANGED <<agents, draining, scalingInOp, lowLoad, m, count, known, todo, spawned>>

\* The deferred scalingInOp.Store(false).
End(p) ==
    /\ pc[p] = "end" /\ Goto(p, "idle") /\ scalingInOp' = FALSE
    /\ count' = Set(count, p, 0) /\ known' = Set(known, p, {})
    /\ remaining' = Set(remaining, p, 0) /\ spawned' = Set(spawned, p, 0)
    /\ UNCHANGED <<clusterVars, draining, penalized, lowLoad, m, todo, target, tries>>

-----------------------------------------------------------------------------
(* Scaling down *)

StartDown(p) ==
    /\ pc[p] = "down"
    /\ IF scalingInOp
       THEN Goto(p, "idle") /\ count' = Set(count, p, 0) /\ UNCHANGED scalingInOp
       ELSE Goto(p, "select") /\ scalingInOp' = TRUE /\ UNCHANGED count
    /\ UNCHANGED <<clusterVars, draining, penalized, lowLoad, m, opVars>>

\* Mutant of Candidates: off by one.
CandidatesAny == {w \in Healthy : Cardinality(On(host[w], Healthy)) >= 1}

\* selectDrainCandidatesPerAgent: healthy workers of agents with more than one, the
\* least busy first; any of them when all are idle.
Candidates == {w \in Healthy : Cardinality(On(host[w], Healthy)) > 1}

SelectDrains(p) ==
    /\ pc[p] = "select" /\ Goto(p, "end")
    /\ \E S \in SUBSET Candidates :
         /\ Cardinality(S) = Least(count[p], Cardinality(Candidates))
         /\ draining' = [w \in Workers |-> IF w \in S THEN "chosen" ELSE draining[w]]
    /\ UNCHANGED <<clusterVars, scalingInOp, penalized, lowLoad, m, count, opVars>>

Leave(w) == state' = Set(state, w, "none") /\ host' = Set(host, w, NoAgent)
Change(w, s) == w \in Entries /\ state' = Set(state, w, s) /\ UNCHANGED host
Rest == <<agents, scalingInOp, penalized, lowLoad, pc, m, count, opVars>>

\* drainAndRemoveWorker: mark the worker, wait for its requests, remove it.
SetDraining(w) ==
    /\ draining[w] = "chosen" /\ draining' = Set(draining, w, "marked")
    /\ IF w \in Entries THEN Change(w, "DRAINING") ELSE UNCHANGED <<state, host>>
    /\ UNCHANGED Rest

DrainAndRemove(w) ==
    /\ draining[w] = "marked" /\ draining' = Set(draining, w, "no")
    /\ IF w \in Entries THEN Leave(w) ELSE UNCHANGED <<state, host>>
    /\ UNCHANGED Rest

-----------------------------------------------------------------------------
(* The cluster around the autoscaler *)

\* agentRegisterHandler: the first registration of an agent spawns a worker.
RegisterAgent(a) ==
    /\ a \notin agents /\ agents' = agents \cup {a}
    /\ \E w \in Workers : Unused(w) /\ Hire(w, a, "coming")
    /\ UNCHANGED <<draining, scalingInOp, penalized, lowLoad, pc, m, count, opVars>>

\* workerReadyHandler, or a container that never gets ready.
Ready(w) ==
    /\ state[w] \in {"coming", "STARTING"} /\ state' = Set(state, w, "HEALTHY")
    /\ UNCHANGED <<host, draining, Rest>>
NeverReady(w) == state[w] = "coming" /\ Leave(w) /\ UNCHANGED <<draining, Rest>>

\* healthCheckLoop: a failed ping, a late successful one, the sweep.
PingFails(w) == state[w] = "HEALTHY" /\ Change(w, "DRAINING") /\ UNCHANGED <<draining, Rest>>
LatePing(w) == state[w] = "DRAINING" /\ Change(w, "HEALTHY") /\ UNCHANGED <<draining, Rest>>
RemoveIdleDraining(w) == state[w] = "DRAINING" /\ Leave(w) /\ UNCHANGED <<draining, Rest>>

\* The operator: workers of no agent, removals.
AddWorker(w) == Unused(w) /\ Hire(w, NoAgent, "HEALTHY") /\ UNCHANGED <<draining, Rest>>
RemoveWorker(w) == w \in Entries /\ Leave(w) /\ UNCHANGED <<draining, Rest>>

\* Time passes.
LowLoadLasts ==
    /\ lowLoad = "recent" /\ lowLoad' = "past"
    /\ UNCHANGED <<clusterVars, draining, scalingInOp, penalized, pc, m, count, opVars>>
PenaltyEnds(a) ==
    /\ a \in penalized /\ penalized' = penalized \ {a}
    /\ UNCHANGED <<clusterVars, draining, scalingInOp, lowLoad, pc, m, count, opVars>>

ScaleUpStep(p) ==
    \/ StartUp(p) \/ VisitAgent(p) \/ EndVisits(p) \/ SpawnNext(p) \/ EndUp(p)
    \/ SpawnOK(p) \/ SpawnFails(p)
ScaleStep(p) == ScaleUpStep(p) \/ StartDown(p) \/ SelectDrains(p) \/ End(p)
CallerStep(p) == TriggerScaleUp(p) \/ ScaleStep(p)
LoopStep == Collect(Loop) \/ Tick \/ ScaleStep(Loop)
DrainStep(w) == SetDraining(w) \/ DrainAndRemove(w)
Environment ==
    \/ \E a \in Agents : RegisterAgent(a) \/ PenaltyEnds(a)
    \/ \E w \in Workers : \/ Ready(w) \/ NeverReady(w) \/ PingFails(w) \/ LatePing(w)
                          \/ RemoveIdleDraining(w) \/ AddWorker(w) \/ RemoveWorker(w)
    \/ LowLoadLasts

Next ==
    \/ \E p \in Callers : Collect(p) \/ CallerStep(p)
    \/ LoopStep
    \/ \E w \in Workers : DrainStep(w)
    \/ Environment

Spec == Init /\ [][Next]_vars

\* The goroutine of the loop and those of started operations run on, drains have a
\* deadline, and agents that are asked again and again accept a request some time.
Fairness ==
    /\ WF_vars(LoopStep) /\ \A p \in Callers : WF_vars(CallerStep(p))
    /\ WF_vars(\E w \in Workers : DrainStep(w))
    /\ SF_vars(\E p \in Scalers : SpawnOK(p))
FairSpec == Spec /\ Fairness

-----------------------------------------------------------------------------
(* Properties *)

\* Ranges of the variables: no operation counts its remaining workers below zero.
TypeOK ==
    /\ agents \subseteq Agents
    /\ state \in [Workers -> States] /\ host \in [Workers -> Agents \cup {NoAgent}]
    /\ draining \in [Workers -> {"no", "chosen", "marked"}]
    /\ scalingInOp \in BOOLEAN /\ penalized \subseteq Agents
    /\ lowLoad \in {"zero", "recent", "past"}
    /\ pc \in [Scalers -> PCs]
    /\ m \in [Scalers -> [total : Nat, healthy : Nat]]
    /\ count \in [Scalers -> Nat] /\ known \in [Scalers -> SUBSET Agents]
    /\ todo \in [Scalers -> SUBSET Agents] /\ remaining \in [Scalers -> Nat]
    /\ target \in [Scalers -> Agents \cup {NoAgent}]
    /\ tries \in [Scalers -> 0..SpawnMaxRetries] /\ spawned \in [Scalers -> Nat]

\* The flag keeps operations apart: while a worker is being spawned or drains are
\* selected, no other goroutine does either, and the flag is up exactly then.
OneOperation ==
    /\ \A p, q \in Scalers : pc[p] \in InOp /\ pc[q] \in InOp => p = q
    /\ scalingInOp <=> \E p \in Scalers : pc[p] \in InOp

\* An operation registers no more workers than were asked for, however the visits
\* to agents without workers, the picks and the failed attempts follow each other.
SpawnsWithinRequest == \A p \in Scalers : spawned[p] <= count[p]

\* Scaling down never takes an agent's only healthy worker.
LastHealthySpared ==
    [][\A w \in Workers : draining[w] = "no" /\ draining'[w] = "chosen" =>
         \E v \in Workers \ {w} : state[v] = "HEALTHY" /\ host[v] = host[w]]_vars

\* Every scaling operation ends: the flag never stays up.
OperationEnds == []<>~scalingInOp

\* A cluster without workers gets one as long as an agent is registered, whatever
\* penalties the agents have collected.
BootstrapRecovers == agents # {} /\ MinWorkers > 0 ~> \E w \in Workers : state[w] # "none"

\* The code does not keep the last one (README, "Known disagreements"): its comment
\* says "drains only if each agent keeps >= 1 healthy worker", that is: after a selection every
\* agent that loses a worker has another healthy one that is not chosen.
SelectionKeepsHealthy ==
    [][\A w \in Workers : draining[w] = "no" /\ draining'[w] = "chosen" /\ host[w] # NoAgent =>
         \E v \in On(host[w], Healthy) : draining'[v] = "no"]_vars
=============================================================================
