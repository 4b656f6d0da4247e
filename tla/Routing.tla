------------------------------- MODULE Routing -------------------------------
(***************************************************************************)
(* The master's router: chat handlers that pick a worker and call it       *)
(* (master/lib/router.go, strategy.go, worker.go, server.go), the          *)
(* autoscaler's drain goroutines, the operator's drain and remove          *)
(* commands (admin.go), the health check loop and the registration of      *)
(* workers that announce themselves.                                       *)
(*                                                                         *)
(* An instance is one *Worker object; two instances may carry the same id, *)
(* and the router's map knows at most one of them.  Every critical section *)
(* of a worker's mutex or of the write lock of workersM, and every atomic  *)
(* counter update, is a step of its own; PickWorker, which holds the read  *)
(* lock while it looks at one worker after the other, takes a step for     *)
(* each, between which counters and states change.                         *)
(***************************************************************************)
EXTENDS Integers, FiniteSets

CONSTANTS
    Requests,     \* chat handler goroutines that may be alive at once
    Instances,    \* *Worker objects that may ever be created
    Ids,          \* worker ids
    IdOf,         \* the id each instance is created with
    NoWorker,     \* "no instance"
    Drainers,     \* drain goroutines that may be alive at once
    Strategies,   \* the strategies the operator switches between
    MaxActive,    \* WorkerMaxConcurrency
    MaxAttempts,  \* attempts of one HandleChat
    MaxRounds     \* HandleChat calls of one chat handler

ASSUME FiniteAssumption == IsFiniteSet(Requests)
ASSUME IdAssumption == IdOf \in [Instances -> Ids]
ASSUME NoWorkerAssumption == NoWorker \notin Instances
ASSUME StrategyAssumption ==
    "least" \in Strategies /\ Strategies \subseteq {"least", "roundrobin", "random"}
ASSUME BoundAssumption ==
    MaxActive \in Nat \ {0} /\ MaxAttempts \in Nat \ {0} /\ MaxRounds \in Nat \ {0}

VARIABLES
    table,     \* Router.workers: the instance registered under each id
    life,      \* Worker.lifecycle; "new" before the object exists
    open,      \* Worker.conn is open
    up,        \* the ids whose worker process answers (unknown to the master)
    active,    \* Worker.activeRequests
    strategy,  \* Router.strategy
    inflight,  \* the keys of monitoring.InFlightStore
    doomed,    \* ids with a destroy call to their agent under way
    pc, on, attempt, round,   \* chat handlers: position, worker of the attempt,
                              \* loop counters
    how, loads, \* PickWorker: the strategy it goes by, what it saw of each worker
    dpc, job, late, \* drain goroutines: position, worker, whether they gave up
                    \* waiting
    drained,   \* history: the workers whose drain has ended
    hpc, sweep, toPing, ping  \* the health check loop and its locals

workerVars == <<table, life, open, up, active, strategy, doomed>>
scanVars == <<how, loads>>
requestVars == <<inflight, pc, on, attempt, round, scanVars>>
drainVars == <<dpc, job, late, drained>>
healthVars == <<hpc, sweep, toPing, ping>>
vars == <<workerVars, requestVars, drainVars, healthVars>>

Registered == {i \in Instances : table[IdOf[i]] = i}

RequestPCs == {"idle", "pick", "scan", "picked", "tracked", "calling", "replied", "failed", "mark"}
DrainPCs == {"idle", "chosen", "wait", "stop", "close", "dead", "remove",
             "killStop", "killClose"}
Lives == {"new", "HEALTHY", "DRAINING", "STOPPING", "DEAD"}
Unread == -2 \* not looked at yet
Away == -1   \* seen not routable
Blank == [i \in Instances |-> Unread]
NoPing == [worker |-> NoWorker, ok |-> FALSE]

Init ==
    /\ table = [d \in Ids |-> NoWorker]
    /\ life = [i \in Instances |-> "new"]
    /\ open = [i \in Instances |-> FALSE]
    /\ up = {}
    /\ active = [i \in Instances |-> 0]
    /\ strategy = "least"
    /\ inflight = {} /\ doomed = {}
    /\ pc = [r \in Requests |-> "idle"]
    /\ on = [r \in Requests |-> NoWorker]
    /\ attempt = [r \in Requests |-> 0]
    /\ round = [r \in Requests |-> 0]
    /\ how = [r \in Requests |-> "none"] /\ loads = [r \in Requests |-> Blank]
    /\ dpc = [d \in Drainers |-> "idle"] /\ late = {} /\ drained = {}
    /\ job = [d \in Drainers |-> NoWorker]
    /\ hpc = "sweep" /\ sweep = {} /\ toPing = {} /\ ping = NoPing

-----------------------------------------------------------------------------
(* Workers come and go.                                                    *)

SetLife(i, state) == life' = [life EXCEPT ![i] = state]

\* No PickWorker holds the read lock of workersM.
TableFree == \A r \in Requests : pc[r] # "scan"

\* workerReadyHandler: dial, then AddWorkerWithInstance, which overwrites
\* whatever is registered under the id.
Register(i) ==
    /\ life[i] = "new" /\ TableFree
    /\ SetLife(i, "HEALTHY")
    /\ open' = [open EXCEPT ![i] = TRUE]
    /\ up' = up \cup {IdOf[i]}
    /\ table' = [table EXCEPT ![IdOf[i]] = i]
    /\ UNCHANGED <<active, strategy, doomed, requestVars, drainVars, healthVars>>

\* The worker process stops answering.
Crash(id) ==
    /\ id \in up /\ up' = up \ {id}
    /\ UNCHANGED <<table, life, open, active, strategy, doomed, requestVars, drainVars, healthVars>>

\* Router.RemoveWorker: whatever instance the map has under this id is deleted,
\* closed, and its container destroyed by an asynchronous call to the agent.
\* Closing follows the unlock; it is the same step here because only a call in
\* progress on that instance could tell, and such a call may fail at any time.
RemoveEntry(id) ==
    /\ TableFree
    /\ table' = [table EXCEPT ![id] = NoWorker]
    /\ open' = [i \in Instances |-> open[i] /\ table[id] # i]
    /\ doomed' = IF table[id] = NoWorker THEN doomed ELSE doomed \cup {id}

\* destroyWorkerOnAgent reaches the agent, which removes the container by id.
DestroyContainer(id) ==
    /\ id \in doomed /\ doomed' = doomed \ {id}
    /\ up' = up \ {id}
    /\ UNCHANGED <<table, life, open, active, strategy, requestVars, drainVars, healthVars>>

\* destroyWorkerOnAgent is best effort: an unreachable agent is only logged.
DestroyLost(id) ==
    /\ id \in doomed /\ doomed' = doomed \ {id}
    /\ UNCHANGED <<table, life, open, up, active, strategy, requestVars, drainVars, healthVars>>

-----------------------------------------------------------------------------
(* The chat handler and HandleChat.                                        *)

Goto(r, label) == pc' = [pc EXCEPT ![r] = label]

BeginChat(r) ==
    /\ pc[r] = "idle" /\ Goto(r, "pick")
    /\ UNCHANGED <<workerVars, inflight, on, attempt, round, scanVars, drainVars, healthVars>>

Routable == {i \in Registered : life[i] = "HEALTHY"}

\* PickWorker reads the strategy and takes the read lock.
StartScan(r) ==
    /\ pc[r] = "pick" /\ attempt[r] < MaxAttempts /\ Goto(r, "scan")
    /\ how' = [how EXCEPT ![r] = strategy]
    /\ UNCHANGED <<workerVars, inflight, on, attempt, round, loads, drainVars, healthVars>>

\* Mutant of Seen: a worker that is not routable counts as one without requests.
SeenAny(i) == IF i \in Routable THEN active[i] ELSE 0

\* What isRoutable and ActiveRequests say at this moment.
Seen(i) == IF i \in Routable THEN active[i] ELSE Away

\* The map's iteration order is randomised by Go.
Look(r) ==
    /\ pc[r] = "scan"
    /\ \E i \in Registered :
          loads[r][i] = Unread /\ loads' = [loads EXCEPT ![r][i] = Seen(i)]
    /\ UNCHANGED <<workerVars, inflight, pc, on, attempt, round, how, drainVars, healthVars>>

Complete(r) == \A i \in Registered : loads[r][i] # Unread

\* pickRoundRobin finds nobody at its counter and starts again.
WrapAround(r) ==
    /\ pc[r] = "scan" /\ how[r] = "roundrobin" /\ Complete(r)
    /\ how' = [how EXCEPT ![r] = "wrapped"] /\ loads' = [loads EXCEPT ![r] = Blank]
    /\ UNCHANGED <<workerVars, inflight, pc, on, attempt, round, drainVars, healthVars>>

Found(r) == {i \in Instances : loads[r][i] >= 0}
Spare(r) == {i \in Found(r) : loads[r][i] < MaxActive}

\* Round robin stops at the worker whose turn it is, which can be any: it counts
\* through a randomised order.  The others look at all workers first.
Choices(r) ==
    {i \in Spare(r) :
        /\ how[r] \in {"least", "random"} => Complete(r)
        /\ how[r] = "least" => \A j \in Found(r) : loads[r][i] <= loads[r][j]}

\* ErrNoWorkersAvailable: nobody is routable with room, or the one selected is full.
NoChoice(r) ==
    \/ how[r] # "roundrobin" /\ Complete(r) /\ Spare(r) = {}
    \/ how[r] \in {"roundrobin", "wrapped"} /\ Spare(r) # Found(r)

\* The lock is released, and the locals of PickWorker are gone.
EndScan(r) ==
    how' = [how EXCEPT ![r] = "none"] /\ loads' = [loads EXCEPT ![r] = Blank]

\* With a worker found, HandleChat ends in an answer or in ErrWorkerFailed: the
\* rounds of the chat handler are over.
PickWorker(r) ==
    /\ pc[r] = "scan" /\ Goto(r, "picked") /\ EndScan(r)
    /\ \E i \in Choices(r) : on' = [on EXCEPT ![r] = i]
    /\ round' = [round EXCEPT ![r] = 0]
    /\ UNCHANGED <<workerVars, inflight, attempt, drainVars, healthVars>>

Finish(r) ==
    /\ Goto(r, "idle")
    /\ on' = [on EXCEPT ![r] = NoWorker]
    /\ attempt' = [attempt EXCEPT ![r] = 0]
    /\ round' = [round EXCEPT ![r] = 0]

\* The loop of HandleChat is left with an earlier error: ErrWorkerFailed (502).
GiveUpOnWorkers(r) ==
    /\ \/ pc[r] = "pick" /\ attempt[r] = MaxAttempts
       \/ pc[r] = "scan" /\ attempt[r] > 0 /\ NoChoice(r)
    /\ Finish(r) /\ EndScan(r)
    /\ UNCHANGED <<workerVars, inflight, drainVars, healthVars>>

\* Mutant of NoWorkers: the handler's rounds are not counted.
NoWorkersUncounted(r) ==
    /\ pc[r] = "scan" /\ attempt[r] = 0 /\ NoChoice(r)
    /\ Goto(r, "pick") /\ EndScan(r)
    /\ UNCHANGED <<workerVars, inflight, on, attempt, round, drainVars, healthVars>>

\* ErrNoWorkersAvailable: the chat handler sleeps and calls HandleChat again,
\* until its rounds are used up (503).
NoWorkers(r) ==
    /\ pc[r] = "scan" /\ attempt[r] = 0 /\ NoChoice(r) /\ EndScan(r)
    /\ \/ /\ round[r] + 1 < MaxRounds /\ Goto(r, "pick")
          /\ round' = [round EXCEPT ![r] = @ + 1]
          /\ UNCHANGED <<on, attempt>>
       \/ round[r] + 1 = MaxRounds /\ Finish(r)
    /\ UNCHANGED <<workerVars, inflight, drainVars, healthVars>>

AddInFlight(r) ==
    /\ pc[r] = "picked" /\ Goto(r, "tracked")
    /\ inflight' = inflight \cup {r}
    /\ UNCHANGED <<workerVars, on, attempt, round, scanVars, drainVars, healthVars>>

Reachable(i) == IdOf[i] \in up /\ open[i]

SendBegin(r) ==
    /\ pc[r] = "tracked" /\ Goto(r, "calling")
    /\ active' = [active EXCEPT ![on[r]] = @ + 1]
    /\ UNCHANGED <<table, life, open, up, strategy, doomed, inflight, on, attempt, round,
                   scanVars, drainVars, healthVars>>

\* Mutant of SendEnd: the counter is decremented on success only.
SendEndLeaky(r) ==
    /\ pc[r] = "calling"
    /\ \/ Reachable(on[r]) /\ Goto(r, "replied")
          /\ active' = [active EXCEPT ![on[r]] = @ - 1]
       \/ Goto(r, "failed") /\ UNCHANGED active
    /\ UNCHANGED <<table, life, open, up, strategy, doomed, inflight, on, attempt, round,
                   scanVars, drainVars, healthVars>>

\* The call returns.  A reply needs a live worker and an open connection; an
\* error or the 180 s deadline may come whatever the worker did.
SendEnd(r) ==
    /\ pc[r] = "calling"
    /\ \/ Reachable(on[r]) /\ Goto(r, "replied")
       \/ Goto(r, "failed")
    /\ active' = [active EXCEPT ![on[r]] = @ - 1]
    /\ UNCHANGED <<table, life, open, up, strategy, doomed, inflight, on, attempt, round,
                   scanVars, drainVars, healthVars>>

NextAttempt(r) ==
    /\ Goto(r, "pick")
    /\ on' = [on EXCEPT ![r] = NoWorker]
    /\ attempt' = [attempt EXCEPT ![r] = @ + 1]

\* Mutant of RemoveInFlight: a failed attempt keeps its entry.
RemoveInFlightOnReply(r) ==
    /\ \/ /\ pc[r] = "replied" /\ Goto(r, "mark") /\ inflight' = inflight \ {r}
          /\ UNCHANGED <<on, attempt>>
       \/ pc[r] = "failed" /\ NextAttempt(r) /\ UNCHANGED inflight
    /\ UNCHANGED <<workerVars, round, scanVars, drainVars, healthVars>>

\* RemoveInFlight, then the next attempt or, after a reply, MarkHealthy.
RemoveInFlight(r) ==
    /\ inflight' = inflight \ {r}
    /\ \/ pc[r] = "replied" /\ Goto(r, "mark") /\ UNCHANGED <<on, attempt>>
       \/ pc[r] = "failed" /\ NextAttempt(r)
    /\ UNCHANGED <<workerVars, round, scanVars, drainVars, healthVars>>

\* worker.MarkHealthy() does not look at the state it overwrites.
MarkHealthy(r) ==
    /\ pc[r] = "mark" /\ Finish(r)
    /\ SetLife(on[r], "HEALTHY")
    /\ UNCHANGED <<table, open, up, active, strategy, doomed, inflight, scanVars, drainVars,
                   healthVars>>

RequestStep(r) ==
    \/ StartScan(r) \/ Look(r) \/ WrapAround(r) \/ PickWorker(r)
    \/ GiveUpOnWorkers(r) \/ NoWorkers(r) \/ AddInFlight(r)
    \/ SendBegin(r) \/ SendEnd(r) \/ RemoveInFlight(r) \/ MarkHealthy(r)

-----------------------------------------------------------------------------
(* Draining: the autoscaler's goroutines and the operator's.  Nothing keeps *)
(* two of them from working on the same worker.                            *)

DrainGoto(d, label) == dpc' = [dpc EXCEPT ![d] = label]

StartDrain(d, i, label) ==
    /\ dpc[d] = "idle" /\ DrainGoto(d, label)
    /\ job' = [job EXCEPT ![d] = i]
    /\ UNCHANGED <<workerVars, requestVars, late, drained, healthVars>>

\* scaleDown selects a healthy worker and starts a goroutine for it.
ScaleDown(d) == \E i \in Routable : StartDrain(d, i, "chosen")

\* The operator's drain key: DrainWorker kills without waiting.
AdminDrain(d) == \E i \in Registered : StartDrain(d, i, "killStop")

SetDraining(d) ==
    /\ dpc[d] = "chosen" /\ DrainGoto(d, "wait") /\ SetLife(job[d], "DRAINING")
    /\ UNCHANGED <<table, open, up, active, strategy, doomed, requestVars, job, late, drained,
                   healthVars>>

\* The wait loop sees no active request.
DrainIdle(d) ==
    /\ dpc[d] = "wait" /\ active[job[d]] = 0 /\ DrainGoto(d, "stop")
    /\ UNCHANGED <<workerVars, requestVars, job, late, drained, healthVars>>

\* Mutant of DrainDeadline: the drain waits for the last request for ever.
DrainNoDeadline(d) == DrainIdle(d)

\* Five minutes have passed.
DrainDeadline(d) ==
    /\ dpc[d] = "wait" /\ DrainGoto(d, "stop") /\ late' = late \cup {d}
    /\ UNCHANGED <<workerVars, requestVars, job, drained, healthVars>>

SetStopping(d) ==
    /\ \/ dpc[d] = "stop" /\ DrainGoto(d, "close")
       \/ dpc[d] = "killStop" /\ DrainGoto(d, "killClose")
    /\ SetLife(job[d], "STOPPING")
    /\ UNCHANGED <<table, open, up, active, strategy, doomed, requestVars, job, late, drained,
                   healthVars>>

Close(d) ==
    /\ \/ dpc[d] = "close" /\ DrainGoto(d, "dead")
       \/ dpc[d] = "killClose" /\ DrainGoto(d, "remove")
    /\ open' = [open EXCEPT ![job[d]] = FALSE] /\ late' = late \ {d}
    /\ UNCHANGED <<table, life, up, active, strategy, doomed, requestVars, job, drained, healthVars>>

SetDead(d) ==
    /\ dpc[d] = "dead" /\ DrainGoto(d, "remove") /\ SetLife(job[d], "DEAD")
    /\ UNCHANGED <<table, open, up, active, strategy, doomed, requestVars, job, late, drained,
                   healthVars>>

EndDrain(d) ==
    /\ dpc[d] = "remove" /\ DrainGoto(d, "idle")
    /\ job' = [job EXCEPT ![d] = NoWorker]
    /\ drained' = drained \cup {job[d]}
    /\ UNCHANGED <<life, up, active, strategy, requestVars, late, healthVars>>

\* Mutant of DrainRemove: a worker that is healthy again is kept.
DrainRemoveUnlessHealthy(d) ==
    /\ EndDrain(d)
    /\ \/ life[job[d]] # "HEALTHY" /\ RemoveEntry(IdOf[job[d]])
       \/ life[job[d]] = "HEALTHY" /\ UNCHANGED <<table, open, doomed>>

DrainRemove(d) == EndDrain(d) /\ RemoveEntry(IdOf[job[d]])

DrainStep(d) ==
    \/ SetDraining(d) \/ DrainIdle(d) \/ DrainDeadline(d) \/ SetStopping(d)
    \/ Close(d) \/ SetDead(d) \/ DrainRemove(d)

\* The operator's remove key.
AdminRemove(id) ==
    /\ table[id] # NoWorker /\ RemoveEntry(id)
    /\ UNCHANGED <<life, up, active, strategy, requestVars, drainVars, healthVars>>

SetStrategy ==
    /\ strategy' \in Strategies \ {strategy}
    /\ UNCHANGED <<table, life, open, up, active, doomed, requestVars, drainVars, healthVars>>

-----------------------------------------------------------------------------
(* The health check loop.                                                  *)

\* Mutant of CollectIdleDraining: only stopped workers are collected.
CollectStopping ==
    /\ hpc = "sweep" /\ hpc' = "remove"
    /\ sweep' = {IdOf[i] : i \in {j \in Registered : life[j] = "STOPPING" /\ active[j] = 0}}
    /\ UNCHANGED <<workerVars, requestVars, drainVars, toPing, ping>>

\* RemoveIdleDraining collects ids under the read lock ...
CollectIdleDraining ==
    /\ hpc = "sweep" /\ hpc' = "remove"
    /\ sweep' = {IdOf[i] : i \in {j \in Registered : life[j] = "DRAINING" /\ active[j] = 0}}
    /\ UNCHANGED <<workerVars, requestVars, drainVars, toPing, ping>>

\* ... and removes them one by one after releasing it.
RemoveIdleDraining ==
    /\ hpc = "remove"
    /\ \E id \in sweep : sweep' = sweep \ {id} /\ RemoveEntry(id)
    /\ UNCHANGED <<life, up, active, strategy, requestVars, drainVars, hpc, toPing, ping>>

SnapshotHealthy ==
    /\ hpc = "remove" /\ sweep = {} /\ hpc' = "check"
    /\ toPing' = Routable
    /\ UNCHANGED <<workerVars, requestVars, drainVars, sweep, ping>>

SkipBusy ==
    /\ hpc = "check"
    /\ \E i \in toPing : active[i] > 0 /\ toPing' = toPing \ {i}
    /\ UNCHANGED <<workerVars, requestVars, drainVars, hpc, sweep, ping>>

\* The ping takes up to two seconds and may time out on a live worker.
Ping ==
    /\ hpc = "check"
    /\ \E i \in toPing, ok \in BOOLEAN :
          /\ active[i] = 0 /\ (ok => Reachable(i))
          /\ toPing' = toPing \ {i} /\ ping' = [worker |-> i, ok |-> ok]
    /\ hpc' = "apply"
    /\ UNCHANGED <<workerVars, requestVars, drainVars, sweep>>

\* Its answer is applied to whatever the worker has become meanwhile.
ApplyPing ==
    /\ hpc = "apply" /\ hpc' = "check"
    /\ SetLife(ping.worker, IF ping.ok THEN "HEALTHY" ELSE "DRAINING")
    /\ ping' = NoPing
    /\ UNCHANGED <<table, open, up, active, strategy, doomed, requestVars, drainVars, sweep, toPing>>

EndOfCheck ==
    /\ hpc = "check" /\ toPing = {} /\ hpc' = "sweep"
    /\ UNCHANGED <<workerVars, requestVars, drainVars, sweep, toPing, ping>>

HealthStep ==
    \/ CollectIdleDraining \/ RemoveIdleDraining \/ SnapshotHealthy
    \/ SkipBusy \/ Ping \/ ApplyPing \/ EndOfCheck

-----------------------------------------------------------------------------
Next ==
    \/ \E r \in Requests : BeginChat(r) \/ RequestStep(r)
    \/ \E i \in Instances : Register(i)
    \/ \E d \in Drainers : ScaleDown(d) \/ AdminDrain(d) \/ DrainStep(d)
    \/ \E id \in Ids : AdminRemove(id) \/ Crash(id) \/ DestroyContainer(id) \/ DestroyLost(id)
    \/ SetStrategy
    \/ HealthStep

Spec == Init /\ [][Next]_vars

\* Goroutines run, calls and pings have deadlines, the health loop never ends; and an
\* RWMutex admits no new reader while a writer waits, so removals are not starved.
Fairness ==
    /\ \A r \in Requests : WF_vars(RequestStep(r))
    /\ \A d \in Drainers : WF_vars(DrainStep(d)) /\ SF_vars(DrainRemove(d))
    /\ WF_vars(HealthStep) /\ SF_vars(RemoveIdleDraining)

FairSpec == Spec /\ Fairness

-----------------------------------------------------------------------------
\* The locals of PickWorker exist while it runs.
ScanOK ==
    /\ how \in [Requests -> Strategies \cup {"none", "wrapped"}]
    /\ loads \in [Requests -> [Instances -> Int]]
    /\ \A r \in Requests : pc[r] # "scan" => how[r] = "none" /\ loads[r] = Blank

\* Every entry of the map is under its worker's id, and a handler past its pick has a
\* worker.
TypeOK ==
    /\ table \in [Ids -> Instances \cup {NoWorker}]
    /\ \A id \in Ids : table[id] # NoWorker => IdOf[table[id]] = id
    /\ life \in [Instances -> Lives]
    /\ open \in [Instances -> BOOLEAN]
    /\ up \subseteq Ids /\ doomed \subseteq Ids
    /\ active \in [Instances -> Int]
    /\ strategy \in Strategies
    /\ inflight \subseteq Requests
    /\ pc \in [Requests -> RequestPCs]
    /\ on \in [Requests -> Instances \cup {NoWorker}]
    /\ \A r \in Requests : on[r] = NoWorker <=> pc[r] \in {"idle", "pick", "scan"}
    /\ attempt \in [Requests -> 0..MaxAttempts]
    /\ round \in [Requests -> 0..MaxRounds]
    /\ ScanOK
    /\ dpc \in [Drainers -> DrainPCs] /\ late \subseteq Drainers
    /\ job \in [Drainers -> Instances \cup {NoWorker}]
    /\ \A d \in Drainers : dpc[d] # "idle" => job[d] \in Instances
    /\ drained \subseteq Instances
    /\ hpc \in {"sweep", "remove", "check", "apply"}
    /\ sweep \subseteq Ids /\ toPing \subseteq Instances
    /\ ping \in [worker : Instances \cup {NoWorker}, ok : BOOLEAN]
    /\ hpc = "apply" => ping.worker \in Instances

Callers(i) == {r \in Requests : pc[r] = "calling" /\ on[r] = i}

\* A worker's counter of active requests is exactly the number of calls in
\* progress on it, on every return path of Send: the least-connections choice,
\* the drain wait and the health check all rely on it.
ActiveLedger == \A i \in Instances : active[i] = Cardinality(Callers(i))

\* The in-flight store holds a request exactly while one of its attempts is
\* tracked, retries under the same key included; the autoscaler scales down
\* only when it is empty.
InFlightLedger ==
    inflight = {r \in Requests : pc[r] \in {"tracked", "calling", "replied", "failed"}}

\* Once a drain has run to its end its worker is out of the map for good, even
\* if a late reply or a late ping marked it healthy again meanwhile, or another
\* instance was registered under its id.
DrainedGone == drained \cap Registered = {}

\* Every chat request that enters the routing loop leaves it, whatever workers
\* crash, drain or hang.
ChatReturns == \A r \in Requests : pc[r] = "pick" ~> pc[r] = "idle"

\* Every drain, the autoscaler's and the operator's, gets its worker out of the
\* map, even when its requests never finish.
DrainEnds ==
    \A d \in Drainers, i \in Instances :
        dpc[d] \in {"chosen", "killStop"} /\ job[d] = i ~> i \notin Registered

\* A worker that has crashed for good and is not always busy when the health
\* check looks leaves the map for good.
CrashDetected ==
    \A i \in Instances :
        \/ []<>(active[i] > 0)
        \/ []<>(IdOf[i] \in up)
        \/ <>[](i \notin Registered)

\* The code does not keep the last two (README, "Known disagreements").
\* autoscaler.go:693: "Mark as draining - no new requests will be routed".
NoRoutingAfterDraining ==
    [][\A r \in Requests :
          PickWorker(r) =>
              \A d \in Drainers :
                  job[d] = on'[r] => dpc[d] \notin {"wait", "stop", "close", "dead"}]_vars

\* autoscaler.go:684: a safe scale-down waits for active requests to finish
\* before it closes the connection (unless its deadline has passed).
DrainClosesIdle ==
    [][\A d \in Drainers :
          Close(d) /\ dpc[d] = "close" /\ d \notin late => active[job[d]] = 0]_vars

-----------------------------------------------------------------------------
(* The router is a dispatcher: retries are bounded, every choice is fair   *)
(* to the calls really in progress, and nobody returns from a drain.       *)

PhaseOf(label) ==
    CASE label \in {"picked", "tracked"} -> "assigned"
      [] label \in {"replied", "mark"} -> "answered"
      [] OTHER -> label

Dispatcher ==
    INSTANCE Dispatch WITH
        seen <- {i \in Instances : life[i] # "new"},
        pool <- Registered, healthy <- Routable,
        phase <- [r \in Requests |-> PhaseOf(pc[r])],
        worker <- on, tries <- attempt

\* Every step of the router, its drains and its health check is one of the
\* dispatcher's or leaves it alone: what PickWorker reads of the counters, kept by
\* the return paths of Send while it looks, are calls that were in progress during
\* the pick, a request is refused only if nobody it saw had room, tries are bounded,
\* and a late reply or ping brings no worker back.
DispatchSpec == Dispatcher!Spec
=============================================================================
