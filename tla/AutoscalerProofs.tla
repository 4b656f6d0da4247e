-------------------------- MODULE AutoscalerProofs --------------------------
(***************************************************************************)
(* Proofs about Autoscaler, for every finite number of agents, workers and *)
(* request goroutines and every configuration: operations do not overlap,  *)
(* none registers more workers than asked for, and scaling down spares an  *)
(* agent's only healthy worker.                                            *)
(***************************************************************************)
EXTENDS Autoscaler, FiniteSetTheorems, TLAPS

\* The budget of an operation: what it spawned and may still spawn is within the
\* request, and nothing is left over from the operation before.
Budget ==
    \A p \in Scalers :
      /\ pc[p] \in InOp => spawned[p] + remaining[p] <= count[p]
      /\ pc[p] \notin InOp => spawned[p] = 0 /\ remaining[p] = 0

\* A call is to an agent, and under way only while something is left to spawn.
CallsAgent == \A p \in Scalers : Spawning(p) => remaining[p] > 0 /\ target[p] \in Agents

IInv == TypeOK /\ OneOperation /\ Budget /\ CallsAgent

\* The steps of a scaler that take a decision, and the steps of everybody else.
DecideStep(p) == Collect(p) \/ TriggerScaleUp(p) \/ (p = Loop /\ Tick)
ClusterStep == Environment \/ \E w \in Workers : DrainStep(w)

-----------------------------------------------------------------------------
LEMMA NextClasses ==
    ASSUME [Next]_vars
    PROVE  \/ UNCHANGED vars
           \/ ClusterStep
           \/ \E p \in Scalers : DecideStep(p) \/ ScaleStep(p)
  BY DEF Next, Scalers, DecideStep, ClusterStep, CallerStep, LoopStep

\* The cluster never touches the flag or a scaler.
LEMMA ClusterQuiet == ClusterStep => UNCHANGED <<scalingInOp, pc, m, count, opVars>>
  BY DEF ClusterStep, Environment, DrainStep, SetDraining, DrainAndRemove, RegisterAgent,
     Ready, NeverReady, PingFails, LatePing, RemoveIdleDraining, AddWorker, RemoveWorker,
     LowLoadLasts, PenaltyEnds, Rest, opVars

-----------------------------------------------------------------------------
(* Type correctness.                                                       *)

LEMMA CountFacts ==
    ASSUME TypeOK
    PROVE  /\ Cardinality(Entries) \in Nat /\ Cardinality(Healthy) \in Nat
           /\ Cardinality(Lacking) \in Nat /\ MaxWorkersTotal \in Nat
  <1>1. Entries \subseteq Workers /\ Healthy \subseteq Workers /\ Lacking \subseteq Agents
        /\ agents \subseteq Agents
    BY DEF Entries, Healthy, Lacking, TypeOK
  <1>2. /\ IsFiniteSet(Entries) /\ IsFiniteSet(Healthy)
        /\ IsFiniteSet(Lacking) /\ IsFiniteSet(agents)
    BY <1>1, FS_Subset, ClusterAssumption
  <1>3. /\ Cardinality(Entries) \in Nat /\ Cardinality(Healthy) \in Nat
        /\ Cardinality(Lacking) \in Nat /\ Cardinality(agents) \in Nat
    BY <1>2, FS_CardinalityType
  <1>4. MaxWorkers \in Nat
    BY ConfigAssumption
  <1> QED
    BY <1>3, <1>4 DEF MaxWorkersTotal

\* Whatever the loop decides, it asks for a natural number of workers.
LEMMA DecisionRange ==
    ASSUME TypeOK, NEW total \in Nat, NEW queue \in Nat, NEW quiet \in BOOLEAN
    PROVE  /\ EvaluateScaleUp(total, queue) \in Nat
           /\ EvaluateScaleDown(total, quiet) \in Nat
           /\ LowLoadSince(total, quiet) \in {"zero", "recent", "past"}
  <1>1. MaxWorkersTotal \in Nat
    BY CountFacts
  <1>2. {MinWorkers, MaxScaleUpStep, MaxScaleDownStep} \subseteq Nat
    BY ConfigAssumption
  <1>3. queue \div 5 \in Nat
    OBVIOUS
  <1>4. EvaluateScaleUp(total, queue) \in Nat
    BY <1>1, <1>2, <1>3 DEF EvaluateScaleUp, CapTotal, Least
  <1>5. EvaluateScaleDown(total, quiet) \in Nat
    BY <1>2 DEF EvaluateScaleDown, LowLoad, Least
  <1>6. LowLoadSince(total, quiet) \in {"zero", "recent", "past"}
    BY DEF LowLoadSince, TypeOK
  <1> QED
    BY <1>4, <1>5, <1>6

LEMMA TypeInit == Init => TypeOK
  <1>1. 0 \in 0..SpawnMaxRetries /\ NoMetrics \in [total : Nat, healthy : Nat]
    BY ConfigAssumption DEF NoMetrics
  <1> SUFFICES ASSUME Init
               PROVE  TypeOK
    OBVIOUS
  <1>2. state \in [Workers -> States] /\ pc \in [Scalers -> PCs]
    BY DEF Init, States, PCs
  <1> QED
    BY <1>1, <1>2 DEF Init, TypeOK

\* A decision that asks keeps the types.
LEMMA TypeAsk ==
    ASSUME TypeOK, NEW p \in Scalers, NEW n \in Nat, NEW label \in {"idle", "up", "down"},
           Ask(p, label, n), penalized' \subseteq Agents, lowLoad' \in {"zero", "recent", "past"}
    PROVE  TypeOK'
  BY DEF Ask, Goto, Set, NoMetrics, TypeOK, clusterVars, opVars, PCs

LEMMA TypeDecide ==
    ASSUME TypeOK, NEW p \in Scalers, DecideStep(p)
    PROVE  TypeOK'
  <1>1. CASE Collect(p)
    <2>1. [total |-> Cardinality(Entries), healthy |-> Cardinality(Healthy)]
             \in [total : Nat, healthy : Nat]
      BY CountFacts
    <2> QED
      BY <1>1, <2>1 DEF Collect, Goto, Set, TypeOK, clusterVars, opVars, PCs
  <1>2. CASE TriggerScaleUp(p)
    <2>1. PICK queue \in Queues :
             LET wanted == m[p].healthy + queue \div 3
                 needed == CapTotal(IF wanted < 1 THEN 1 ELSE wanted) - m[p].total
             IN  IF needed <= 0 THEN Ask(p, "idle", 0)
                 ELSE Ask(p, "up", Least(needed, MaxScaleUpStep))
      BY <1>2 DEF TriggerScaleUp
    <2> DEFINE wanted == m[p].healthy + queue \div 3
               needed == CapTotal(IF wanted < 1 THEN 1 ELSE wanted) - m[p].total
    <2>2. m[p].healthy \in Nat /\ m[p].total \in Nat
      BY DEF TypeOK
    <2>3. queue \div 3 \in Nat /\ MaxScaleUpStep \in Nat /\ MaxWorkersTotal \in Nat
      BY ConfigAssumption, CountFacts
    <2>4. needed \in Int
      BY <2>2, <2>3 DEF CapTotal, Least
    <2>5. penalized' \subseteq Agents /\ lowLoad' \in {"zero", "recent", "past"}
      BY <1>2 DEF TriggerScaleUp, TypeOK
    <2>6. CASE needed <= 0
      BY <2>1, <2>5, <2>6, TypeAsk
    <2>7. CASE ~(needed <= 0)
      <3>1. Least(needed, MaxScaleUpStep) \in Nat
        BY <2>3, <2>4, <2>7 DEF Least
      <3> QED
        BY <2>1, <2>5, <2>7, <3>1, TypeAsk
    <2> QED
      BY <2>6, <2>7
  <1>3. CASE p = Loop /\ Bootstrap
    BY <1>3, TypeAsk, ConfigAssumption DEF Bootstrap, TypeOK
  <1>4. CASE p = Loop /\ ServeLacking
    BY <1>4, TypeAsk, CountFacts DEF ServeLacking, TypeOK
  <1>5. CASE p = Loop /\ Evaluate
    <2>1. m[Loop].total \in Nat
      BY <1>5 DEF TypeOK
    <2>2. PICK queue \in Queues \cup {0}, quiet \in BOOLEAN, growing \in BOOLEAN :
             LET up == EvaluateScaleUp(m[Loop].total, queue)
                 down == EvaluateScaleDown(m[Loop].total, quiet)
             IN  /\ lowLoad' = LowLoadSince(m[Loop].total, quiet)
                 /\ CASE up > 0 -> Ask(Loop, "up", up)
                      [] up = 0 /\ growing -> Ask(Loop, "up", PrewarmWorkers)
                      [] up = 0 /\ ~growing /\ down > 0 -> Ask(Loop, "down", down)
                      [] OTHER -> Ask(Loop, "idle", 0)
      BY <1>5 DEF Evaluate
    <2>3. queue \in Nat /\ PrewarmWorkers \in Nat
      BY ConfigAssumption
    <2> DEFINE up == EvaluateScaleUp(m[Loop].total, queue)
               down == EvaluateScaleDown(m[Loop].total, quiet)
    <2>4. up \in Nat /\ down \in Nat /\ lowLoad' \in {"zero", "recent", "past"}
      BY <2>1, <2>2, <2>3, DecisionRange
    <2>5. penalized' \subseteq Agents
      BY <1>5 DEF Evaluate, TypeOK
    <2> HIDE DEF up, down
    <2>6. \/ Ask(Loop, "up", up) \/ Ask(Loop, "up", PrewarmWorkers)
          \/ Ask(Loop, "down", down) \/ Ask(Loop, "idle", 0)
      BY <2>2, <2>4 DEF up, down
    <2> QED
      BY <1>5, <2>3, <2>4, <2>5, <2>6, TypeAsk
  <1> QED
    BY <1>1, <1>2, <1>3, <1>4, <1>5 DEF DecideStep, Tick

LEMMA TypeScale ==
    ASSUME TypeOK, CallsAgent, NEW p \in Scalers, ScaleStep(p)
    PROVE  TypeOK'
  <1> USE DEF TypeOK, Goto, Set, clusterVars, opVars, PCs, InOp
  <1>1. CASE StartUp(p)
    <2>1. Lacking \subseteq Agents
      BY DEF Lacking
    <2>2. CASE scalingInOp
      BY <1>1, <2>2 DEF StartUp
    <2>3. CASE ~scalingInOp
      <3>1. /\ pc' = [pc EXCEPT ![p] = "visit"] /\ scalingInOp' = TRUE /\ count' = count
            /\ known' = [known EXCEPT ![p] = agents]
            /\ remaining' = [remaining EXCEPT ![p] = count[p]]
            /\ todo' = [todo EXCEPT ![p] = IF count[p] > 0 THEN Lacking ELSE {}]
        BY <1>1, <2>3 DEF StartUp
      <3>2. UNCHANGED <<clusterVars, draining, penalized, lowLoad, m, target, tries, spawned>>
        BY <1>1 DEF StartUp
      <3>3. todo' \in [Scalers -> SUBSET Agents]
        BY <2>1, <3>1
      <3> QED
        BY <3>1, <3>2, <3>3
    <2> QED
      BY <2>2, <2>3
  <1>2. CASE VisitAgent(p)
    BY <1>2, ConfigAssumption DEF VisitAgent, CallAgent
  <1>3. CASE EndVisits(p)
    BY <1>3 DEF EndVisits
  <1>4. CASE SpawnNext(p)
    BY <1>4, ConfigAssumption DEF SpawnNext, CallAgent, Best
  <1>5. CASE EndUp(p)
    BY <1>5 DEF EndUp
  <1>6. CASE SpawnOK(p)
    <2>1. remaining[p] - 1 \in Nat /\ 0 \in 0..SpawnMaxRetries
      BY <1>6, ConfigAssumption DEF SpawnOK, CallsAgent
    <2>2. state' \in [Workers -> States] /\ host' \in [Workers -> Agents \cup {NoAgent}]
      BY <1>6 DEF SpawnOK, Hire, States
    <2> QED
      BY <1>6, <2>1, <2>2 DEF SpawnOK, AfterSpawn
  <1>7. CASE SpawnFails(p)
    <2>1. remaining[p] \in Nat /\ remaining[p] - 1 \in Nat /\ 0 \in 0..SpawnMaxRetries
      BY <1>7, ConfigAssumption DEF SpawnFails, CallsAgent
    <2>2. state' \in [Workers -> States] /\ host' \in [Workers -> Agents \cup {NoAgent}]
      BY <1>7 DEF SpawnFails, Hire, States
    <2>3. target[p] \in Agents
      BY <1>7 DEF SpawnFails, CallsAgent
    <2>4. CASE tries[p] < SpawnMaxRetries
      BY <1>7, <2>2, <2>4, ConfigAssumption DEF SpawnFails
    <2>5. CASE ~(tries[p] < SpawnMaxRetries)
      <3>1. /\ pc' = [pc EXCEPT ![p] = IF pc[p] = "spawnVisit" THEN "visit" ELSE "rest"]
            /\ penalized' = penalized \cup {target[p]}
            /\ remaining' = [remaining EXCEPT
                               ![p] = remaining[p] - (IF pc[p] = "spawnRest" THEN 1 ELSE 0)]
            /\ target' = [target EXCEPT ![p] = NoAgent] /\ tries' = [tries EXCEPT ![p] = 0]
        BY <1>7, <2>5 DEF SpawnFails, AfterSpawn
      <3>2. UNCHANGED <<agents, draining, scalingInOp, lowLoad, m, count, known, todo, spawned>>
        BY <1>7 DEF SpawnFails
      <3>3. pc' \in [Scalers -> PCs] /\ remaining' \in [Scalers -> Nat]
        BY <2>1, <3>1
      <3> QED
        BY <2>1, <2>2, <2>3, <3>1, <3>2, <3>3
    <2> QED
      BY <2>4, <2>5
  <1>8. CASE StartDown(p)
    <2>1. CASE scalingInOp
      BY <1>8, <2>1 DEF StartDown
    <2>2. CASE ~scalingInOp
      BY <1>8, <2>2 DEF StartDown
    <2> QED
      BY <2>1, <2>2
  <1>9. CASE SelectDrains(p)
    BY <1>9 DEF SelectDrains
  <1>10. CASE End(p)
    BY <1>10 DEF End
  <1> QED
    BY <1>1, <1>2, <1>3, <1>4, <1>5, <1>6, <1>7, <1>8, <1>9, <1>10 DEF ScaleStep, ScaleUpStep

\* Registrations, pings, drains and the passing of time keep the types, too.
LEMMA TypeCluster ==
    ASSUME TypeOK, ClusterStep
    PROVE  TypeOK'
  <1>1. UNCHANGED <<scalingInOp, pc, m, count, opVars>>
    BY ClusterQuiet
  <1> USE DEF TypeOK, Set, Hire, Leave, Change, States, clusterVars, Rest
  <1>2. /\ agents' \subseteq Agents /\ penalized' \subseteq Agents
        /\ lowLoad' \in {"zero", "recent", "past"}
    BY DEF ClusterStep, Environment, DrainStep, SetDraining, DrainAndRemove, RegisterAgent,
       Ready, NeverReady, PingFails, LatePing, RemoveIdleDraining, AddWorker, RemoveWorker,
       LowLoadLasts, PenaltyEnds
  <1>3. draining' \in [Workers -> {"no", "chosen", "marked"}]
    BY DEF ClusterStep, Environment, DrainStep, SetDraining, DrainAndRemove, RegisterAgent,
       Ready, NeverReady, PingFails, LatePing, RemoveIdleDraining, AddWorker, RemoveWorker,
       LowLoadLasts, PenaltyEnds
  <1>4. state' \in [Workers -> States] /\ host' \in [Workers -> Agents \cup {NoAgent}]
    <2>1. CASE \E a \in Agents : RegisterAgent(a) \/ PenaltyEnds(a)
      BY <2>1 DEF RegisterAgent, PenaltyEnds
    <2>2. CASE \E w \in Workers : SetDraining(w) \/ DrainAndRemove(w)
      BY <2>2 DEF SetDraining, DrainAndRemove
    <2>3. CASE \E w \in Workers :
                 \/ Ready(w) \/ NeverReady(w) \/ PingFails(w) \/ LatePing(w)
                 \/ RemoveIdleDraining(w) \/ AddWorker(w) \/ RemoveWorker(w)
      BY <2>3 DEF Ready, NeverReady, PingFails, LatePing, RemoveIdleDraining, AddWorker,
         RemoveWorker
    <2>4. CASE LowLoadLasts
      BY <2>4 DEF LowLoadLasts
    <2> QED
      BY <2>1, <2>2, <2>3, <2>4 DEF ClusterStep, Environment, DrainStep
  <1> QED
    BY <1>1, <1>2, <1>3, <1>4 DEF opVars

-----------------------------------------------------------------------------
(* The flag and the budget.                                                *)

\* A step that leaves every scaler where it is keeps what is said of scalers.
LEMMA QuietStep ==
    ASSUME OneOperation, Budget, CallsAgent, UNCHANGED <<scalingInOp, pc, m, count, opVars>>
    PROVE  OneOperation' /\ Budget' /\ CallsAgent'
  BY DEF OneOperation, Budget, CallsAgent, Spawning, opVars

\* A decision happens outside every operation and ends outside.
LEMMA DecideFacts ==
    ASSUME TypeOK, NEW p \in Scalers, DecideStep(p)
    PROVE  /\ pc[p] \notin InOp /\ UNCHANGED <<scalingInOp, opVars>>
           /\ \E label \in {"idle", "decide", "up", "down"} : Goto(p, label)
           /\ \A q \in Scalers \ {p} : count'[q] = count[q]
  <1>1. CASE Collect(p)
    BY <1>1 DEF Collect, InOp, Goto
  <1>2. CASE TriggerScaleUp(p)
    BY <1>2 DEF TriggerScaleUp, Ask, InOp, Goto, Set, TypeOK
  <1>3. CASE p = Loop /\ Bootstrap
    BY <1>3 DEF Bootstrap, Ask, InOp, Goto, Set, TypeOK
  <1>4. CASE p = Loop /\ ServeLacking
    BY <1>4 DEF ServeLacking, Ask, InOp, Goto, Set, TypeOK
  <1>5. CASE p = Loop /\ Evaluate
    BY <1>5 DEF Evaluate, Ask, InOp, Goto, Set, TypeOK
  <1> QED
    BY <1>1, <1>2, <1>3, <1>4, <1>5 DEF DecideStep, Tick

LEMMA DecideKeeps ==
    ASSUME TypeOK, OneOperation, Budget, CallsAgent, NEW p \in Scalers, DecideStep(p)
    PROVE  OneOperation' /\ Budget' /\ CallsAgent'
  <1>1. PICK label \in {"idle", "decide", "up", "down"} : pc' = [pc EXCEPT ![p] = label]
    BY DecideFacts DEF Goto
  <1>2. pc[p] \notin InOp /\ label \notin InOp /\ UNCHANGED <<scalingInOp, opVars>>
    BY <1>1, DecideFacts DEF InOp
  <1>3. pc'[p] = label /\ \A q \in Scalers \ {p} : pc'[q] = pc[q] /\ count'[q] = count[q]
    BY <1>1, DecideFacts DEF TypeOK
  <1>4. OneOperation'
    BY <1>2, <1>3 DEF OneOperation
  <1>5. Budget'
    BY <1>2, <1>3 DEF Budget, opVars
  <1>6. CallsAgent'
    BY <1>2, <1>3 DEF CallsAgent, Spawning, InOp, opVars
  <1> QED
    BY <1>4, <1>5, <1>6

\* How a scaling step moves its scaler: into an operation, past it because another
\* one is under way, on within it, or out of it.
Enters(p) == /\ pc[p] \notin InOp /\ ~scalingInOp /\ scalingInOp'
             /\ \E label \in InOp : Goto(p, label)
Skips(p) == pc[p] \notin InOp /\ UNCHANGED scalingInOp /\ Goto(p, "idle")
Continues(p) == pc[p] \in InOp /\ UNCHANGED scalingInOp /\ \E label \in InOp : Goto(p, label)
Quits(p) == pc[p] \in InOp /\ ~scalingInOp' /\ Goto(p, "idle")

LEMMA ScaleMoves ==
    ASSUME TypeOK, NEW p \in Scalers, ScaleStep(p)
    PROVE  Enters(p) \/ Skips(p) \/ Continues(p) \/ Quits(p)
  <1> USE DEF InOp, Goto
  <1>1. CASE StartUp(p)
    BY <1>1 DEF StartUp, Enters, Skips
  <1>2. CASE StartDown(p)
    BY <1>2 DEF StartDown, Enters, Skips
  <1>3. CASE VisitAgent(p) \/ SpawnNext(p)
    BY <1>3 DEF VisitAgent, SpawnNext, CallAgent, Continues
  <1>4. CASE EndVisits(p) \/ EndUp(p) \/ SelectDrains(p)
    BY <1>4 DEF EndVisits, EndUp, SelectDrains, Continues
  <1>5. CASE SpawnOK(p)
    BY <1>5 DEF SpawnOK, Spawning, AfterSpawn, Continues
  <1>6. CASE SpawnFails(p)
    <2>1. UNCHANGED pc => pc' = [pc EXCEPT ![p] = pc[p]]
      BY DEF TypeOK
    <2> QED
      BY <1>6, <2>1 DEF SpawnFails, Spawning, AfterSpawn, Continues
  <1>7. CASE End(p)
    BY <1>7 DEF End, Quits
  <1> QED
    BY <1>1, <1>2, <1>3, <1>4, <1>5, <1>6, <1>7 DEF ScaleStep, ScaleUpStep

LEMMA OneOperationStep ==
    ASSUME TypeOK, OneOperation, NEW p \in Scalers, ScaleStep(p)
    PROVE  OneOperation'
  <1>1. \A label : Goto(p, label) =>
          pc'[p] = label /\ \A q \in Scalers \ {p} : pc'[q] = pc[q]
    BY DEF Goto, TypeOK
  <1>2. CASE Enters(p)
    BY <1>1, <1>2 DEF Enters, OneOperation
  <1>3. CASE Skips(p)
    <2>1. pc'[p] \notin InOp
      BY <1>1, <1>3 DEF Skips, InOp
    <2> QED
      BY <1>1, <1>3, <2>1 DEF Skips, OneOperation
  <1>4. CASE Continues(p)
    BY <1>1, <1>4 DEF Continues, OneOperation
  <1>5. CASE Quits(p)
    <2>1. pc'[p] \notin InOp
      BY <1>1, <1>5 DEF Quits, InOp
    <2> QED
      BY <1>1, <1>5, <2>1 DEF Quits, OneOperation
  <1> QED
    BY <1>2, <1>3, <1>4, <1>5, ScaleMoves

LEMMA BudgetStep ==
    ASSUME TypeOK, Budget, CallsAgent, NEW p \in Scalers, ScaleStep(p)
    PROVE  Budget' /\ CallsAgent'
  <1> USE DEF TypeOK, Budget, CallsAgent, Spawning, InOp, Goto, Set, opVars
  <1>1. CASE StartUp(p)
    <2>1. CASE scalingInOp
      BY <1>1, <2>1 DEF StartUp
    <2>2. CASE ~scalingInOp
      <3>1. /\ pc[p] = "up" /\ pc' = [pc EXCEPT ![p] = "visit"] /\ UNCHANGED <<count, spawned, target>>
            /\ remaining' = [remaining EXCEPT ![p] = count[p]]
        BY <1>1, <2>2 DEF StartUp
      <3> QED
        BY <3>1
    <2> QED
      BY <2>1, <2>2
  <1>2. CASE VisitAgent(p)
    BY <1>2 DEF VisitAgent, CallAgent
  <1>3. CASE EndVisits(p)
    BY <1>3 DEF EndVisits
  <1>4. CASE SpawnNext(p)
    <2>1. Best(p) \subseteq Agents
      BY DEF Best
    <2> QED
      BY <1>4, <2>1 DEF SpawnNext, CallAgent
  <1>5. CASE EndUp(p)
    BY <1>5 DEF EndUp
  <1>6. CASE SpawnOK(p)
    BY <1>6 DEF SpawnOK, AfterSpawn
  <1>7. CASE SpawnFails(p)
    <2>1. CASE tries[p] < SpawnMaxRetries
      BY <1>7, <2>1 DEF SpawnFails
    <2>2. CASE ~(tries[p] < SpawnMaxRetries)
      <3>1. /\ Spawning(p) /\ UNCHANGED <<count, spawned>>
            /\ pc' = [pc EXCEPT ![p] = IF pc[p] = "spawnVisit" THEN "visit" ELSE "rest"]
            /\ remaining' = [remaining EXCEPT
                               ![p] = remaining[p] - (IF pc[p] = "spawnRest" THEN 1 ELSE 0)]
            /\ target' = [target EXCEPT ![p] = NoAgent]
        BY <1>7, <2>2 DEF SpawnFails, AfterSpawn
      <3>2. pc'[p] \in {"visit", "rest"} /\ remaining'[p] <= remaining[p]
        BY <3>1
      <3>3. \A q \in Scalers \ {p} : /\ pc'[q] = pc[q] /\ remaining'[q] = remaining[q]
                                     /\ target'[q] = target[q]
        BY <3>1
      <3>4. remaining[p] \in Nat /\ remaining'[p] \in Int
        BY <3>1
      <3>5. Budget'
        BY <3>1, <3>2, <3>3, <3>4
      <3>6. CallsAgent'
        BY <3>2, <3>3
      <3> QED
        BY <3>5, <3>6
    <2> QED
      BY <2>1, <2>2
  <1>8. CASE StartDown(p)
    BY <1>8 DEF StartDown
  <1>9. CASE SelectDrains(p)
    BY <1>9 DEF SelectDrains
  <1>10. CASE End(p)
    BY <1>10 DEF End
  <1> QED
    BY <1>1, <1>2, <1>3, <1>4, <1>5, <1>6, <1>7, <1>8, <1>9, <1>10 DEF ScaleStep, ScaleUpStep

-----------------------------------------------------------------------------
LEMMA IInvInit == Init => IInv
  <1>1. Init => OneOperation /\ Budget /\ CallsAgent
    BY DEF Init, OneOperation, Budget, CallsAgent, Spawning, InOp
  <1> QED
    BY <1>1, TypeInit DEF IInv

LEMMA IInvStep == IInv /\ [Next]_vars => IInv'
  <1> SUFFICES ASSUME IInv, [Next]_vars
               PROVE  IInv'
    OBVIOUS
  <1> USE DEF IInv
  <1>1. CASE UNCHANGED vars
    <2>1. TypeOK'
      BY <1>1 DEF vars, clusterVars, opVars, TypeOK
    <2> QED
      BY <1>1, <2>1, QuietStep DEF vars
  <1>2. CASE ClusterStep
    BY <1>2, TypeCluster, ClusterQuiet, QuietStep
  <1>3. ASSUME NEW p \in Scalers, DecideStep(p)
        PROVE  IInv'
    BY <1>3, TypeDecide, DecideKeeps
  <1>4. ASSUME NEW p \in Scalers, ScaleStep(p)
        PROVE  IInv'
    BY <1>4, TypeScale, OneOperationStep, BudgetStep
  <1> QED
    BY <1>1, <1>2, <1>3, <1>4, NextClasses

LEMMA InductiveInvariant == Spec => []IInv
  BY IInvInit, IInvStep, PTL DEF Spec

\* The flag, the locals of every scaling operation and the decisions keep their
\* ranges; no operation ever counts its remaining workers below zero.
THEOREM TypeCorrect == Spec => []TypeOK
  <1>1. IInv => TypeOK
    BY DEF IInv
  <1> QED
    BY <1>1, InductiveInvariant, PTL

\* However many goroutines call TriggerScaleUp while the loop ticks, one operation
\* runs at a time, and the flag is up exactly while it does.
THEOREM NoOverlap == Spec => []OneOperation
  <1>1. IInv => OneOperation
    BY DEF IInv
  <1> QED
    BY <1>1, InductiveInvariant, PTL

\* No operation registers more workers than it was asked for, with any number of
\* agents and retries, in any order of visits, picks and failures.
THEOREM SpawnsBounded == Spec => []SpawnsWithinRequest
  <1>1. TypeOK /\ Budget => SpawnsWithinRequest
    BY DEF TypeOK, Budget, SpawnsWithinRequest
  <1> QED
    BY <1>1, InductiveInvariant, PTL DEF IInv

-----------------------------------------------------------------------------
(* Scaling down.                                                           *)

\* A member of a set with more than one element is not the only one.
LEMMA AnotherMember ==
    ASSUME NEW S, IsFiniteSet(S), Cardinality(S) > 1, NEW x \in S
    PROVE  \E y \in S : y # x
  <1>1. SUFFICES ASSUME S = {x}
                 PROVE  FALSE
    OBVIOUS
  <1>2. Cardinality({x}) = 1
    BY FS_Singleton
  <1> QED
    BY <1>1, <1>2

LEMMA SpareStep ==
    ASSUME TypeOK, [Next]_vars, NEW w \in Workers, draining[w] = "no", draining'[w] = "chosen"
    PROVE  \E v \in Workers \ {w} : state[v] = "HEALTHY" /\ host[v] = host[w]
  <1>1. PICK p \in Scalers : SelectDrains(p)
    <2>1. draining' # draining
      OBVIOUS
    <2>2. CASE ClusterStep
      BY <2>1, <2>2 DEF ClusterStep, Environment, DrainStep, SetDraining, DrainAndRemove,
         RegisterAgent, Ready, NeverReady, PingFails, LatePing, RemoveIdleDraining,
         AddWorker, RemoveWorker, LowLoadLasts, PenaltyEnds, Set, TypeOK
    <2>3. ASSUME NEW p \in Scalers, DecideStep(p)
          PROVE  draining' = draining
      BY <2>3 DEF DecideStep, Collect, TriggerScaleUp, Tick, Bootstrap, ServeLacking,
         Evaluate, Ask
    <2>4. ASSUME NEW p \in Scalers, ScaleStep(p), ~SelectDrains(p)
          PROVE  draining' = draining
      BY <2>4 DEF ScaleStep, ScaleUpStep, StartUp, VisitAgent, EndVisits, SpawnNext,
         CallAgent, EndUp, SpawnOK, SpawnFails, StartDown, End
    <2> QED
      BY <2>1, <2>2, <2>3, <2>4, NextClasses DEF vars
  <1>2. w \in Candidates
    BY <1>1 DEF SelectDrains
  <1>3. /\ w \in On(host[w], Healthy) /\ Cardinality(On(host[w], Healthy)) > 1
        /\ On(host[w], Healthy) \subseteq Workers
    BY <1>2 DEF Candidates, On, Healthy
  <1>4. IsFiniteSet(On(host[w], Healthy))
    BY <1>3, FS_Subset, ClusterAssumption
  <1>5. PICK v \in On(host[w], Healthy) : v # w
    BY <1>3, <1>4, AnotherMember
  <1> QED
    BY <1>5 DEF On, Healthy

\* Scaling down never takes the only healthy worker of an agent, however many are
\* asked for and whichever are least busy.
THEOREM LastWorkerSpared == Spec => LastHealthySpared
  <1>1. TypeOK /\ [Next]_vars =>
          [\A w \in Workers : draining[w] = "no" /\ draining'[w] = "chosen" =>
             \E v \in Workers \ {w} : state[v] = "HEALTHY" /\ host[v] = host[w]]_vars
    BY SpareStep
  <1> QED
    BY <1>1, InductiveInvariant, PTL DEF Spec, IInv, LastHealthySpared

=============================================================================
